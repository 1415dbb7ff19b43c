-------------------------- MODULE ThreadPoolProofs --------------------------
(***************************************************************************)
(* Proofs about ThreadPool: its safety properties hold for every set of    *)
(* tasks and every finite set of workers.                                  *)
(***************************************************************************)
EXTENDS ThreadPool, SequenceTheorems, FiniteSetTheorems, TLAPS

(* A worker has a task exactly while it executes one, and took it from the  *)
(* queue.                                                                   *)
CurrentWasTaken ==
  \A w \in Worker :
    /\ current[w] # None <=> place[w] = "execute"
    /\ current[w] # None => \E i \in 1..Len(taken) : taken[i] = current[w]

(* A queued task has not been executed.                                     *)
QueuedNotDone == \A i \in 1..Len(tasks) : tasks[i] \notin done

(* running_ is set between start and stop, and stop leaves no worker.       *)
Lifecycle ==
  /\ running <=> phase = "started"
  /\ phase = "stopped" => In("exited") = Worker

IInv ==
  /\ TypeOK
  /\ FirstInFirstOut
  /\ CurrentWasTaken
  /\ QueuedNotDone
  /\ RunOnce
  /\ Lifecycle

-----------------------------------------------------------------------------
(* Submitting t at the back and removing the front both keep the queue the  *)
(* rest of what was accepted.                                               *)
LEMMA AppendKeepsOrder ==
  ASSUME NEW p \in Seq(Task), NEW q \in Seq(Task), NEW t \in Task
  PROVE  Append(p \o q, t) = p \o Append(q, t)
<1>1. /\ p \o q \in Seq(Task)
      /\ <<t>> \in Seq(Task)
  BY ConcatProperties
<1>2. Append(p \o q, t) = (p \o q) \o <<t>> /\ Append(q, t) = q \o <<t>>
  BY <1>1, AppendIsConcat
<1>3. (p \o q) \o <<t>> = p \o (q \o <<t>>)
  BY <1>1, ConcatAssociative
<1>. QED
  BY <1>2, <1>3

LEMMA TakeKeepsOrder ==
  ASSUME NEW p \in Seq(Task), NEW q \in Seq(Task), q # <<>>
  PROVE  p \o q = Append(p, Head(q)) \o Tail(q)
<1>1. /\ Head(q) \in Task
      /\ Tail(q) \in Seq(Task)
      /\ Len(Tail(q)) = Len(q) - 1
      /\ \A i \in 1..Len(Tail(q)) : Tail(q)[i] = q[i + 1]
  BY HeadTailProperties
<1>2. /\ Append(p, Head(q)) \in Seq(Task)
      /\ Len(Append(p, Head(q))) = Len(p) + 1
      /\ \A i \in 1..Len(p) : Append(p, Head(q))[i] = p[i]
      /\ Append(p, Head(q))[Len(p) + 1] = q[1]
  BY <1>1, AppendProperties
<1> DEFINE l == p \o q
           r == Append(p, Head(q)) \o Tail(q)
<1>3. /\ l \in Seq(Task)
      /\ Len(l) = Len(p) + Len(q)
      /\ \A i \in 1..(Len(p) + Len(q)) :
           l[i] = IF i <= Len(p) THEN p[i] ELSE q[i - Len(p)]
  BY ConcatProperties
<1>4. /\ r \in Seq(Task)
      /\ Len(r) = Len(p) + 1 + Len(Tail(q))
      /\ \A i \in 1..(Len(p) + 1 + Len(Tail(q))) :
           r[i] = IF i <= Len(p) + 1
                  THEN Append(p, Head(q))[i] ELSE Tail(q)[i - (Len(p) + 1)]
  BY <1>1, <1>2, ConcatProperties
<1>5. Len(p) \in Nat /\ Len(q) \in Nat
  BY LenProperties
<1> HIDE DEF l, r
<1>6. \A i \in 1..Len(l) : l[i] = r[i]
  <2> TAKE i \in 1..Len(l)
  <2>1. CASE i <= Len(p)
    <3>1. l[i] = p[i] /\ i \in 1..Len(p)
      BY <2>1, <1>3, <1>5
    <3>2. r[i] = Append(p, Head(q))[i]
      BY <2>1, <1>1, <1>3, <1>4, <1>5
    <3>. QED
      BY <3>1, <3>2, <1>2, Zenon
  <2>2. CASE i = Len(p) + 1
    <3>1. l[i] = q[1]
      BY <2>2, <1>3, <1>5
    <3>2. i \in 1..(Len(p) + 1 + Len(Tail(q))) /\ i <= Len(p) + 1
      BY <2>2, <1>1, <1>3, <1>5
    <3>3. r[i] = Append(p, Head(q))[i]
      BY <3>2, <1>4, Zenon
    <3>. QED
      BY <2>2, <3>1, <3>3, <1>2, Zenon
  <2>3. CASE i > Len(p) + 1
    <3>1. r[i] = Tail(q)[i - (Len(p) + 1)]
      BY <2>3, <1>1, <1>3, <1>4, <1>5
    <3>2. Tail(q)[i - (Len(p) + 1)] = q[i - Len(p)]
      BY <2>3, <1>1, <1>3, <1>5
    <3>. QED
      BY <2>3, <3>1, <3>2, <1>3, <1>5
  <2>. QED
    BY <2>1, <2>2, <2>3, <1>3, <1>5
<1>7. l = r
  BY <1>1, <1>3, <1>4, <1>5, <1>6, SeqEqual
<1>. QED
  BY <1>7 DEF l, r

(* What is queued or taken was accepted, and no task was both.              *)
LEMMA AcceptedContents ==
  ASSUME TypeOK, FirstInFirstOut
  PROVE  /\ Len(taken) \in Nat /\ Len(tasks) \in Nat
         /\ Len(accepted) = Len(taken) + Len(tasks)
         /\ \A i \in 1..Len(taken) :
              i \in 1..Len(accepted) /\ accepted[i] = taken[i]
         /\ \A i \in 1..Len(tasks) :
              Len(taken) + i \in 1..Len(accepted)
                /\ accepted[Len(taken) + i] = tasks[i]
<1>1. taken \in Seq(Task) /\ tasks \in Seq(Task) /\ accepted = taken \o tasks
  BY DEF TypeOK, FirstInFirstOut
<1>2. Len(taken) \in Nat /\ Len(tasks) \in Nat
  BY <1>1, LenProperties
<1>3. /\ Len(accepted) = Len(taken) + Len(tasks)
      /\ \A i \in 1..(Len(taken) + Len(tasks)) : accepted[i] =
           IF i <= Len(taken) THEN taken[i] ELSE tasks[i - Len(taken)]
  BY <1>1, ConcatProperties
<1>4. \A i \in 1..Len(tasks) : accepted[Len(taken) + i] = tasks[i]
  <2> TAKE i \in 1..Len(tasks)
  <2>1. /\ Len(taken) + i \in 1..(Len(taken) + Len(tasks))
        /\ ~(Len(taken) + i <= Len(taken))
        /\ Len(taken) + i - Len(taken) = i
    BY <1>2
  <2>. QED
    BY <2>1, <1>3
<1>. QED
  BY <1>2, <1>3, <1>4

-----------------------------------------------------------------------------
(* Before start nothing is queued and no worker runs.                       *)
LEMMA InitIInv == Init => IInv
<1> SUFFICES ASSUME Init PROVE IInv
  OBVIOUS
<1>1. TypeOK
  <2>1. <<>> \in Seq(Task)
    BY EmptySeq
  <2>. QED
    BY <2>1, Zenon DEF Init, TypeOK
<1>2. accepted = taken \o tasks /\ Len(accepted) = 0
  BY ConcatEmptySeq, EmptySeq DEF Init
<1>3. FirstInFirstOut /\ CurrentWasTaken /\ QueuedNotDone
  BY <1>2, EmptySeq DEF Init, FirstInFirstOut, CurrentWasTaken, QueuedNotDone
<1>4. RunOnce /\ Lifecycle
  BY DEF Init, RunOnce, Lifecycle
<1>. QED
  BY <1>1, <1>3, <1>4 DEF IInv

(* Steps that only move workers that execute nothing: start, the test of    *)
(* running_, stop, its end, a spurious return of wait.                      *)
LEMMA MoveIInv ==
  ASSUME IInv,
         UNCHANGED <<tasks, current, done, dropped, accepted, taken>>,
         TypeOK', Lifecycle',
         \A w \in Worker : place[w] = "execute" <=> place'[w] = "execute"
  PROVE  IInv'
<1>1. FirstInFirstOut' /\ QueuedNotDone' /\ RunOnce'
  BY DEF IInv, FirstInFirstOut, QueuedNotDone, RunOnce
<1>2. CurrentWasTaken'
  BY DEF IInv, CurrentWasTaken
<1>. QED
  BY <1>1, <1>2 DEF IInv

LEMMA StartIInv == ASSUME IInv, Start PROVE IInv'
<1>1. TypeOK' /\ Lifecycle'
  BY DEF IInv, Start, TypeOK, Lifecycle
<1>2. /\ UNCHANGED <<tasks, current, done, dropped, accepted, taken>>
      /\ place' = place
  BY DEF Start
<1>. QED
  BY <1>1, <1>2, MoveIInv

LEMMA StopIInv == ASSUME IInv, Stop PROVE IInv'
<1>1. TypeOK' /\ Lifecycle'
  <2>1. place' \in [Worker -> {"loop", "take", "waiting", "woken",
                              "execute", "exited"}]
    BY DEF IInv, Stop, TypeOK
  <2>. QED
    BY <2>1 DEF IInv, Stop, TypeOK, Lifecycle
<1>2. UNCHANGED <<tasks, current, done, dropped, accepted, taken>>
  BY DEF Stop
<1>3. \A w \in Worker : place[w] = "execute" <=> place'[w] = "execute"
  BY DEF Stop, IInv, TypeOK
<1>. QED
  BY <1>1, <1>2, <1>3, MoveIInv

LEMMA JoinIInv == ASSUME IInv, Join PROVE IInv'
<1>1. TypeOK' /\ Lifecycle'
  BY DEF IInv, Join, TypeOK, Lifecycle, In
<1>2. /\ UNCHANGED <<tasks, current, done, dropped, accepted, taken>>
      /\ place' = place
  BY DEF Join
<1>. QED
  BY <1>1, <1>2, MoveIInv

(* A worker that is not "exited" exists, so the pool is not stopped.        *)
LEMMA NotStopped ==
  ASSUME IInv, NEW w \in Worker, place[w] # "exited"
  PROVE  phase # "stopped"
BY DEF IInv, Lifecycle, In

LEMMA TestRunningIInv ==
  ASSUME IInv, NEW w \in Worker, TestRunning(w) PROVE IInv'
<1>1. phase # "stopped" /\ phase' = phase /\ running' = running
  BY NotStopped DEF TestRunning
<1>2. TypeOK'
  BY DEF IInv, TestRunning, TypeOK
<1>3. Lifecycle'
  BY <1>1 DEF IInv, Lifecycle
<1>4. UNCHANGED <<tasks, current, done, dropped, accepted, taken>>
  BY DEF TestRunning
<1>5. \A v \in Worker : place[v] = "execute" <=> place'[v] = "execute"
  BY DEF TestRunning, IInv, TypeOK
<1>. QED
  BY <1>2, <1>3, <1>4, <1>5, MoveIInv

LEMMA SpuriousIInv ==
  ASSUME IInv, NEW w \in Worker, SpuriousWakeup(w) PROVE IInv'
<1>1. phase # "stopped" /\ phase' = phase /\ running' = running
  BY NotStopped DEF SpuriousWakeup
<1>2. TypeOK'
  BY DEF IInv, SpuriousWakeup, TypeOK
<1>3. Lifecycle'
  BY <1>1 DEF IInv, Lifecycle
<1>4. UNCHANGED <<tasks, current, done, dropped, accepted, taken>>
  BY DEF SpuriousWakeup
<1>5. \A v \in Worker : place[v] = "execute" <=> place'[v] = "execute"
  BY DEF SpuriousWakeup, IInv, TypeOK
<1>. QED
  BY <1>2, <1>3, <1>4, <1>5, MoveIInv

-----------------------------------------------------------------------------
(* A new task differs from everything queued, taken and done.               *)
LEMMA NewTaskIsNew ==
  ASSUME IInv, NEW t \in Task, t \notin Submitted
  PROVE  /\ t \notin done
         /\ \A i \in 1..Len(accepted) : accepted[i] # t
         /\ \A i \in 1..Len(tasks) : tasks[i] # t
         /\ \A w \in Worker : current[w] # t
<1>1. t \notin done /\ \A i \in 1..Len(accepted) : accepted[i] # t
  BY DEF Submitted
<1>2. /\ \A i \in 1..Len(taken) : taken[i] # t
      /\ \A i \in 1..Len(tasks) : tasks[i] # t
  BY <1>1, AcceptedContents DEF IInv
<1>3. \A w \in Worker : current[w] # t
  BY <1>2, ThreadPoolAssumption DEF IInv, CurrentWasTaken
<1>. QED
  BY <1>1, <1>2, <1>3

(* What a notification may do: wake one sleeping worker, or nothing.        *)
LEMMA NotifyMoves ==
  ASSUME TypeOK, Notify
  PROVE  /\ place' \in [Worker -> {"loop", "take", "waiting", "woken",
                                   "execute", "exited"}]
         /\ \A w \in Worker : place[w] = "execute" <=> place'[w] = "execute"
BY DEF TypeOK, Notify, In

LEMMA RunIInv == ASSUME IInv, NEW t \in Task, Run(t) PROVE IInv'
<1>1. /\ t \notin Submitted
      /\ UNCHANGED <<phase, running, current, taken>>
  BY DEF Run
<1>2. CASE Threads = {} /\ done' = done \cup {t}
           /\ UNCHANGED <<tasks, place, accepted, dropped>>
  <2>1. TypeOK' /\ FirstInFirstOut' /\ CurrentWasTaken' /\ Lifecycle'
    BY <1>1, <1>2 DEF IInv, TypeOK, FirstInFirstOut, CurrentWasTaken, Lifecycle, In
  <2>2. QueuedNotDone'
    BY <1>1, <1>2, NewTaskIsNew DEF IInv, QueuedNotDone
  <2>3. RunOnce'
    BY <1>1, <1>2, NewTaskIsNew DEF IInv, RunOnce
  <2>. QED
    BY <2>1, <2>2, <2>3 DEF IInv
<1>3. CASE dropped' = dropped \cup {t} /\ UNCHANGED <<tasks, place, accepted, done>>
  <2>1. TypeOK' /\ FirstInFirstOut' /\ CurrentWasTaken' /\ Lifecycle'
    BY <1>1, <1>3 DEF IInv, TypeOK, FirstInFirstOut, CurrentWasTaken, Lifecycle, In
  <2>2. QueuedNotDone' /\ RunOnce'
    BY <1>1, <1>3 DEF IInv, QueuedNotDone, RunOnce
  <2>. QED
    BY <2>1, <2>2 DEF IInv
<1>4. CASE /\ running
           /\ tasks' = Append(tasks, t)
           /\ accepted' = Append(accepted, t)
           /\ Notify
           /\ UNCHANGED <<done, dropped>>
  <2>1. /\ taken \in Seq(Task) /\ tasks \in Seq(Task) /\ accepted \in Seq(Task)
        /\ accepted = taken \o tasks
    BY DEF IInv, TypeOK, FirstInFirstOut
  <2>2. /\ tasks' \in Seq(Task)
        /\ Len(tasks) \in Nat
        /\ Len(tasks') = Len(tasks) + 1
        /\ \A i \in 1..Len(tasks) : tasks'[i] = tasks[i]
        /\ tasks'[Len(tasks) + 1] = t
    BY <1>4, <2>1, AppendProperties, LenProperties
  <2>3. /\ accepted' \in Seq(Task)
        /\ Len(accepted) \in Nat
        /\ Len(accepted') = Len(accepted) + 1
        /\ \A i \in 1..Len(accepted) : accepted'[i] = accepted[i]
        /\ accepted'[Len(accepted) + 1] = t
    BY <1>4, <2>1, AppendProperties, LenProperties
  <2>4. /\ t \notin done
        /\ \A i \in 1..Len(accepted) : accepted[i] # t
    BY <1>1, NewTaskIsNew
  <2>5. TypeOK'
    BY <1>1, <1>4, <2>2, <2>3, NotifyMoves DEF IInv, TypeOK
  <2>6. FirstInFirstOut'
    <3>1. accepted' = taken' \o tasks'
      <4>1. Append(taken \o tasks, t) = taken \o Append(tasks, t)
        BY <2>1, AppendKeepsOrder
      <4>2. taken' = taken
        BY <1>1
      <4>3. accepted' = Append(taken \o tasks, t)
        BY <1>4, <2>1, Zenon
      <4>. QED
        BY <1>4, <4>1, <4>2, <4>3, Zenon
    <3>2. \A i, j \in 1..Len(accepted) : accepted[i] = accepted[j] => i = j
      BY DEF IInv, FirstInFirstOut
    <3>3. ASSUME NEW i \in 1..Len(accepted'), NEW j \in 1..Len(accepted'),
                 accepted'[i] = accepted'[j]
          PROVE  i = j
      <4>1. CASE i <= Len(accepted) /\ j <= Len(accepted)
        BY <2>3, <3>2, <3>3, <4>1
      <4>2. CASE i = Len(accepted) + 1 /\ j <= Len(accepted)
        BY <2>3, <2>4, <3>3, <4>2
      <4>3. CASE j = Len(accepted) + 1 /\ i <= Len(accepted)
        BY <2>3, <2>4, <3>3, <4>3
      <4>. QED
        BY <2>3, <4>1, <4>2, <4>3
    <3>. QED
      BY <3>1, <3>3 DEF FirstInFirstOut
  <2>7. CurrentWasTaken'
    BY <1>1, <1>4, NotifyMoves DEF IInv, CurrentWasTaken
  <2>8. QueuedNotDone'
    <3>1. ASSUME NEW i \in 1..Len(tasks') PROVE tasks'[i] \notin done'
      <4>1. CASE i <= Len(tasks)
        <5>1. i \in 1..Len(tasks) /\ done' = done
          BY <1>4, <2>2, <4>1
        <5>. QED
          BY <2>2, <5>1, Zenon DEF IInv, QueuedNotDone
      <4>2. CASE i = Len(tasks) + 1
        BY <1>4, <2>2, <2>4, <4>2
      <4>. QED
        BY <2>2, <4>1, <4>2
    <3>. QED
      BY <3>1 DEF QueuedNotDone
  <2>9. RunOnce' /\ Lifecycle'
    BY <1>1, <1>4 DEF IInv, RunOnce, Lifecycle
  <2>. QED
    BY <2>5, <2>6, <2>7, <2>8, <2>9 DEF IInv
<1>. QED
  BY <1>2, <1>3, <1>4 DEF Run, Pushed

-----------------------------------------------------------------------------
(* The front of the queue is in no worker, and nowhere else in the queue.   *)
LEMMA FrontIsFree ==
  ASSUME IInv, tasks # <<>>
  PROVE  /\ Head(tasks) \in Task
         /\ Head(tasks) \notin done
         /\ \A i \in 1..Len(taken) : taken[i] # Head(tasks)
         /\ \A w \in Worker : current[w] # Head(tasks)
         /\ Tail(tasks) \in Seq(Task)
         /\ Len(tasks) \in Nat /\ Len(tasks) >= 1
         /\ Len(Tail(tasks)) = Len(tasks) - 1
         /\ \A i \in 1..Len(Tail(tasks)) :
              /\ i + 1 \in 1..Len(tasks)
              /\ Tail(tasks)[i] = tasks[i + 1]
              /\ Tail(tasks)[i] # Head(tasks)
<1> DEFINE h == tasks[1]
<1>1. tasks \in Seq(Task)
  BY DEF IInv, TypeOK
<1>2. /\ Head(tasks) = h
      /\ Head(tasks) \in Task
      /\ Tail(tasks) \in Seq(Task)
      /\ Len(tasks) \in Nat /\ Len(tasks) >= 1
      /\ Len(Tail(tasks)) = Len(tasks) - 1
      /\ \A i \in 1..Len(Tail(tasks)) : Tail(tasks)[i] = tasks[i + 1]
  BY <1>1, HeadTailProperties, EmptySeq
<1>3. /\ Len(taken) \in Nat
      /\ \A i \in 1..Len(taken) :
           i \in 1..Len(accepted) /\ accepted[i] = taken[i]
      /\ \A i \in 1..Len(tasks) :
           Len(taken) + i \in 1..Len(accepted)
             /\ accepted[Len(taken) + i] = tasks[i]
  BY AcceptedContents DEF IInv
<1>4. \A i, j \in 1..Len(accepted) : accepted[i] = accepted[j] => i = j
  BY DEF IInv, FirstInFirstOut
<1>5. 1 \in 1..Len(tasks)
  BY <1>2
<1> HIDE DEF h
<1>6. Len(taken) + 1 \in 1..Len(accepted) /\ accepted[Len(taken) + 1] = h
  BY <1>3, <1>5 DEF h
<1>7. ASSUME NEW i \in 1..Len(taken) PROVE taken[i] # h
  <2>1. i # Len(taken) + 1
    BY <1>3
  <2>. QED
    BY <1>3, <1>4, <1>6, <2>1
<1>8. ASSUME NEW i \in 1..Len(Tail(tasks))
      PROVE  i + 1 \in 1..Len(tasks) /\ tasks[i + 1] # h
  <2>1. i + 1 \in 1..Len(tasks) /\ Len(taken) + (i + 1) # Len(taken) + 1
    BY <1>2, <1>3
  <2>. QED
    BY <1>3, <1>4, <1>6, <2>1
<1>9. h \notin done
  BY <1>5 DEF IInv, QueuedNotDone, h
<1>10. \A w \in Worker : current[w] # h
  BY <1>2, <1>7, ThreadPoolAssumption DEF IInv, CurrentWasTaken
<1>. QED
  BY <1>2, <1>7, <1>8, <1>9, <1>10

LEMMA TakeIInv == ASSUME IInv, NEW w \in Worker, Take(w) PROVE IInv'
<1>1. /\ place[w] \in {"take", "woken"}
      /\ UNCHANGED <<phase, running, done, dropped, accepted>>
      /\ phase # "stopped"
  BY NotStopped DEF Take
<1>2. CASE /\ \E p \in {"waiting", "loop"} : place' = [place EXCEPT ![w] = p]
           /\ UNCHANGED <<tasks, current, taken>>
  <2>1. TypeOK'
    BY <1>1, <1>2 DEF IInv, TypeOK
  <2>2. Lifecycle'
    BY <1>1 DEF IInv, Lifecycle
  <2>3. \A v \in Worker : place[v] = "execute" <=> place'[v] = "execute"
    BY <1>1, <1>2 DEF IInv, TypeOK
  <2>4. UNCHANGED <<tasks, current, done, dropped, accepted, taken>>
    BY <1>1, <1>2
  <2>. QED
    BY <2>1, <2>2, <2>3, <2>4, MoveIInv
<1>3. CASE /\ tasks # <<>>
           /\ place' = [place EXCEPT ![w] = "execute"]
           /\ current' = [current EXCEPT ![w] = Head(tasks)]
           /\ taken' = Append(taken, Head(tasks))
           /\ tasks' = Tail(tasks)
  <2> DEFINE h == Head(tasks)
  <2>1. /\ h \in Task /\ h \notin done
        /\ \A v \in Worker : current[v] # h
        /\ Tail(tasks) \in Seq(Task)
        /\ \A i \in 1..Len(Tail(tasks)) :
             i + 1 \in 1..Len(tasks) /\ Tail(tasks)[i] = tasks[i + 1]
    BY <1>3, FrontIsFree
  <2>2. /\ taken \in Seq(Task) /\ tasks \in Seq(Task)
        /\ Len(taken) \in Nat
    BY LenProperties DEF IInv, TypeOK
  <2>3. /\ taken' \in Seq(Task)
        /\ Len(taken') = Len(taken) + 1
        /\ \A i \in 1..Len(taken) : taken'[i] = taken[i]
        /\ taken'[Len(taken) + 1] = h
    BY <1>3, <2>1, <2>2, AppendProperties
  <2>4. /\ current \in [Worker -> Task \cup {None}]
        /\ current'[w] = h
        /\ \A v \in Worker \ {w} : current'[v] = current[v]
        /\ place'[w] = "execute"
        /\ \A v \in Worker \ {w} : place'[v] = place[v]
    BY <1>3 DEF IInv, TypeOK
  <2>5. TypeOK'
    BY <1>1, <1>3, <2>1, <2>3 DEF IInv, TypeOK
  <2>6. FirstInFirstOut'
    <3>1. taken \o tasks = Append(taken, Head(tasks)) \o Tail(tasks)
      BY <1>3, <2>2, TakeKeepsOrder
    <3>. QED
      BY <1>1, <1>3, <3>1 DEF IInv, FirstInFirstOut
  <2> HIDE DEF h
  <2>7. CurrentWasTaken'
    <3>1. h # None
      BY <2>1, ThreadPoolAssumption
    <3>2. ASSUME NEW v \in Worker, current'[v] # None
          PROVE  \E i \in 1..Len(taken') : taken'[i] = current'[v]
      <4>1. CASE v = w
        BY <2>2, <2>3, <2>4, <4>1
      <4>2. CASE v # w
        <5>1. PICK i \in 1..Len(taken) : taken[i] = current[v]
          BY <2>4, <3>2, <4>2 DEF IInv, CurrentWasTaken
        <5>2. i \in 1..Len(taken') /\ taken'[i] = current'[v]
          BY <2>2, <2>3, <2>4, <4>2, <5>1
        <5>. QED
          BY <5>2
      <4>. QED
        BY <4>1, <4>2
    <3>3. \A v \in Worker : current'[v] # None <=> place'[v] = "execute"
      BY <2>4, <3>1 DEF IInv, CurrentWasTaken
    <3>. QED
      BY <3>2, <3>3 DEF CurrentWasTaken
  <2>8. QueuedNotDone'
    BY <1>1, <1>3, <2>1 DEF IInv, QueuedNotDone
  <2>9. RunOnce'
    <3>1. ASSUME NEW u \in Worker, NEW v \in Worker,
                 current'[u] = current'[v], current'[v] # None
          PROVE  u = v
      BY <2>1, <2>4, <3>1 DEF IInv, RunOnce
    <3>2. \A v \in Worker : current'[v] \notin done'
      BY <1>1, <2>1, <2>4 DEF IInv, RunOnce
    <3>. QED
      BY <3>1, <3>2 DEF RunOnce
  <2>10. Lifecycle'
    BY <1>1 DEF IInv, Lifecycle
  <2>. QED
    BY <2>5, <2>6, <2>7, <2>8, <2>9, <2>10 DEF IInv
<1>. QED
  BY <1>2, <1>3 DEF Take

LEMMA FinishIInv == ASSUME IInv, NEW w \in Worker, Finish(w) PROVE IInv'
<1>1. /\ place[w] = "execute"
      /\ place' = [place EXCEPT ![w] = "loop"]
      /\ current' = [current EXCEPT ![w] = None]
      /\ done' = done \cup {current[w]}
      /\ UNCHANGED <<phase, running, tasks, dropped, accepted, taken>>
      /\ phase # "stopped"
  BY NotStopped DEF Finish
<1>2. /\ current \in [Worker -> Task \cup {None}]
      /\ current[w] \in Task
      /\ current'[w] = None
      /\ \A v \in Worker \ {w} : current'[v] = current[v]
      /\ place'[w] = "loop"
      /\ \A v \in Worker \ {w} : place'[v] = place[v]
  BY <1>1 DEF IInv, TypeOK, CurrentWasTaken
<1>3. TypeOK'
  BY <1>1, <1>2 DEF IInv, TypeOK
<1>4. FirstInFirstOut'
  BY <1>1 DEF IInv, FirstInFirstOut
<1>5. CurrentWasTaken'
  BY <1>1, <1>2 DEF IInv, CurrentWasTaken
<1>6. QueuedNotDone'
  <2>1. PICK j \in 1..Len(taken) : taken[j] = current[w]
    BY <1>2, ThreadPoolAssumption DEF IInv, CurrentWasTaken
  <2>2. /\ Len(taken) \in Nat
        /\ \A i \in 1..Len(taken) :
             i \in 1..Len(accepted) /\ accepted[i] = taken[i]
        /\ \A i \in 1..Len(tasks) :
             Len(taken) + i \in 1..Len(accepted)
               /\ accepted[Len(taken) + i] = tasks[i]
    BY AcceptedContents DEF IInv
  <2>3. ASSUME NEW i \in 1..Len(tasks) PROVE tasks[i] # current[w]
    <3>1. Len(taken) + i # j
      BY <2>2
    <3>2. \A k, l \in 1..Len(accepted) : accepted[k] = accepted[l] => k = l
      BY DEF IInv, FirstInFirstOut
    <3>. QED
      BY <2>1, <2>2, <3>1, <3>2
  <2>. QED
    BY <1>1, <2>3 DEF IInv, QueuedNotDone
<1>7. RunOnce'
  <2>1. None \notin Task /\ done' \subseteq Task
    BY <1>3, ThreadPoolAssumption DEF TypeOK
  <2>2. \A u, v \in Worker :
          current'[u] = current'[v] /\ current'[v] # None => u = v
    BY <1>2 DEF IInv, RunOnce
  <2>3. ASSUME NEW v \in Worker PROVE current'[v] \notin done'
    <3>1. CASE v = w
      BY <1>2, <2>1, <3>1
    <3>2. CASE v # w
      BY <1>1, <1>2, <2>1, <3>2 DEF IInv, RunOnce
    <3>. QED
      BY <3>1, <3>2
  <2>. QED
    BY <2>2, <2>3 DEF RunOnce
<1>8. Lifecycle'
  BY <1>1 DEF IInv, Lifecycle
<1>. QED
  BY <1>3, <1>4, <1>5, <1>6, <1>7, <1>8 DEF IInv

LEMMA NextIInv == IInv /\ [Next]_vars => IInv'
<1> SUFFICES ASSUME IInv, [Next]_vars PROVE IInv'
  OBVIOUS
<1>1. CASE UNCHANGED vars
  BY <1>1 DEF vars, IInv, TypeOK, FirstInFirstOut, CurrentWasTaken,
              QueuedNotDone, RunOnce, Lifecycle, In
<1>2. CASE Start \/ Stop \/ Join
  BY <1>2, StartIInv, StopIInv, JoinIInv
<1>3. ASSUME NEW t \in Task, Run(t) PROVE IInv'
  BY <1>3, RunIInv
<1>4. ASSUME NEW w \in Worker, WorkerStep(w) \/ SpuriousWakeup(w) PROVE IInv'
  BY <1>4, TestRunningIInv, TakeIInv, FinishIInv, SpuriousIInv DEF WorkerStep
<1>. QED
  BY <1>1, <1>2, <1>3, <1>4 DEF Next

-----------------------------------------------------------------------------
(* The inductive invariant holds in every reachable state.                  *)
THEOREM InvariantHolds == Spec => []IInv
<1>. QED
  BY InitIInv, NextIInv, PTL DEF Spec

(* Every variable keeps its type; in particular no empty Task is queued.    *)
THEOREM TypeCorrect == Spec => []TypeOK
<1>1. IInv => TypeOK
  BY DEF IInv
<1>. QED
  BY <1>1, InvariantHolds, PTL

(* take hands out the tasks in the order in which run queued them, without  *)
(* loss or duplication, for any number of workers and callers.              *)
THEOREM FifoHolds == Spec => []FirstInFirstOut
<1>1. IInv => FirstInFirstOut
  BY DEF IInv
<1>. QED
  BY <1>1, InvariantHolds, PTL

(* No task is executed by two workers or executed again.                    *)
THEOREM ExecutedOnce == Spec => []RunOnce
<1>1. IInv => RunOnce
  BY DEF IInv
<1>. QED
  BY <1>1, InvariantHolds, PTL

-----------------------------------------------------------------------------
(* The woken workers are finitely many; waking one more adds one, and one   *)
(* that goes on removes at most one.                                        *)
LEMMA WokenCount ==
  /\ IsFiniteSet(In("woken"))
  /\ Cardinality(In("woken")) \in Nat
  /\ \A w : w \notin In("woken") =>
       Cardinality(In("woken") \cup {w}) = Cardinality(In("woken")) + 1
  /\ \A w : Cardinality(In("woken") \ {w}) >= Cardinality(In("woken")) - 1
<1>1. IsFiniteSet(In("woken")) /\ Cardinality(In("woken")) \in Nat
  BY ThreadPoolAssumption, FS_Subset, FS_CardinalityType DEF In
<1>2. ASSUME NEW w
      PROVE  /\ Cardinality(In("woken") \cup {w}) =
                  IF w \in In("woken") THEN Cardinality(In("woken"))
                                      ELSE Cardinality(In("woken")) + 1
             /\ Cardinality(In("woken") \ {w}) =
                  IF w \in In("woken") THEN Cardinality(In("woken")) - 1
                                      ELSE Cardinality(In("woken"))
  BY <1>1, FS_AddElement, FS_RemoveElement
<1>. QED
  BY <1>1, <1>2

(* notify wakes one sleeper if there is one.                                *)
LEMMA NotifyCount ==
  ASSUME TypeOK, Notify, In("waiting") # {}
  PROVE  Cardinality(In("woken"))' = Cardinality(In("woken")) + 1
<1>1. PICK w \in In("waiting") : place' = [place EXCEPT ![w] = "woken"]
  BY Zenon DEF Notify
<1>2. In("woken")' = In("woken") \cup {w} /\ w \notin In("woken")
  BY <1>1 DEF In, TypeOK
<1>. QED
  BY <1>2, WokenCount

LEMMA NextNoLostWakeup ==
  IInv /\ NoLostWakeup /\ [Next]_vars => NoLostWakeup'
<1> SUFFICES ASSUME IInv, NoLostWakeup, [Next]_vars, In("waiting")' # {}
             PROVE  Len(tasks)' <= Cardinality(In("woken"))'
  BY DEF NoLostWakeup
<1>0. /\ TypeOK
      /\ tasks \in Seq(Task) /\ Len(tasks) \in Nat
      /\ Cardinality(In("woken")) \in Nat
  BY LenProperties, WokenCount DEF IInv, TypeOK
<1>1. CASE UNCHANGED <<tasks, place>>
  BY <1>1 DEF NoLostWakeup, In
<1>2. ASSUME NEW t \in Task, Run(t)
      PROVE  Len(tasks)' <= Cardinality(In("woken"))'
  <2>1. CASE UNCHANGED <<tasks, place>>
    BY <1>1, <2>1
  <2>2. CASE tasks' = Append(tasks, t) /\ Notify
    <3>1. In("waiting") # {}
      BY <1>0, <2>2 DEF Notify, In, TypeOK
    <3>2. Len(tasks)' = Len(tasks) + 1
      BY <1>0, <2>2, AppendProperties
    <3>3. Cardinality(In("woken"))' = Cardinality(In("woken")) + 1
      BY <1>0, <2>2, <3>1, NotifyCount
    <3>. QED
      BY <1>0, <3>1, <3>2, <3>3 DEF NoLostWakeup
  <2>. QED
    BY <1>2, <2>1, <2>2 DEF Run, Pushed
<1>3. ASSUME NEW w \in Worker, Take(w)
      PROVE  Len(tasks)' <= Cardinality(In("woken"))'
  <2>1. CASE tasks = <<>> /\ tasks' = tasks
    <3>1. Len(tasks)' = 0
      BY <2>1, EmptySeq
    <3>2. Cardinality(In("woken"))' \in Nat
      <4>1. In("woken")' \subseteq Worker
        BY DEF In
      <4>. QED
        BY <4>1, ThreadPoolAssumption, FS_Subset, FS_CardinalityType
    <3>. QED
      BY <3>1, <3>2
  <2>2. CASE /\ tasks # <<>>
             /\ place' = [place EXCEPT ![w] = "execute"]
             /\ tasks' = Tail(tasks)
    <3>1. In("woken")' = In("woken") \ {w} /\ In("waiting") # {}
      BY <1>0, <2>2 DEF In, TypeOK
    <3>2. Len(tasks)' = Len(tasks) - 1
      BY <1>0, <2>2, HeadTailProperties
    <3>3. Cardinality(In("woken"))' >= Cardinality(In("woken")) - 1
      BY <3>1, WokenCount
    <3>4. Cardinality(In("woken"))' \in Nat
      BY <3>1, WokenCount, FS_RemoveElement, FS_CardinalityType
    <3>. QED
      BY <1>0, <3>1, <3>2, <3>3, <3>4 DEF NoLostWakeup
  <2>. QED
    BY <1>3, <2>1, <2>2 DEF Take, MustWait
<1>4. ASSUME NEW w \in Worker, TestRunning(w) \/ Finish(w)
      PROVE  Len(tasks)' <= Cardinality(In("woken"))'
  <2>1. /\ tasks' = tasks
        /\ \A v \in Worker : /\ place[v] = "waiting" <=> place'[v] = "waiting"
                             /\ place[v] = "woken" <=> place'[v] = "woken"
    BY <1>0, <1>4 DEF TestRunning, Finish, TypeOK
  <2>2. In("woken")' = In("woken") /\ In("waiting")' = In("waiting")
    BY <2>1 DEF In
  <2>. QED
    BY <2>1, <2>2 DEF NoLostWakeup
<1>5. ASSUME NEW w \in Worker, SpuriousWakeup(w)
      PROVE  Len(tasks)' <= Cardinality(In("woken"))'
  <2>1. /\ tasks' = tasks
        /\ In("woken")' = In("woken") \cup {w} /\ w \notin In("woken")
        /\ In("waiting") # {}
    BY <1>0, <1>5 DEF SpuriousWakeup, In, TypeOK
  <2>2. Cardinality(In("woken"))' = Cardinality(In("woken")) + 1
    BY <2>1, WokenCount
  <2>. QED
    BY <1>0, <2>1, <2>2 DEF NoLostWakeup
<1>6. ASSUME Stop PROVE Len(tasks)' <= Cardinality(In("woken"))'
  <2>1. In("waiting")' = {}
    BY <1>6 DEF Stop, In
  <2>. QED
    BY <2>1
<1>7. Start \/ Join => UNCHANGED <<tasks, place>>
  BY DEF Start, Join
<1>. QED
  BY <1>1, <1>2, <1>3, <1>4, <1>5, <1>6, <1>7 DEF Next, WorkerStep, vars

(* However many workers wake up and find their task taken by another, a     *)
(* sleeping worker is never left behind while the queue holds more tasks    *)
(* than there are woken workers to take them.                               *)
THEOREM WakeupsSuffice == Spec => []NoLostWakeup
<1>1. Init => NoLostWakeup
  BY DEF Init, NoLostWakeup, In
<1>. QED
  BY <1>1, InitIInv, NextIInv, NextNoLostWakeup, PTL DEF Spec

(* Once stop has returned nothing is executed or queued, provided that the  *)
(* pool has a worker: with numThreads = 0 a late run executes its task in   *)
(* the caller.                                                              *)
THEOREM StoppedIsQuiet ==
  ASSUME Worker # {}
  PROVE  Spec => QuietAfterStop
<1>1. ASSUME IInv, [Next]_vars, phase = "stopped"
      PROVE  UNCHANGED <<done, tasks>>
  <2>1. /\ ~running /\ Threads # {}
        /\ \A w \in Worker : place[w] = "exited"
    BY <1>1 DEF IInv, Lifecycle, Threads, In
  <2>2. ASSUME NEW t \in Task, Run(t) PROVE UNCHANGED <<done, tasks>>
    BY <2>1, <2>2 DEF Run
  <2>3. ASSUME NEW w \in Worker, WorkerStep(w) \/ SpuriousWakeup(w)
        PROVE  UNCHANGED <<done, tasks>>
    BY <2>1, <2>3 DEF WorkerStep, TestRunning, Take, Finish, SpuriousWakeup
  <2>4. Start \/ Stop \/ Join => UNCHANGED <<done, tasks>>
    BY DEF Start, Stop, Join
  <2>5. UNCHANGED vars => UNCHANGED <<done, tasks>>
    BY DEF vars
  <2>. QED
    BY <1>1, <2>2, <2>3, <2>4, <2>5 DEF Next
<1>2. IInv /\ [Next]_vars
        => [phase = "stopped" => UNCHANGED <<done, tasks>>]_vars
  BY <1>1
<1>. QED
  BY <1>2, InvariantHolds, PTL DEF Spec, QuietAfterStop

-----------------------------------------------------------------------------
(* Every step of the pool is a step of an executor or changes nothing that  *)
(* its users see.                                                           *)
LEMMA RunIsSubmit ==
  ASSUME IInv, NEW t \in Task, Run(t) PROVE Abstract!Submit(t)
<1>1. t \notin Submitted /\ running' = running /\ current' = current
  BY DEF Run
<1>2. t \notin Abstract!Known
  BY <1>1, NewTaskIsNew DEF Abstract!Known, Submitted
<1>3. CASE /\ Threads = {} /\ done' = done \cup {t}
           /\ UNCHANGED <<tasks, dropped>>
  <2>1. ~running \/ Worker = {}
    BY <1>3 DEF Threads, IInv, Lifecycle
  <2>. QED
    BY <1>1, <1>2, <1>3, <2>1 DEF Abstract!Submit
<1>4. CASE ~running /\ dropped' = dropped \cup {t} /\ UNCHANGED <<tasks, done>>
  BY <1>1, <1>2, <1>4 DEF Abstract!Submit
<1>5. CASE running /\ tasks' = Append(tasks, t) /\ UNCHANGED <<done, dropped>>
  BY <1>1, <1>2, <1>5 DEF Abstract!Submit
<1>. QED
  BY <1>3, <1>4, <1>5 DEF Run, Pushed

LEMMA StepIsExecutorStep ==
  IInv /\ [Next]_vars => [Abstract!Next]_(Abstract!executorVars)
<1> SUFFICES ASSUME IInv, [Next]_vars
             PROVE  \/ Abstract!Next
                    \/ UNCHANGED <<running, tasks, current, done, dropped>>
  BY DEF Abstract!executorVars
<1>1. CASE Start \/ Stop
  <2>1. Abstract!Switch
    BY <1>1 DEF Start, Stop, Abstract!Switch, IInv, TypeOK, Lifecycle
  <2>. QED
    BY <2>1 DEF Abstract!Next
<1>2. CASE Join \/ UNCHANGED vars
  BY <1>2 DEF Join, vars
<1>3. ASSUME NEW t \in Task, Run(t) PROVE Abstract!Next
  BY <1>3, RunIsSubmit DEF Abstract!Next
<1>4. ASSUME NEW w \in Worker, TestRunning(w) \/ SpuriousWakeup(w)
      PROVE  UNCHANGED <<running, tasks, current, done, dropped>>
  BY <1>4 DEF TestRunning, SpuriousWakeup
<1>5. ASSUME NEW w \in Worker, Take(w)
      PROVE  \/ Abstract!Next
             \/ UNCHANGED <<running, tasks, current, done, dropped>>
  <2>1. current[w] = None
    BY <1>5 DEF Take, IInv, CurrentWasTaken
  <2>2. \/ Abstract!Begin(w)
        \/ UNCHANGED <<running, tasks, current, done, dropped>>
    BY <1>5, <2>1 DEF Take, Abstract!Begin
  <2>. QED
    BY <2>2 DEF Abstract!Next
<1>6. ASSUME NEW w \in Worker, Finish(w) PROVE Abstract!Next
  <2>1. current[w] # None
    BY <1>6 DEF Finish, IInv, CurrentWasTaken
  <2>2. Abstract!End(w)
    BY <1>6, <2>1 DEF Finish, Abstract!End
  <2>. QED
    BY <2>2 DEF Abstract!Next
<1>. QED
  BY <1>1, <1>2, <1>3, <1>4, <1>5, <1>6 DEF Next, WorkerStep

(* The safety part of ActsAsExecutor: locks, sleeping and waking are        *)
(* invisible, for any number of tasks and workers.                          *)
THEOREM PoolIsExecutor == Spec => Abstract!Spec
<1>1. Init => Abstract!Init
  BY DEF Init, Abstract!Init
<1>. QED
  BY <1>1, InvariantHolds, StepIsExecutorStep, PTL DEF Spec, Abstract!Spec
=============================================================================
