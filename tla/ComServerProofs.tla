-------------------------- MODULE ComServerProofs --------------------------
(***************************************************************************)
(* Proofs about ComServer: its safety invariants hold for every set of     *)
(* clients, requests, workers and connections, and every failure of a      *)
(* session.                                                                *)
(***************************************************************************)
EXTENDS ComServer, SequenceTheorems, WellFoundedInduction, TLAPS

(* A worker past the start of dealMessage has a task, and one that needs    *)
(* the database.                                                            *)
Busy ==
  \A w \in Worker : step[w] # "begin" =>
    current[w] # None /\ Msg[current[w]].kind \in {"RQUPJ", "RQDPJ"}

(* A request is in one place at a time: queued once, with one worker, or    *)
(* done.                                                                    *)
TasksApart ==
  /\ \A i, j \in 1..Len(queue) : queue[i] = queue[j] => i = j
  /\ \A i \in 1..Len(queue) :
       queue[i] \notin done /\ \A w \in Worker : current[w] # queue[i]
  /\ \A w \in Worker : current[w] \notin done
  /\ \A w, v \in Worker : current[w] = current[v] /\ current[w] # None => w = v

(* Only requests that are done, or whose worker has just replied, have been *)
(* answered.                                                                *)
Answered ==
  \A s \in Sent :
    s.to \in done \/ \E w \in Worker : step[w] = "replied" /\ current[w] = s.to

(* A row holds texts that were put under its own key.                       *)
RowsFit ==
  \A r \in Request : \A i \in 1..Len(table[Row(r)]) :
    LET q == table[Row(r)][i] IN Msg[q].kind = "RQUPJ" /\ Row(q) = Row(r)

(* No more versions of a row are known to its clients than it has.          *)
AckedBound == \A r \in Request : acked[r] <= Len(table[Row(r)])

(* The versions of a row are v, of which a get of the row must not return   *)
(* one before the n-th.  A put gets no text.                                *)
Right(v, n, r, x) ==
  x.ok =>
    \/ Msg[r].kind = "RQUPJ" /\ x.text = None
    \/ Msg[r].kind = "RQDPJ" /\ \E i \in 1..Len(v) : i >= n /\ v[i] = x.text

(* A get gets a version of its row that is not older than the last one      *)
(* acknowledged when it arrived.                                            *)
ResultsRight ==
  /\ \A w \in Worker : step[w] \in {"queried", "replied"} =>
       Right(table[Row(current[w])], acked[current[w]], current[w], res[w])
  /\ \A s \in Sent : Right(table[Row(s.to)], acked[s.to], s.to, s.res)

IInv ==
  /\ TypeOK
  /\ Busy
  /\ TasksApart
  /\ Answered
  /\ OneReply
  /\ RowsFit
  /\ AckedBound
  /\ ResultsRight

-----------------------------------------------------------------------------
(* A set of natural numbers has a least element, and a bounded one a        *)
(* greatest.                                                                *)
LEMMA LeastExists ==
  ASSUME NEW S, S \subseteq Nat, S # {}
  PROVE  \E m \in S : \A k \in S : m <= k
<1> DEFINE R == OpToRel(<, Nat)
<1>1. IsWellFoundedOn(R, Nat)
  BY NatLessThanWellFounded
<1>2. \A x, y \in Nat : x < y => <<x, y>> \in R
  BY DEF OpToRel
<1> HIDE DEF R
<1>3. PICK m \in S : \A k \in S : ~(<<k, m>> \in R)
  BY <1>1, WFMin
<1>4. \A k \in S : ~(k < m)
  BY <1>2, <1>3
<1>5. \A k \in S : k \in Nat /\ m \in Nat
  OBVIOUS
<1>6. \A k \in S : m <= k
  BY <1>4, <1>5
<1>. QED
  BY <1>6

LEMMA GreatestExists ==
  ASSUME NEW n \in Nat, NEW S, S \subseteq 0..n, S # {}
  PROVE  \E m \in S : \A k \in S : k <= m
<1> DEFINE T == {n - i : i \in S}
<1>1. \A i \in S : n - i \in Nat
  OBVIOUS
<1>2. T \subseteq Nat /\ T # {}
  BY <1>1
<1>3. PICK m \in T : \A k \in T : m <= k
  <2> HIDE DEF T
  <2>. QED
    BY <1>2, LeastExists
<1>4. PICK i \in S : m = n - i
  OBVIOUS
<1>5. \A k \in S : n - i <= n - k
  BY <1>3, <1>4
<1>6. \A k \in S : k <= i
  BY <1>5
<1>. QED
  BY <1>6

(* buf.find(' ') finds the first blank.                                     *)
LEMMA FirstBlankProperties ==
  ASSUME NEW S, NEW buf \in Seq(S)
  PROVE  /\ FirstBlank(buf) \in 0..Len(buf)
         /\ \A i \in 1..FirstBlank(buf) : buf[i] # Blank
         /\ FirstBlank(buf) < Len(buf) => buf[FirstBlank(buf) + 1] = Blank
<1>0. Len(buf) \in Nat
  BY LenProperties
<1> DEFINE Stop == {n \in 0..Len(buf) : n < Len(buf) => buf[n + 1] = Blank}
<1>1. PICK n \in Stop : \A k \in Stop : n <= k
  <2>1. Len(buf) \in Stop /\ Stop \subseteq Nat
    BY <1>0
  <2> HIDE DEF Stop
  <2>. QED
    BY <2>1, LeastExists
<1>2. \A i \in 1..n : buf[i] # Blank
  <2> SUFFICES ASSUME NEW i \in 1..n, buf[i] = Blank PROVE FALSE
    OBVIOUS
  <2>1. i - 1 \in 0..Len(buf) /\ (i - 1) + 1 = i
    BY <1>0, <1>1
  <2>2. i - 1 \in Stop
    BY <2>1
  <2>3. n <= i - 1
    BY <1>1, <2>2
  <2>. QED
    BY <1>0, <1>1, <2>3
<1>3. \E k \in 0..Len(buf) : /\ \A i \in 1..k : buf[i] # Blank
                             /\ k < Len(buf) => buf[k + 1] = Blank
  BY <1>1, <1>2
<1>. QED
  BY <1>3 DEF FirstBlank

(* A row is a sequence of requests, and so is the queue.                    *)
LEMMA RowTyped ==
  ASSUME TypeOK, NEW r \in Request
  PROVE  table[Row(r)] \in Seq(Request) /\ Len(table[Row(r)]) \in Nat
<1>1. table[Row(r)] \in Seq(Request)
  BY DEF TypeOK, Rows
<1>. QED
  BY <1>1, LenProperties

LEMMA QueueTyped == TypeOK => queue \in Seq(Request) /\ Len(queue) \in Nat
<1> SUFFICES ASSUME TypeOK PROVE queue \in Seq(Request) /\ Len(queue) \in Nat
  OBVIOUS
<1>1. queue \in Seq(Request)
  BY DEF TypeOK
<1>. QED
  BY <1>1, LenProperties

(* The versions of a row that are known to be stored are versions of it.    *)
LEMMA AckedVersionsBound ==
  ASSUME TypeOK, NEW r \in Request
  PROVE  AckedVersions(r) \in 0..Len(table[Row(r)])
<1> DEFINE known == {i \in 1..Len(table[Row(r)]) :
             \E p \in Peer : \E k \in 1..Len(replies[p]) :
               replies[p][k] = [to |-> table[Row(r)][i], res |-> Success]}
           All == {0} \cup known
<1>1. Len(table[Row(r)]) \in Nat
  BY RowTyped
<1>2. All \subseteq 0..Len(table[Row(r)]) /\ All # {}
  BY <1>1
<1>3. \E n \in All : \A i \in All : i <= n
  <2> HIDE DEF All
  <2>. QED
    BY <1>1, <1>2, GreatestExists
<1>4. AckedVersions(r) = CHOOSE n \in All : \A i \in known : i <= n
  BY DEF AckedVersions
<1>5. \E n \in All : \A i \in known : i <= n
  BY <1>3
<1> HIDE DEF known, All
<1>6. AckedVersions(r) \in All
  BY <1>4, <1>5
<1>. QED
  BY <1>2, <1>6

-----------------------------------------------------------------------------
(* What the operations of the thread pool do to the places of the requests. *)
LEMMA SubmitTasks ==
  ASSUME TypeOK, TasksApart, NEW r \in Request, Exec!Submit(r)
  PROVE  /\ queue' \in Seq(Request) /\ done' \subseteq Request
         /\ done \subseteq done' /\ current' = current
         /\ r \notin done /\ \A w \in Worker : current[w] # r
         /\ TasksApart'
<1>1. /\ r \notin done /\ \A w \in Worker : current[w] # r
      /\ \A i \in 1..Len(queue) : queue[i] # r
      /\ current' = current
  BY DEF Exec!Submit, Exec!Known
<1>2. CASE queue' = Append(queue, r) /\ done' = done
  <2>1. /\ queue' \in Seq(Request) /\ Len(queue) \in Nat
        /\ Len(queue') = Len(queue) + 1
        /\ \A i \in 1..Len(queue) : queue'[i] = queue[i]
        /\ queue'[Len(queue) + 1] = r
    BY <1>2, QueueTyped, AppendProperties
  <2>2. \A i \in 1..Len(queue') : i \in 1..Len(queue) \/ i = Len(queue) + 1
    BY <2>1
  <2>3. TasksApart'
    BY <1>1, <1>2, <2>1, <2>2 DEF TasksApart
  <2>. QED
    BY <1>1, <1>2, <2>1, <2>3 DEF TypeOK
<1>3. CASE Worker = {} /\ queue' = queue /\ done' \in {done, done \cup {r}}
  BY <1>1, <1>3 DEF TypeOK, TasksApart
<1>. QED
  BY <1>2, <1>3 DEF Exec!Submit

LEMMA BeginTasks ==
  ASSUME TypeOK, TasksApart, ComServerAssumption, NEW w \in Worker, Exec!Begin(w)
  PROVE  /\ queue' \in Seq(Request) /\ Head(queue) \in Request
         /\ current[w] = None
         /\ current' = [current EXCEPT ![w] = Head(queue)]
         /\ done' = done
         /\ TasksApart'
<1>1. /\ current[w] = None /\ done' = done
      /\ current' = [current EXCEPT ![w] = Head(queue)]
      /\ queue # <<>> /\ queue' = Tail(queue)
  BY DEF Exec!Begin
<1>2. /\ Head(queue) \in Request /\ queue' \in Seq(Request)
      /\ Len(queue') = Len(queue) - 1 /\ Len(queue) \in Nat \ {0}
      /\ \A i \in 1..Len(queue') : queue'[i] = queue[i + 1]
      /\ Head(queue) = queue[1]
  BY <1>1, QueueTyped, HeadTailProperties, LenProperties, EmptySeq
<1>3. \A i \in 1..Len(queue') : i + 1 \in 1..Len(queue) /\ i + 1 # 1
  BY <1>2
<1>4. /\ 1 \in 1..Len(queue) /\ queue[1] \notin done
      /\ \A v \in Worker : current[v] # queue[1]
  BY <1>2 DEF TasksApart
<1>5. \A i, j \in 1..Len(queue') : queue'[i] = queue'[j] => i = j
  <2> SUFFICES ASSUME NEW i \in 1..Len(queue'), NEW j \in 1..Len(queue'),
                      queue'[i] = queue'[j]
               PROVE  i = j
    OBVIOUS
  <2>1. /\ queue[i + 1] = queue[j + 1]
        /\ i + 1 \in 1..Len(queue) /\ j + 1 \in 1..Len(queue)
    BY <1>2, <1>3
  <2>2. i + 1 = j + 1
    BY <2>1 DEF TasksApart
  <2>. QED
    BY <1>2, <2>2
<1>6. \A i \in 1..Len(queue') : /\ queue'[i] # queue[1]
                                /\ queue'[i] \notin done
                                /\ \A v \in Worker : current[v] # queue'[i]
  <2> SUFFICES ASSUME NEW i \in 1..Len(queue')
               PROVE  /\ queue[i + 1] # queue[1] /\ queue[i + 1] \notin done
                      /\ \A v \in Worker : current[v] # queue[i + 1]
    BY <1>2
  <2>. QED
    BY <1>3, <1>4 DEF TasksApart
<1>7. \A v \in Worker : current'[v] = IF v = w THEN queue[1] ELSE current[v]
  BY <1>1, <1>2 DEF TypeOK
<1>8. TasksApart'
  BY <1>1, <1>4, <1>5, <1>6, <1>7 DEF TasksApart
<1>. QED
  BY <1>1, <1>2, <1>8

LEMMA EndTasks ==
  ASSUME TypeOK, TasksApart, ComServerAssumption, NEW w \in Worker, Exec!End(w)
  PROVE  /\ current[w] # None /\ current[w] \in done'
         /\ current' = [current EXCEPT ![w] = None]
         /\ done' = done \cup {current[w]} /\ done' \subseteq Request
         /\ queue' = queue
         /\ TasksApart'
<1>1. /\ current[w] # None
      /\ current' = [current EXCEPT ![w] = None]
      /\ done' = done \cup {current[w]}
      /\ queue' = queue
  BY DEF Exec!End
<1>2. /\ done' \subseteq Request /\ None \notin Request
      /\ \A i \in 1..Len(queue) : queue[i] \in Request
  BY <1>1, ElementOfSeq DEF TypeOK, ComServerAssumption
<1>3. \A v \in Worker : current'[v] = IF v = w THEN None ELSE current[v]
  BY <1>1 DEF TypeOK
<1>4. TasksApart'
  BY <1>1, <1>2, <1>3 DEF TasksApart
<1>. QED
  BY <1>1, <1>2, <1>4

-----------------------------------------------------------------------------
LEMMA SentMember ==
  \A s : s \in Sent <=>
    \E p \in Peer : \E k \in 1..Len(replies[p]) : s = replies[p][k]
BY DEF Sent

LEMMA SentTyped ==
  ASSUME TypeOK, NEW s \in Sent
  PROVE  s \in [to : Request, res : Result]
<1>1. PICK p \in Peer : \E k \in 1..Len(replies[p]) : s = replies[p][k]
  BY SentMember
<1> DEFINE Packets == [to : Request, res : Result]
<1>2. replies[p] \in Seq(Packets)
  BY DEF TypeOK
<1> HIDE DEF Packets
<1>3. \A k \in 1..Len(replies[p]) : replies[p][k] \in Packets
  BY <1>2, ElementOfSeq
<1>4. s \in Packets
  BY <1>1, <1>3
<1>. QED
  BY <1>4 DEF Packets

LEMMA InitIInv == ComServerAssumption /\ Init => IInv
<1> SUFFICES ASSUME ComServerAssumption, Init PROVE IInv
  OBVIOUS
<1>1. /\ queue = <<>> /\ queue \in Seq(Request) /\ Len(queue) = 0
      /\ \A S : <<>> \in Seq(S) /\ Len(<<>>) = 0
  BY EmptySeq DEF Init
<1>2. usable \subseteq Conn /\ lent = [w \in Worker |-> None]
  BY DEF Init, Pool!Init
<1>3. Sent = {}
  BY <1>1 DEF Init, Sent
<1>4. TypeOK
  BY <1>1, <1>2 DEF Init, TypeOK, Result, Fail
<1>5. \A r \in Request : table[Row(r)] = <<>>
  BY DEF Init, Rows
<1>. QED
  BY <1>1, <1>3, <1>4, <1>5
  DEF Init, IInv, Busy, TasksApart, Answered, OneReply, RowsFit, AckedBound,
      ResultsRight

(* Steps that store, send and acknowledge nothing.  A worker that has a     *)
(* result keeps it, with its task, until it is through.                     *)
LEMMA NothingSent ==
  ASSUME IInv, TypeOK', Busy', TasksApart',
         UNCHANGED <<table, replies, acked>>,
         done \subseteq done',
         \A w \in Worker : step'[w] \in {"queried", "replied"} =>
           step'[w] = step[w] /\ current'[w] = current[w] /\ res'[w] = res[w],
         \A w \in Worker : step[w] = "replied" =>
           \/ step'[w] = "replied" /\ current'[w] = current[w]
           \/ current[w] \in done'
  PROVE  IInv'
<1>1. Sent' = Sent
  BY DEF Sent
<1>2. Answered'
  BY <1>1 DEF IInv, Answered
<1>3. OneReply' /\ RowsFit' /\ AckedBound'
  BY DEF IInv, OneReply, RowsFit, AckedBound
<1>4. ResultsRight'
  BY <1>1 DEF IInv, ResultsRight
<1>. QED
  BY <1>2, <1>3, <1>4 DEF IInv

(* onConnection, and the steps of dealMessage that only change its place or *)
(* what the pool has lent.                                                  *)
LEMMA QuietIInv ==
  ASSUME IInv, UNCHANGED <<queue, current, done, res, table, replies, acked>>,
         TypeOK', Busy',
         \A w \in Worker : step'[w] = step[w] \/
           /\ step[w] \in {"begin", "asking"}
           /\ step'[w] \notin {"queried", "replied"}
  PROVE  IInv'
<1>1. TasksApart'
  BY DEF IInv, TasksApart
<1>. QED
  BY <1>1, NothingSent DEF IInv

LEMMA ConnectionIInv ==
  ASSUME IInv, NEW p \in Peer, Up(p) \/ Down(p)
  PROVE  IInv'
<1>1. TypeOK' /\ Busy'
  BY DEF IInv, TypeOK, Busy, Up, Down
<1>. QED
  BY <1>1, QuietIInv DEF Up, Down

LEMMA AskIInv ==
  ASSUME IInv, NEW w \in Worker, Ask(w)
  PROVE  IInv'
<1>1. TypeOK' /\ Busy'
  BY DEF IInv, TypeOK, Busy, Ask
<1>. QED
  BY <1>1, QuietIInv DEF Ask, IInv, TypeOK

LEMMA ConnectIInv ==
  ASSUME IInv, NEW w \in Worker, Connect(w)
  PROVE  IInv'
<1>1. PICK c \in usable : lent' = [lent EXCEPT ![w] = c] /\ usable' = usable
  BY DEF Connect, Pool!Lend
<1>2. TypeOK'
  BY <1>1 DEF IInv, TypeOK, Connect
<1>3. Busy'
  BY DEF IInv, TypeOK, Busy, Connect
<1>. QED
  BY <1>2, <1>3, QuietIInv DEF Connect, IInv, TypeOK

LEMMA SessionsIInv ==
  ASSUME IInv, Sessions
  PROVE  IInv'
<1>1. usable' \subseteq Conn /\ lent' = lent
  BY DEF Sessions, Pool!Sessions
<1>2. TypeOK' /\ Busy'
  BY <1>1 DEF IInv, TypeOK, Busy, Sessions
<1>. QED
  BY <1>2, QuietIInv DEF Sessions

LEMMA BeginIInv ==
  ASSUME IInv, ComServerAssumption, NEW w \in Worker, Begin(w)
  PROVE  IInv'
<1>1. /\ queue' \in Seq(Request) /\ Head(queue) \in Request
      /\ current[w] = None
      /\ current' = [current EXCEPT ![w] = Head(queue)]
      /\ done' = done
      /\ TasksApart'
  BY BeginTasks DEF Begin, IInv
<1>2. UNCHANGED <<lent, usable, step, res, table, link, connections, arrived,
                  replies, acked, fault>>
  BY DEF Begin
<1>3. step[w] = "begin"
  BY <1>1 DEF IInv, Busy, TypeOK
<1>4. TypeOK'
  BY <1>1, <1>2 DEF IInv, TypeOK
<1>5. Busy'
  BY <1>1, <1>2, <1>3 DEF IInv, TypeOK, Busy
<1>. QED
  BY <1>1, <1>2, <1>3, <1>4, <1>5, NothingSent DEF IInv, TypeOK

(* The ways in which dealMessage returns.                                   *)
LEMMA EndIInv ==
  ASSUME IInv, ComServerAssumption, NEW w \in Worker, Exec!End(w),
         step' = [step EXCEPT ![w] = "begin"],
         \A v \in Worker : v # w => res'[v] = res[v],
         UNCHANGED <<table, replies, acked>>,
         TypeOK'
  PROVE  IInv'
<1>1. /\ current[w] # None /\ current[w] \in done'
      /\ current' = [current EXCEPT ![w] = None]
      /\ done' = done \cup {current[w]} /\ done' \subseteq Request
      /\ queue' = queue
      /\ TasksApart'
  BY EndTasks DEF IInv
<1>2. Busy'
  BY <1>1 DEF IInv, TypeOK, Busy
<1>. QED
  BY <1>1, <1>2, NothingSent DEF IInv, TypeOK

(* The types after a task has returned.                                     *)
LEMMA EndTypes ==
  ASSUME IInv, ComServerAssumption, NEW w \in Worker, Exec!End(w)
  PROVE  /\ queue' \in Seq(Request)
         /\ current' \in [Worker -> Request \cup {None}]
         /\ done' \subseteq Request
BY EndTasks DEF IInv, TypeOK

LEMMA DismissIInv ==
  ASSUME IInv, ComServerAssumption, NEW w \in Worker, Dismiss(w)
  PROVE  IInv'
<1>1. /\ step[w] = "begin" /\ Exec!End(w)
      /\ UNCHANGED <<lent, usable, step, res, table, arrived, replies, acked, fault>>
  BY DEF Dismiss
<1>2. step' = [step EXCEPT ![w] = "begin"]
  BY <1>1 DEF IInv, TypeOK
<1>3. connections' \subseteq Peer /\ link' \in [Peer -> {"new", "up", "closing", "down"}]
  BY DEF Dismiss, Kicked, IInv, TypeOK
<1>4. TypeOK'
  BY <1>1, <1>3, EndTypes DEF IInv, TypeOK
<1>. QED
  BY <1>1, <1>2, <1>4, EndIInv

LEMMA RefuseIInv ==
  ASSUME IInv, ComServerAssumption, NEW w \in Worker, Refuse(w)
  PROVE  IInv'
<1>1. UNCHANGED <<lent, usable, res, table, link, connections, arrived, replies, acked>>
  BY DEF Refuse, Pool!Refuse, Pool!lenderVars
<1>2. CASE /\ step' = [step EXCEPT ![w] = "begin"]
           /\ Exec!End(w)
           /\ fault' = fault
  <2>1. TypeOK'
    BY <1>1, <1>2, EndTypes DEF IInv, TypeOK
  <2>. QED
    BY <1>1, <1>2, <2>1, EndIInv
<1>3. CASE fault' = "null pointer" /\ UNCHANGED <<queue, current, done, step>>
  <2>1. TypeOK' /\ Busy'
    BY <1>1, <1>3 DEF IInv, TypeOK, Busy
  <2>. QED
    BY <1>1, <1>3, <2>1, QuietIInv
<1>. QED
  BY <1>2, <1>3 DEF Refuse

LEMMA ReleaseIInv ==
  ASSUME IInv, ComServerAssumption, NEW w \in Worker, Release(w)
  PROVE  IInv'
<1>1. /\ Exec!End(w)
      /\ step' = [step EXCEPT ![w] = "begin"]
      /\ res' = [res EXCEPT ![w] = Fail]
      /\ UNCHANGED <<table, link, connections, arrived, replies, acked, fault>>
  BY DEF Release
<1>2. lent' = [lent EXCEPT ![w] = None] /\ usable' = usable
  BY DEF Release, Pool!Return
<1>3. Fail \in Result
  BY DEF Fail, Result
<1>4. TypeOK'
  BY <1>1, <1>2, <1>3, EndTypes DEF IInv, TypeOK
<1>5. \A v \in Worker : v # w => res'[v] = res[v]
  BY <1>1 DEF IInv, TypeOK
<1>. QED
  BY <1>1, <1>4, <1>5, EndIInv

(* A request that arrives has not been answered, so what it is held to does *)
(* not change what any answered request is.                                 *)
LEMMA ArriveIInv ==
  ASSUME IInv, NEW r \in Request, OnStringMessage(r)
  PROVE  IInv'
<1>1. /\ queue' \in Seq(Request) /\ done' \subseteq Request
      /\ done \subseteq done' /\ current' = current
      /\ r \notin done /\ \A w \in Worker : current[w] # r
      /\ TasksApart'
  BY SubmitTasks DEF OnStringMessage, IInv
<1>2. /\ arrived' = arrived \cup {r}
      /\ acked' = [acked EXCEPT ![r] = AckedVersions(r)]
      /\ UNCHANGED <<lent, usable, step, res, table, link, connections, replies, fault>>
  BY DEF OnStringMessage
<1>3. AckedVersions(r) \in 0..Len(table[Row(r)]) /\ AckedVersions(r) \in Nat
  <2>1. AckedVersions(r) \in 0..Len(table[Row(r)])
    BY AckedVersionsBound DEF IInv
  <2>2. Len(table[Row(r)]) \in Nat
    BY RowTyped DEF IInv
  <2>. QED
    BY <2>1, <2>2
<1>4. TypeOK'
  BY <1>1, <1>2, <1>3 DEF IInv, TypeOK
<1>5. \A q \in Request : acked'[q] = IF q = r THEN AckedVersions(r) ELSE acked[q]
  BY <1>2 DEF IInv, TypeOK
<1>6. Busy' /\ OneReply' /\ RowsFit'
  BY <1>1, <1>2 DEF IInv, Busy, OneReply, RowsFit
<1>7. Sent' = Sent
  BY <1>2 DEF Sent
<1>8. Answered'
  BY <1>1, <1>2, <1>7 DEF IInv, Answered
<1>9. AckedBound'
  <2> SUFFICES ASSUME NEW q \in Request
               PROVE  acked'[q] <= Len(table[Row(q)])
    BY <1>2 DEF AckedBound
  <2>. QED
    BY <1>3, <1>5 DEF IInv, AckedBound
<1>10. \A w \in Worker : step[w] # "begin" =>
         current[w] \in Request /\ acked'[current[w]] = acked[current[w]]
  BY <1>1, <1>5 DEF IInv, Busy, TypeOK
<1>11. \A s \in Sent : s.to \in Request /\ acked'[s.to] = acked[s.to]
  <2> SUFFICES ASSUME NEW s \in Sent PROVE s.to \in Request /\ s.to # r
    BY <1>5
  <2>1. s.to \in Request
    BY SentTyped DEF IInv
  <2>. QED
    BY <1>1, <2>1 DEF IInv, Answered
<1>12. ResultsRight'
  BY <1>1, <1>2, <1>7, <1>10, <1>11 DEF IInv, ResultsRight
<1>. QED
  BY <1>1, <1>4, <1>6, <1>8, <1>9, <1>12 DEF IInv

-----------------------------------------------------------------------------
(* Appending the text of r to its row keeps every version where it was.     *)
LEMMA StoredProperties ==
  ASSUME TypeOK, NEW r \in Request
  PROVE  /\ Stored(r) \in [Rows -> Seq(Request)]
         /\ \A q \in Request :
              /\ Len(table[Row(q)]) \in Nat
              /\ Len(Stored(r)[Row(q)]) >= Len(table[Row(q)])
              /\ \A i \in 1..Len(table[Row(q)]) :
                   /\ i \in 1..Len(Stored(r)[Row(q)])
                   /\ Stored(r)[Row(q)][i] = table[Row(q)][i]
              /\ \A i \in 1..Len(Stored(r)[Row(q)]) :
                   \/ i \in 1..Len(table[Row(q)])
                   \/ Row(q) = Row(r) /\ Stored(r)[Row(q)][i] = r
<1>1. /\ table \in [Rows -> Seq(Request)] /\ \A q \in Request : Row(q) \in Rows
      /\ \A q \in Request : table[Row(q)] \in Seq(Request)
  BY DEF TypeOK, Rows
<1>2. \A q \in Request :
        Stored(r)[Row(q)] = IF Row(q) = Row(r) THEN Append(table[Row(q)], r)
                            ELSE table[Row(q)]
  BY <1>1 DEF Stored
<1>3. \A q \in Request :
        LET old == table[Row(q)]
            new == Append(old, r)
        IN /\ Len(old) \in Nat /\ new \in Seq(Request)
           /\ Len(new) = Len(old) + 1
           /\ \A i \in 1..Len(old) : new[i] = old[i]
           /\ new[Len(old) + 1] = r
  BY <1>1, AppendProperties, LenProperties
<1>4. Stored(r) \in [Rows -> Seq(Request)]
  BY <1>1, <1>3 DEF Stored
<1>5. ASSUME NEW q \in Request
      PROVE  /\ Len(table[Row(q)]) \in Nat
             /\ Len(Stored(r)[Row(q)]) >= Len(table[Row(q)])
             /\ \A i \in 1..Len(table[Row(q)]) :
                  /\ i \in 1..Len(Stored(r)[Row(q)])
                  /\ Stored(r)[Row(q)][i] = table[Row(q)][i]
             /\ \A i \in 1..Len(Stored(r)[Row(q)]) :
                  \/ i \in 1..Len(table[Row(q)])
                  \/ Row(q) = Row(r) /\ Stored(r)[Row(q)][i] = r
  <2> DEFINE old == table[Row(q)]
             new == Append(old, r)
             now == Stored(r)[Row(q)]
  <2>1. /\ Len(old) \in Nat
        /\ Len(new) = Len(old) + 1
        /\ \A i \in 1..Len(old) : new[i] = old[i]
        /\ new[Len(old) + 1] = r
    BY <1>3
  <2>2. now = IF Row(q) = Row(r) THEN new ELSE old
    BY <1>2
  <2> HIDE DEF old, new, now
  <2>3. /\ Len(now) >= Len(old)
        /\ \A i \in 1..Len(old) : i \in 1..Len(now) /\ now[i] = old[i]
        /\ \A i \in 1..Len(now) :
             i \in 1..Len(old) \/ (Row(q) = Row(r) /\ now[i] = r)
    BY <2>1, <2>2
  <2>. QED
    BY <2>1, <2>3 DEF old, now
<1>. QED
  BY <1>4, <1>5

(* What becomes of the rows when a put is executed, or is not.              *)
LEMMA RowsGrow ==
  ASSUME TypeOK, NEW r \in Request, NEW q \in Request,
         table' = table \/ (table' = Stored(r) /\ Msg[r].kind = "RQUPJ")
  PROVE  LET old == table[Row(q)]
             now == table'[Row(q)]
         IN /\ now \in Seq(Request)
            /\ Len(old) \in Nat /\ Len(now) \in Nat /\ Len(now) >= Len(old)
            /\ \A i \in 1..Len(old) : i \in 1..Len(now) /\ now[i] = old[i]
            /\ \A i \in 1..Len(now) :
                 \/ i \in 1..Len(old)
                 \/ Row(q) = Row(r) /\ now[i] = r /\ Msg[r].kind = "RQUPJ"
<1>1. table[Row(q)] \in Seq(Request) /\ Len(table[Row(q)]) \in Nat
  BY LenProperties DEF TypeOK, Rows
<1>2. CASE table' = table
  BY <1>1, <1>2
<1>3. CASE table' = Stored(r) /\ Msg[r].kind = "RQUPJ"
  <2>1. Stored(r)[Row(q)] \in Seq(Request) /\ Len(Stored(r)[Row(q)]) \in Nat
    <3>1. Stored(r) \in [Rows -> Seq(Request)] /\ Row(q) \in Rows
      BY StoredProperties DEF Rows
    <3>. QED
      BY <3>1, LenProperties
  <2>2. /\ Len(Stored(r)[Row(q)]) >= Len(table[Row(q)])
        /\ \A i \in 1..Len(table[Row(q)]) :
             /\ i \in 1..Len(Stored(r)[Row(q)])
             /\ Stored(r)[Row(q)][i] = table[Row(q)][i]
        /\ \A i \in 1..Len(Stored(r)[Row(q)]) :
             \/ i \in 1..Len(table[Row(q)])
             \/ Row(q) = Row(r) /\ Stored(r)[Row(q)][i] = r
    BY StoredProperties, Zenon
  <2>. QED
    BY <1>1, <1>3, <2>1, <2>2
<1>. QED
  BY <1>2, <1>3

(* A worker's result changes and its row may grow; nothing is sent.         *)
LEMMA ResultIInv ==
  ASSUME IInv, NEW w \in Worker, NEW x \in Result,
         step[w] = "lent", step' = [step EXCEPT ![w] = "queried"],
         res' = [res EXCEPT ![w] = x],
         \/ table' = table
         \/ table' = Stored(current[w]) /\ Msg[current[w]].kind = "RQUPJ",
         table' \in [Rows -> Seq(Request)],
         Right(table'[Row(current[w])], acked[current[w]], current[w], x),
         UNCHANGED <<queue, current, done, lent, usable, link, connections,
                     arrived, replies, acked, fault>>
  PROVE  IInv'
<1> DEFINE r == current[w]
<1>1. r \in Request
  BY DEF IInv, Busy, TypeOK
<1>2. TypeOK' /\ Busy'
  BY DEF IInv, TypeOK, Busy
<1>3. TasksApart' /\ OneReply'
  BY DEF IInv, TasksApart, OneReply
<1>4. Sent' = Sent
  BY DEF Sent
<1>5. Answered'
  BY <1>4 DEF IInv, Answered, TypeOK
<1> HIDE DEF r
<1>6. table' = table \/ (table' = Stored(r) /\ Msg[r].kind = "RQUPJ")
  BY DEF r
<1>7. RowsFit'
  <2> SUFFICES ASSUME NEW q \in Request, NEW i \in 1..Len(table'[Row(q)])
               PROVE  /\ Msg[table'[Row(q)][i]].kind = "RQUPJ"
                      /\ Row(table'[Row(q)][i]) = Row(q)
    BY DEF RowsFit
  <2>1. \/ i \in 1..Len(table[Row(q)]) /\ table'[Row(q)][i] = table[Row(q)][i]
        \/ Row(q) = Row(r) /\ table'[Row(q)][i] = r /\ Msg[r].kind = "RQUPJ"
    BY <1>1, <1>6, RowsGrow DEF IInv
  <2>. QED
    BY <2>1 DEF IInv, RowsFit
<1>8. AckedBound'
  <2> SUFFICES ASSUME NEW q \in Request PROVE acked[q] <= Len(table'[Row(q)])
    BY DEF AckedBound
  <2>1. acked[q] \in Nat /\ acked[q] <= Len(table[Row(q)])
    BY DEF IInv, TypeOK, AckedBound
  <2>2. /\ Len(table[Row(q)]) \in Nat /\ Len(table'[Row(q)]) \in Nat
        /\ Len(table'[Row(q)]) >= Len(table[Row(q)])
    BY <1>1, <1>6, RowsGrow DEF IInv
  <2>. QED
    BY <2>1, <2>2
<1>9. ASSUME NEW q \in Request, NEW y, Right(table[Row(q)], acked[q], q, y)
      PROVE  Right(table'[Row(q)], acked[q], q, y)
  <2>1. \A i \in 1..Len(table[Row(q)]) :
          i \in 1..Len(table'[Row(q)]) /\ table'[Row(q)][i] = table[Row(q)][i]
    BY <1>1, <1>6, RowsGrow DEF IInv
  <2>. QED
    BY <1>9, <2>1 DEF Right
<1>10. ResultsRight'
  <2>1. ASSUME NEW v \in Worker, step'[v] \in {"queried", "replied"}
        PROVE  Right(table'[Row(current[v])], acked[current[v]], current[v], res'[v])
    <3>1. CASE v = w
      BY <3>1 DEF IInv, TypeOK
    <3>2. CASE v # w
      <4>1. /\ step[v] \in {"queried", "replied"} /\ res'[v] = res[v]
            /\ current[v] \in Request
        BY <2>1, <3>2 DEF IInv, TypeOK, Busy
      <4>. QED
        BY <1>9, <4>1 DEF IInv, ResultsRight
    <3>. QED
      BY <3>1, <3>2
  <2>2. ASSUME NEW s \in Sent
        PROVE  Right(table'[Row(s.to)], acked[s.to], s.to, s.res)
    <3>1. s.to \in Request
      BY SentTyped DEF IInv
    <3>. QED
      BY <1>9, <3>1 DEF IInv, ResultsRight
  <2>. QED
    BY <1>4, <2>1, <2>2 DEF ResultsRight
<1>. QED
  BY <1>2, <1>3, <1>5, <1>7, <1>8, <1>10 DEF IInv

LEMMA InsertIInv ==
  ASSUME IInv, NEW w \in Worker, Insert(w)
  PROVE  IInv'
<1> DEFINE r == current[w]
<1>1. PICK x \in {Success, Fail} :
        /\ res' = [res EXCEPT ![w] = x]
        /\ table' = table \/ table' = Stored(r)
  BY DEF Insert
<1>2. /\ step[w] = "lent" /\ Msg[r].kind = "RQUPJ"
      /\ step' = [step EXCEPT ![w] = "queried"]
      /\ UNCHANGED <<queue, current, done, lent, usable, link, connections,
                     arrived, replies, acked, fault>>
  BY DEF Insert
<1>3. x \in Result
  <2>1. Success \in Result /\ Fail \in Result
    BY DEF Success, Fail, Result
  <2>. QED
    BY <2>1
<1>4. r \in Request
  BY <1>2 DEF IInv, Busy, TypeOK
<1>5. table' \in [Rows -> Seq(Request)]
  <2>1. Stored(r) \in [Rows -> Seq(Request)] /\ table \in [Rows -> Seq(Request)]
    BY <1>4, StoredProperties DEF IInv, TypeOK
  <2>. QED
    BY <1>1, <2>1
<1>6. Right(table'[Row(r)], acked[r], r, x)
  BY <1>2 DEF Right, Success, Fail
<1>. QED
  BY <1>1, <1>2, <1>3, <1>5, <1>6, ResultIInv

(* A SELECT sees the last version, and the acknowledged ones are before it. *)
LEMMA QueryIInv ==
  ASSUME IInv, NEW w \in Worker, Query(w)
  PROVE  IInv'
<1> DEFINE r == current[w]
           v == table[Row(r)]
<1>1. PICK x \in {Fail, Content(Row(r))} :
        /\ res' = [res EXCEPT ![w] = x]
        /\ x = Fail \/ v # <<>>
  BY DEF Query
<1>2. /\ step[w] = "lent" /\ Msg[r].kind = "RQDPJ"
      /\ step' = [step EXCEPT ![w] = "queried"]
      /\ UNCHANGED <<queue, current, done, lent, usable, table, link,
                     connections, arrived, replies, acked, fault>>
  BY DEF Query
<1>3. r \in Request /\ v \in Seq(Request) /\ table \in [Rows -> Seq(Request)]
  BY <1>2 DEF IInv, Busy, TypeOK, Rows
<1>4. CASE x = Fail
  <2>1. x \in Result /\ Right(v, acked[r], r, x)
    BY <1>4 DEF Fail, Result, Right
  <2>. QED
    BY <1>1, <1>2, <1>3, <2>1, ResultIInv
<1>5. CASE v # <<>> /\ x = Content(Row(r))
  <2>1. Len(v) \in 1..Len(v) /\ v[Len(v)] \in Request
    <3>1. Len(v) \in Nat /\ Len(v) # 0
      BY <1>3, <1>5, EmptySeq, LenProperties
    <3>2. Len(v) \in 1..Len(v)
      BY <3>1
    <3> HIDE DEF v
    <3>. QED
      BY <1>3, <3>2, ElementOfSeq
  <2>2. x = [ok |-> TRUE, text |-> v[Len(v)]]
    BY <1>5 DEF Content
  <2>3. acked[r] <= Len(v)
    BY <1>3 DEF IInv, AckedBound
  <2>4. x \in Result
    BY <2>1, <2>2 DEF Result
  <2>5. Len(v) >= acked[r]
    BY <1>3, <2>1, <2>3 DEF IInv, TypeOK
  <2>6. Right(v, acked[r], r, x)
    BY <1>2, <2>1, <2>2, <2>5 DEF Right
  <2>. QED
    BY <1>1, <1>2, <1>3, <2>4, <2>6, ResultIInv
<1>. QED
  BY <1>1, <1>4, <1>5

LEMMA QueryDiesIInv ==
  ASSUME IInv, NEW w \in Worker, QueryDies(w)
  PROVE  IInv'
<1>1. TypeOK' /\ Busy'
  BY DEF IInv, TypeOK, Busy, QueryDies
<1>. QED
  BY <1>1, QuietIInv DEF QueryDies

(* The reply: the request has not been answered before, since it is not     *)
(* done and no other worker has it.                                         *)
LEMMA ReplyIInv ==
  ASSUME IInv, ComServerAssumption, NEW w \in Worker, Reply(w)
  PROVE  IInv'
<1> DEFINE r == current[w]
           p == Msg[r].peer
           s == [to |-> r, res |-> res[w]]
<1>1. /\ step[w] = "queried"
      /\ step' = [step EXCEPT ![w] = "replied"]
      /\ UNCHANGED <<queue, current, done, lent, usable, res, table, link,
                     connections, arrived, acked, fault>>
      /\ \/ replies' = replies
         \/ replies' = [replies EXCEPT ![p] = Append(@, s)]
  <2>1. replies' = [replies EXCEPT ![p] =
          IF NothingToSend(w) \/ link[p] # "up" THEN @ ELSE @ \o Packet(r, res[w])]
    BY DEF Reply
  <2>2. r \in Request /\ res[w] \in Result
    BY DEF Reply, IInv, Busy, TypeOK
  <2>3. p \in Peer /\ replies[p] \in Seq([to : Request, res : Result])
    BY <2>2 DEF IInv, TypeOK, ComServerAssumption
  <2>4. s \in [to : Request, res : Result]
    BY <2>2
  <2>5. replies[p] \o Packet(r, res[w]) = Append(replies[p], s)
    <3> DEFINE Packets == [to : Request, res : Result]
    <3>1. Packet(r, res[w]) = <<s>>
      BY DEF Packet
    <3> HIDE DEF s, Packets
    <3>2. replies[p] \in Seq(Packets) /\ s \in Packets
      BY <2>3, <2>4 DEF Packets
    <3>. QED
      BY <3>1, <3>2, AppendIsConcat
  <2>6. CASE NothingToSend(w) \/ link[p] # "up"
    <3>1. replies' = [replies EXCEPT ![p] = @]
      BY <2>1, <2>6
    <3>2. replies' = replies
      BY <3>1 DEF IInv, TypeOK
    <3>. QED
      BY <3>2 DEF Reply
  <2>7. CASE ~(NothingToSend(w) \/ link[p] # "up")
    <3>1. replies' = [replies EXCEPT ![p] = Append(@, s)]
      BY <2>1, <2>5, <2>7
    <3>. QED
      BY <3>1 DEF Reply
  <2>. QED
    BY <2>6, <2>7
<1>2. /\ r \in Request /\ r # None /\ p \in Peer /\ s \in [to : Request, res : Result]
      /\ Right(table[Row(r)], acked[r], r, res[w])
  BY <1>1 DEF IInv, Busy, TypeOK, ResultsRight, ComServerAssumption
<1>3. \A v \in Worker : v # w => step'[v] = step[v]
  BY <1>1 DEF IInv, TypeOK
<1>4. step'[w] = "replied"
  BY <1>1 DEF IInv, TypeOK
<1>5. Busy' /\ TasksApart' /\ RowsFit' /\ AckedBound'
  BY <1>1, <1>3, <1>4 DEF IInv, Busy, TasksApart, RowsFit, AckedBound
<1>6. /\ \A v \in Worker : step'[v] \in {"queried", "replied"} =>
           Right(table[Row(current[v])], acked[current[v]], current[v], res[v])
      /\ \A x \in Sent : Right(table[Row(x.to)], acked[x.to], x.to, x.res)
  BY <1>1, <1>3, <1>4 DEF IInv, ResultsRight
<1>7. \A x \in Sent : \/ x.to \in done
                      \/ \E v \in Worker : step'[v] = "replied" /\ current[v] = x.to
  BY <1>3, <1>4 DEF IInv, Answered
<1>8. CASE replies' = replies
  <2>1. Sent' = Sent
    BY <1>8 DEF Sent
  <2>2. TypeOK' /\ OneReply'
    BY <1>1, <1>8 DEF IInv, TypeOK, OneReply
  <2>3. Answered' /\ ResultsRight'
    BY <1>1, <1>6, <1>7, <2>1 DEF Answered, ResultsRight
  <2>. QED
    BY <1>5, <2>2, <2>3 DEF IInv
<1>9. CASE replies' = [replies EXCEPT ![p] = Append(@, s)]
  <2> DEFINE Packets == [to : Request, res : Result]
             old == replies[p]
             new == Append(old, s)
  <2>1. /\ replies \in [Peer -> Seq(Packets)]
        /\ old \in Seq(Packets) /\ s \in Packets
    BY <1>2 DEF IInv, TypeOK
  <2>2. \A q \in Peer : replies'[q] = IF q = p THEN new ELSE replies[q]
    BY <1>9, <2>1
  <2> HIDE DEF Packets, p
  <2>3. /\ new \in Seq(Packets) /\ Len(old) \in Nat
        /\ Len(new) = Len(old) + 1
        /\ \A i \in 1..Len(old) : new[i] = old[i]
        /\ new[Len(old) + 1] = s
    <3> HIDE DEF s, old
    <3>. QED
      BY <2>1, AppendProperties, LenProperties
  <2>4. replies' \in [Peer -> Seq(Packets)]
    <3> HIDE DEF new
    <3>. QED
      BY <1>9, <2>1, <2>3 DEF new
  <2>5. TypeOK'
    BY <1>1, <2>4 DEF IInv, TypeOK, Packets
  <2>6. \A k \in 1..Len(new) : k \in 1..Len(old) \/ (k = Len(old) + 1 /\ new[k] = s)
    BY <2>3
  <2>7. \A x \in Sent' : x \in Sent \/ x = s
    <3> SUFFICES ASSUME NEW q \in Peer, NEW k \in 1..Len(replies'[q])
                 PROVE  replies'[q][k] \in Sent \/ replies'[q][k] = s
      BY DEF Sent
    <3>1. CASE q = p
      BY <1>2, <2>2, <2>3, <2>6, <3>1, SentMember
    <3>2. CASE q # p
      BY <2>2, <3>2, SentMember
    <3>. QED
      BY <3>1, <3>2
  <2>8. s.to = r /\ s.res = res[w]
    OBVIOUS
  <2>9. Answered'
    BY <1>1, <1>4, <1>7, <2>7, <2>8 DEF Answered
  <2>10. ResultsRight'
    BY <1>1, <1>2, <1>6, <2>7, <2>8 DEF ResultsRight
  <2>11. \A x \in Sent : x.to # r
    <3> SUFFICES ASSUME NEW x \in Sent, x.to = r PROVE FALSE
      OBVIOUS
    <3>1. r \notin done
      BY DEF IInv, TasksApart
    <3>2. PICK v \in Worker : step[v] = "replied" /\ current[v] = r
      BY <3>1 DEF IInv, Answered
    <3>3. v = w
      BY <1>2, <3>2 DEF IInv, TasksApart
    <3>. QED
      BY <1>1, <3>2, <3>3
  <2>12. OneReply'
    <3> SUFFICES ASSUME NEW q \in Peer, NEW k \in 1..Len(replies'[q])
                 PROVE  /\ Msg[replies'[q][k].to].peer = q
                        /\ \A l \in 1..Len(replies'[q]) :
                             replies'[q][l].to = replies'[q][k].to => l = k
      BY DEF OneReply
    <3>1. CASE q # p
      BY <2>2, <3>1 DEF IInv, OneReply
    <3>2. CASE q = p
      <4>1. \A i \in 1..Len(old) : old[i].to # r
        BY <2>11, <3>2, SentMember
      <4>2. \A i \in 1..Len(old) : /\ Msg[old[i].to].peer = p
                                   /\ \A l \in 1..Len(old) :
                                        old[l].to = old[i].to => l = i
        BY <1>2 DEF IInv, OneReply
      <4>3. replies'[q] = new /\ Msg[r].peer = p
        BY <1>2, <2>2, <3>2 DEF p
      <4> HIDE DEF new, old, s
      <4>. QED
        BY <2>3, <2>6, <2>8, <3>2, <4>1, <4>2, <4>3
    <3>. QED
      BY <3>1, <3>2
  <2>. QED
    BY <1>5, <2>5, <2>9, <2>10, <2>12 DEF IInv
<1>. QED
  BY <1>1, <1>8, <1>9

-----------------------------------------------------------------------------
LEMMA NextIInv == ComServerAssumption /\ IInv /\ [Next]_vars => IInv'
<1> SUFFICES ASSUME ComServerAssumption, IInv, [Next]_vars PROVE IInv'
  OBVIOUS
<1>1. CASE UNCHANGED vars
  <2>1. TypeOK' /\ Busy'
    BY <1>1 DEF vars, IInv, TypeOK, Busy
  <2>. QED
    BY <1>1, <2>1, QuietIInv DEF vars
<1>2. CASE Next
  BY <1>2, ConnectionIInv, ArriveIInv, BeginIInv, DismissIInv, AskIInv,
     ConnectIInv, RefuseIInv, InsertIInv, QueryIInv, QueryDiesIInv, ReplyIInv,
     ReleaseIInv, SessionsIInv
  DEF Next, Step, Deal, Goes
<1>. QED
  BY <1>1, <1>2

(* The inductive invariant holds in every reachable state.                  *)
THEOREM InvariantHolds == Spec => []IInv
BY ComServerAssumption, InitIInv, NextIInv, PTL DEF Spec

(* The server's state is well typed.                                        *)
THEOREM TypeCorrect == Spec => []TypeOK
<1>1. IInv => TypeOK
  BY DEF IInv
<1>. QED
  BY InvariantHolds, <1>1, PTL

(* However many workers there are, no request is answered twice, and none   *)
(* on another connection than its own.                                      *)
THEOREM AnsweredOnce == Spec => []OneReply
<1>1. IInv => OneReply
  BY DEF IInv
<1>. QED
  BY InvariantHolds, <1>1, PTL

(* A get that arrives after a put of its row was acknowledged returns that  *)
(* text or a later one.                                                     *)
THEOREM ReadsAcknowledged == Spec => []AckedIsSeen
<1>1. IInv => AckedIsSeen
  <2> SUFFICES ASSUME IInv, NEW s \in Sent, Msg[s.to].kind = "RQDPJ", s.res.ok
               PROVE  \E i \in 1..Len(table[Row(s.to)]) :
                        i >= acked[s.to] /\ table[Row(s.to)][i] = s.res.text
    BY DEF AckedIsSeen
  <2>1. Right(table[Row(s.to)], acked[s.to], s.to, s.res)
    BY DEF IInv, ResultsRight
  <2>. QED
    BY <2>1 DEF Right
<1>. QED
  BY InvariantHolds, <1>1, PTL

-----------------------------------------------------------------------------
(* The two ways in which dealMessage cuts a header field.                   *)
LEMMA UserNameProperties ==
  ASSUME ComServerAssumption, NEW r \in Request
  PROVE  LET buf == Msg[r].user
             n == FirstBlank(buf)
         IN /\ n \in Nat
            /\ n > 0 => Len(UserName(r)) = n /\ UserName(r)[1] # Blank
            /\ n = 0 => Len(UserName(r)) = 0 \/ UserName(r)[1] = Blank
<1> DEFINE buf == Msg[r].user
           n == FirstBlank(buf)
<1>1. buf \in Seq(STRING)
  BY DEF ComServerAssumption
<1> HIDE DEF buf
<1>2. /\ Len(buf) \in Nat /\ n \in 0..Len(buf)
      /\ \A i \in 1..n : buf[i] # Blank
      /\ n < Len(buf) => buf[n + 1] = Blank
  BY <1>1, FirstBlankProperties, LenProperties
<1> HIDE DEF n
<1>3. UserName(r) = IF n > 0 THEN SubSeq(buf, 1, n) ELSE buf
  BY DEF UserName, n, buf
<1>4. CASE n > 0
  <2>1. 1 \in 1..(Len(buf) + 1) /\ n \in 0..Len(buf) /\ 1 \in 1..n
    BY <1>2, <1>4
  <2>2. Len(SubSeq(buf, 1, n)) = n /\ SubSeq(buf, 1, n)[1] = buf[1]
    BY <1>1, <1>2, <2>1, SubSeqProperties
  <2>. QED
    BY <1>2, <1>3, <1>4, <2>1, <2>2 DEF n, buf
<1>5. CASE n = 0
  <2>1. UserName(r) = buf
    BY <1>3, <1>5
  <2>. QED
    BY <1>2, <1>5, <2>1 DEF n, buf
<1>. QED
  BY <1>2, <1>4, <1>5

(* What is left of the key agrees with it as far as the user name is long.  *)
LEMMA KeyNameProperties ==
  ASSUME ComServerAssumption, NEW r \in Request,
         NEW i \in 1..Len(Msg[r].key), i <= FirstBlank(Msg[r].user)
  PROVE  KeyName(r)[i] = Msg[r].key[i]
<1> DEFINE buf == Msg[r].key
           n == FirstBlank(Msg[r].user)
           m == IF n < Len(buf) THEN n ELSE Len(buf)
<1>1. buf \in Seq(STRING) /\ Len(buf) \in Nat
  BY LenProperties DEF ComServerAssumption
<1>2. n \in Nat
  BY UserNameProperties
<1>3. KeyName(r) = IF FirstBlank(buf) = 0 THEN buf ELSE SubSeq(buf, 1, m)
  BY DEF KeyName
<1>4. i \in 1..m /\ m \in 0..Len(buf)
  BY <1>1, <1>2
<1> HIDE DEF buf, n, m
<1>5. \A j \in 1..m : buf[j] \in STRING
  BY <1>1, <1>4, ElementOfSeq
<1>6. SubSeq(buf, 1, m)[i] = buf[i]
  BY <1>1, <1>4, <1>5, SubSeqProperties
<1>. QED
  BY <1>3, <1>6 DEF buf

(* Requests for the same row agree on the user and the side, and on as much *)
(* of the key as the user name is long.                                     *)
LEMMA SameRow ==
  ASSUME ComServerAssumption, NEW r \in Request, NEW q \in Request,
         Row(r) = Row(q)
  PROVE  /\ UserName(r) = UserName(q)
         /\ Msg[r].side = Msg[q].side
         /\ \A i \in 1..Len(Msg[r].key) :
              i <= FirstBlank(Msg[r].user) => Msg[r].key[i] = Msg[q].key[i]
<1> DEFINE n(x) == FirstBlank(Msg[x].user)
<1>1. UserName(r) = UserName(q) /\ KeyName(r) = KeyName(q) /\ Msg[r].side = Msg[q].side
  BY DEF Row
<1>2. \A x \in {r, q} :
        /\ n(x) \in Nat
        /\ n(x) > 0 => Len(UserName(x)) = n(x) /\ UserName(x)[1] # Blank
        /\ n(x) = 0 => Len(UserName(x)) = 0 \/ UserName(x)[1] = Blank
  BY UserNameProperties
<1>3. n(r) = n(q)
  <2> DEFINE a == n(r)
             b == n(q)
             u == UserName(r)
  <2>1. /\ a \in Nat /\ b \in Nat
        /\ a > 0 => Len(u) = a /\ u[1] # Blank
        /\ b > 0 => Len(u) = b /\ u[1] # Blank
        /\ a = 0 => Len(u) = 0 \/ u[1] = Blank
        /\ b = 0 => Len(u) = 0 \/ u[1] = Blank
    BY <1>1, <1>2
  <2> HIDE DEF a, b, u
  <2>2. a = b
    BY <2>1
  <2>. QED
    BY <2>2 DEF a, b
<1>4. Len(Msg[r].key) = Len(Msg[q].key)
  BY DEF ComServerAssumption
<1>5. ASSUME NEW i \in 1..Len(Msg[r].key), i <= n(r)
      PROVE  Msg[r].key[i] = Msg[q].key[i]
  <2>1. KeyName(r)[i] = Msg[r].key[i]
    BY <1>5, KeyNameProperties
  <2>2. i \in 1..Len(Msg[q].key) /\ i <= n(q)
    BY <1>3, <1>4, <1>5
  <2>3. KeyName(q)[i] = Msg[q].key[i]
    BY <2>2, KeyNameProperties
  <2>. QED
    BY <1>1, <2>1, <2>3
<1>. QED
  BY <1>1, <1>5

(* A client gets a text that was put for the same user and side, under a    *)
(* key that agrees with the one it asked for as far as the user name is     *)
(* long.  It need not be the same key: OwnKey fails.                        *)
THEOREM GetsOwnText == Spec => []OwnText
<1>1. ComServerAssumption /\ IInv => OwnText
  <2> SUFFICES ASSUME ComServerAssumption, IInv, NEW s \in Sent,
                      s.res.ok, s.res.text # None
               PROVE  /\ Msg[s.res.text].kind = "RQUPJ"
                      /\ UserName(s.to) = UserName(s.res.text)
                      /\ Msg[s.to].side = Msg[s.res.text].side
                      /\ \A i \in 1..Len(Msg[s.to].key) :
                           i <= FirstBlank(Msg[s.to].user) =>
                             Msg[s.to].key[i] = Msg[s.res.text].key[i]
    BY DEF OwnText
  <2>1. s.to \in Request
    BY SentTyped DEF IInv
  <2>2. Right(table[Row(s.to)], acked[s.to], s.to, s.res)
    BY DEF IInv, ResultsRight
  <2>3. PICK i \in 1..Len(table[Row(s.to)]) : table[Row(s.to)][i] = s.res.text
    BY <2>2 DEF Right
  <2>4. Msg[s.res.text].kind = "RQUPJ" /\ Row(s.res.text) = Row(s.to)
    BY <2>1, <2>3 DEF IInv, RowsFit
  <2>5. s.res.text \in Request
    <3>1. table[Row(s.to)] \in Seq(Request)
      BY <2>1 DEF IInv, TypeOK, Rows
    <3>. QED
      BY <2>3, <3>1, ElementOfSeq
  <2>. QED
    BY <2>1, <2>4, <2>5, SameRow
<1>. QED
  BY ComServerAssumption, InvariantHolds, <1>1, PTL
=============================================================================
