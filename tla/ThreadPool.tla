---------------------------- MODULE ThreadPool ----------------------------
(***************************************************************************)
(* The thread pool that runs the servers' message handlers                 *)
(* (src/log_time_server/log_time_server/ThreadPool.cc, of which the other  *)
(* servers hold copies).                                                   *)
(*                                                                         *)
(* The queue and the condition variable notEmpty_ are used under mutex_,   *)
(* so the stretch of run, take and stop between lock and unlock or wait is *)
(* one action.  runInThread reads running_ without the lock, a step of its *)
(* own: the pool may be stopped between that read and take.                *)
(***************************************************************************)
EXTENDS Integers, Sequences, FiniteSets

CONSTANTS
  Task,    \* the calls of run, each with its task
  Worker,  \* the threads that start creates; none if numThreads is 0
  None     \* the empty Task that take returns when the pool stops

ASSUME ThreadPoolAssumption ==
  /\ IsFiniteSet(Worker)
  /\ None \notin Task

VARIABLES
  phase,     \* "new", "started", "stopping" (in stop), "stopped" (after it)
  running,   \* running_
  tasks,     \* queue_
  place,     \* where in runInThread each worker is
  current,   \* the task each worker has taken
  done,      \* the tasks that were executed
  dropped,   \* the tasks that run did not accept
  accepted,  \* history: the tasks in the order in which run queued them
  taken      \* history: the tasks in the order in which take removed them

vars ==
  <<phase, running, tasks, place, current, done, dropped, accepted, taken>>

(* threads_ is filled by start and never emptied.                           *)
Threads == IF phase = "new" THEN {} ELSE Worker

In(p) == {w \in Worker : place[w] = p}

Submitted == done \cup dropped \cup {accepted[i] : i \in 1..Len(accepted)}

TypeOK ==
  /\ phase \in {"new", "started", "stopping", "stopped"}
  /\ running \in BOOLEAN
  /\ tasks \in Seq(Task)
  /\ place \in [Worker -> {"loop", "take", "waiting", "woken", "execute", "exited"}]
  /\ current \in [Worker -> Task \cup {None}]
  /\ done \subseteq Task
  /\ dropped \subseteq Task
  /\ accepted \in Seq(Task)
  /\ taken \in Seq(Task)

Init ==
  /\ phase = "new"
  /\ running = FALSE
  /\ tasks = <<>>
  /\ place = [w \in Worker |-> "loop"]
  /\ current = [w \in Worker |-> None]
  /\ done = {}
  /\ dropped = {}
  /\ accepted = <<>>
  /\ taken = <<>>

-----------------------------------------------------------------------------
(* start(numThreads), from the thread that owns the pool.                   *)
Start ==
  /\ phase = "new"
  /\ phase' = "started"
  /\ running' = TRUE
  /\ UNCHANGED <<tasks, place, current, done, dropped, accepted, taken>>

(* notEmpty_.notify(): one of the waiting workers, if there is one.         *)
MutNotifyNobody == place' = place
MutNotifyIfFirst ==
  \/ /\ In("waiting") = {} \/ tasks # <<>>
     /\ place' = place
  \/ /\ tasks = <<>>
     /\ \E w \in In("waiting") : place' = [place EXCEPT ![w] = "woken"]
Notify ==
  \/ /\ In("waiting") = {}
     /\ place' = place
  \/ \E w \in In("waiting") : place' = [place EXCEPT ![w] = "woken"]

(* queue_.push_back(std::move(task))                                        *)
MutPushFront(t) == <<t>> \o tasks
Pushed(t) == Append(tasks, t)

(* run(t): executed by the caller if there are no threads, forgotten if the *)
(* pool is stopped, queued otherwise.                                       *)
MutRunWhenStopped(t) ==
  /\ t \notin Submitted
  /\ IF Threads = {} \/ ~running
     THEN /\ done' = done \cup {t}
          /\ UNCHANGED <<tasks, place, accepted, dropped>>
     ELSE /\ tasks' = Pushed(t)
          /\ accepted' = Append(accepted, t)
          /\ Notify
          /\ UNCHANGED <<done, dropped>>
  /\ UNCHANGED <<phase, running, current, taken>>
Run(t) ==
  /\ t \notin Submitted
  /\ \/ /\ Threads = {}
        /\ done' = done \cup {t}
        /\ UNCHANGED <<tasks, place, accepted, dropped>>
     \/ /\ Threads # {}
        /\ ~running
        /\ dropped' = dropped \cup {t}
        /\ UNCHANGED <<tasks, place, accepted, done>>
     \/ /\ Threads # {}
        /\ running
        /\ tasks' = Pushed(t)
        /\ accepted' = Append(accepted, t)
        /\ Notify
        /\ UNCHANGED <<done, dropped>>
  /\ UNCHANGED <<phase, running, current, taken>>

(* while (running_), read without the lock.                                 *)
TestRunning(w) ==
  /\ w \in Threads
  /\ place[w] = "loop"
  /\ place' = [place EXCEPT ![w] = IF running THEN "take" ELSE "exited"]
  /\ UNCHANGED <<phase, running, tasks, current, done, dropped, accepted, taken>>

(* while (queue_.empty() && running_) notEmpty_.wait()                      *)
MustWait == tasks = <<>> /\ running

(* take(), from entry or from the return of a wait: wait (again), return an *)
(* empty Task, or remove the front of the queue, also when the pool has     *)
(* been stopped.                                                            *)
MutTakeCopy(w) ==
  /\ place[w] \in {"take", "woken"}
  /\ \/ /\ MustWait
        /\ place' = [place EXCEPT ![w] = "waiting"]
        /\ UNCHANGED <<tasks, current, taken>>
     \/ /\ ~MustWait
        /\ tasks = <<>>
        /\ place' = [place EXCEPT ![w] = "loop"]
        /\ UNCHANGED <<tasks, current, taken>>
     \/ /\ tasks # <<>>
        /\ place' = [place EXCEPT ![w] = "execute"]
        /\ current' = [current EXCEPT ![w] = Head(tasks)]
        /\ taken' = taken
        /\ tasks' = tasks
  /\ UNCHANGED <<phase, running, done, dropped, accepted>>
Take(w) ==
  /\ place[w] \in {"take", "woken"}
  /\ \/ /\ MustWait
        /\ place' = [place EXCEPT ![w] = "waiting"]
        /\ UNCHANGED <<tasks, current, taken>>
     \/ /\ ~MustWait
        /\ tasks = <<>>
        /\ place' = [place EXCEPT ![w] = "loop"]
        /\ UNCHANGED <<tasks, current, taken>>
     \/ /\ tasks # <<>>
        /\ place' = [place EXCEPT ![w] = "execute"]
        /\ current' = [current EXCEPT ![w] = Head(tasks)]
        /\ taken' = Append(taken, Head(tasks))
        /\ tasks' = Tail(tasks)
  /\ UNCHANGED <<phase, running, done, dropped, accepted>>

(* task() returns; the loop starts over.                                    *)
Finish(w) ==
  /\ place[w] = "execute"
  /\ place' = [place EXCEPT ![w] = "loop"]
  /\ current' = [current EXCEPT ![w] = None]
  /\ done' = done \cup {current[w]}
  /\ UNCHANGED <<phase, running, tasks, dropped, accepted, taken>>

(* The locked part of stop().                                               *)
MutStopSilently ==
  /\ phase = "started"
  /\ phase' = "stopping"
  /\ running' = FALSE
  /\ UNCHANGED <<tasks, place, current, done, dropped, accepted, taken>>
Stop ==
  /\ phase = "started"
  /\ phase' = "stopping"
  /\ running' = FALSE
  /\ place' = [w \in Worker |->
                 IF place[w] = "waiting" THEN "woken" ELSE place[w]]
  /\ UNCHANGED <<tasks, current, done, dropped, accepted, taken>>

(* The rest of stop(): every worker is joined.                              *)
Join ==
  /\ phase = "stopping"
  /\ In("exited") = Worker
  /\ phase' = "stopped"
  /\ UNCHANGED <<running, tasks, place, current, done, dropped, accepted, taken>>

(* A wait on the condition variable may end without a notification.         *)
SpuriousWakeup(w) ==
  /\ place[w] = "waiting"
  /\ place' = [place EXCEPT ![w] = "woken"]
  /\ UNCHANGED <<phase, running, tasks, current, done, dropped, accepted, taken>>

WorkerStep(w) == TestRunning(w) \/ Take(w) \/ Finish(w)

Next ==
  \/ Start \/ Stop \/ Join
  \/ \E t \in Task : Run(t)
  \/ \E w \in Worker : WorkerStep(w) \/ SpuriousWakeup(w)

Spec == Init /\ [][Next]_vars

(* Workers are scheduled and tasks return; nobody has to call run, start or *)
(* stop, but a call of stop gets past its joins.                            *)
Fairness == WF_vars(Join) /\ \A w \in Worker : WF_vars(WorkerStep(w))

FairSpec == Spec /\ Fairness

-----------------------------------------------------------------------------
(* Tasks are taken in the order in which they were submitted, none is lost  *)
(* from the queue and none is taken twice.                                  *)
FirstInFirstOut ==
  /\ accepted = taken \o tasks
  /\ \A i, j \in 1..Len(accepted) : accepted[i] = accepted[j] => i = j

(* A task runs in one worker at a time and not again once it has run.       *)
RunOnce ==
  /\ \A v, w \in Worker :
       current[v] = current[w] /\ current[v] # None => v = w
  /\ \A w \in Worker : current[w] \notin done

(* notify() wakes one worker only, and the woken one may find its task      *)
(* taken by another; still, as long as a worker sleeps there is a woken one *)
(* for each queued task.                                                    *)
NoLostWakeup ==
  In("waiting") # {} => Len(tasks) <= Cardinality(In("woken"))

(* When stop has returned nothing is executed any more: not by a worker,    *)
(* and not by a late caller of run either.                                  *)
QuietAfterStop ==
  [][phase = "stopped" => UNCHANGED <<done, tasks>>]_vars

(* stop always returns, also with workers asleep, busy, or between their    *)
(* test of running_ and take.                                               *)
StopReturns == phase = "stopping" ~> phase = "stopped"

(* A task that run accepted is executed unless the pool is stopped.         *)
AcceptedRuns ==
  \A t \in Task :
    (\E i \in 1..Len(tasks) : tasks[i] = t) ~> (t \in done \/ phase # "started")

(* To its users the pool is an executor: see Executor.  In particular, a    *)
(* worker that may begin a task is not kept from it by a lost notification. *)
Abstract == INSTANCE Executor WITH open <- running, queue <- tasks
ActsAsExecutor == Abstract!FairSpec
=============================================================================
