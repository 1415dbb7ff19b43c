------------------------------ MODULE Executor ------------------------------
(***************************************************************************)
(* What the thread pool promises to the threads that call run, without     *)
(* lock, condition variable or sleeping workers: while it is open, tasks   *)
(* are begun in the order of submission and each one is executed once.     *)
(***************************************************************************)
EXTENDS Integers, Sequences

CONSTANTS
  Task,    \* the tasks, each submitted once
  Worker,  \* the threads of the pool
  None     \* no task

VARIABLES
  open,    \* the pool has been started and not stopped
  queue,   \* the tasks that have not been begun
  current, \* the task that each worker executes
  done,    \* the tasks that have been executed
  dropped  \* the tasks that were refused

executorVars == <<open, queue, current, done, dropped>>

Known ==
  done \cup dropped \cup {queue[i] : i \in 1..Len(queue)}
    \cup {current[w] : w \in Worker}

Init ==
  /\ open = FALSE
  /\ queue = <<>>
  /\ current = [w \in Worker |-> None]
  /\ done = {}
  /\ dropped = {}

(* start and stop                                                           *)
Switch ==
  /\ open' = ~open
  /\ UNCHANGED <<queue, current, done, dropped>>

(* run(t).  A pool that is not open, or has no worker, refuses the task or  *)
(* executes it in the caller.                                               *)
Submit(t) ==
  /\ t \notin Known
  /\ \/ /\ open
        /\ queue' = Append(queue, t)
        /\ dropped' = dropped /\ UNCHANGED done
     \/ /\ ~open \/ Worker = {}
        /\ \/ done' = done \cup {t} /\ dropped' = dropped
           \/ dropped' = dropped \cup {t} /\ UNCHANGED done
        /\ UNCHANGED queue
  /\ open' = open /\ UNCHANGED current

(* A worker gets the task at the front.                                     *)
Begin(w) ==
  /\ current[w] = None
  /\ queue # <<>>
  /\ current' = [current EXCEPT ![w] = Head(queue)]
  /\ queue' = Tail(queue)
  /\ open' = open /\ dropped' = dropped /\ UNCHANGED done

(* A task returns.                                                          *)
End(w) ==
  /\ current[w] # None
  /\ done' = done \cup {current[w]}
  /\ current' = [current EXCEPT ![w] = None]
  /\ open' = open /\ dropped' = dropped /\ UNCHANGED queue

Next ==
  \/ Switch
  \/ \E t \in Task : Submit(t)
  \/ \E w \in Worker : Begin(w) \/ End(w)

Spec == Init /\ [][Next]_executorVars

(* An open pool with a free worker begins the next task, and tasks return.  *)
FairSpec ==
  /\ Spec
  /\ WF_executorVars(open /\ \E w \in Worker : Begin(w))
  /\ \A w \in Worker : WF_executorVars(End(w))
=============================================================================
