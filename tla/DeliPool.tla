------------------------------ MODULE DeliPool ------------------------------
(***************************************************************************)
(* The first pool of the comServer (src/Deli_Pool_Server): no producer, no *)
(* scanner.  A worker that puts or gets takes a connection, or opens one   *)
(* in its own thread, sends its statements and pushes it back.             *)
(*                                                                         *)
(* A null handle is not tested for: mysql_ping and mysql_query of it read  *)
(* through the null pointer, and no step follows.                          *)
(***************************************************************************)
EXTENDS Integers, Sequences, FiniteSets

CONSTANTS
  Conn,       \* handles that the process may connect
  Worker,     \* the threads of the thread pool
  InitCount,  \* the connections of the constructor, 14 in server.cc
  MaxCount,   \* 50 in server.cc
  None        \* a null MYSQL*; no thread

(* What server.cc passes; the theorems assume it.                           *)
DeliAssumption ==
  InitCount \in Nat /\ MaxCount \in Nat /\ None \notin Conn /\ None \notin Worker

VARIABLES
  queue,         \* mysqlpool
  currentCount,  \* _currentCount
  link,          \* what each handle is worth
  poollock,      \* the worker in getOneConnect
  mysql,         \* the handle of each worker's doPut or doGet
  fault          \* has a null handle been used?

vars == <<queue, currentCount, link, poollock, mysql, fault>>

(* The connections there are: in the queue and in hand.                     *)
Pooled == {queue[i] : i \in 1..Len(queue)} \ {None}
Held == {mysql[w] : w \in Worker} \ {None}
Live == Pooled \cup Held

(* MysqlPool(): InitCount calls of createOneConnect, whose result is pushed *)
(* whatever it is.  A connection is counted there and here.                 *)
Counted(made) == Cardinality(made) + InitCount
Init ==
  /\ queue \in {q \in [1..InitCount -> Conn \cup {None}] :
                  \A i, j \in 1..InitCount : q[i] # None /\ q[i] = q[j] => i = j}
  /\ currentCount = Counted(Pooled)
  /\ link = [c \in Conn |-> IF c \in Pooled THEN "open" ELSE "none"]
  /\ poollock = None
  /\ mysql = [w \in Worker |-> None]
  /\ fault = FALSE

(* getOneConnect, up to its lock.                                           *)
getOneConnect(w) ==
  /\ poollock = None /\ mysql[w] = None
  /\ poollock' = w
  /\ UNCHANGED <<queue, currentCount, link, mysql, fault>>

(* Its loop: a connection that fails the ping is closed and forgotten, ...  *)
Drop ==
  /\ queue # <<>> /\ Head(queue) # None /\ link[Head(queue)] = "dead"
  /\ queue' = Tail(queue)
  /\ link' = [link EXCEPT ![Head(queue)] = "closed"]
  /\ currentCount' = currentCount - 1
  /\ UNCHANGED <<poollock, mysql, fault>>

(* ... the first that answers is taken.                                     *)
Take(w) ==
  /\ queue # <<>> /\ Head(queue) # None /\ link[Head(queue)] = "open"
  /\ mysql' = [mysql EXCEPT ![w] = Head(queue)]
  /\ queue' = Tail(queue)
  /\ poollock' = None
  /\ UNCHANGED <<currentCount, link, fault>>

(* If none is left, createOneConnect.                                       *)
Create(w) ==
  /\ queue = <<>>
  /\ currentCount < MaxCount
  /\ \E c \in Conn :
       /\ link[c] = "none"
       /\ link' = [link EXCEPT ![c] = "open"]
       /\ mysql' = [mysql EXCEPT ![w] = c]
  /\ currentCount' = currentCount + 1
  /\ poollock' = None
  /\ UNCHANGED <<queue, fault>>

(* It gives NULL, because there are too many or it cannot connect, and the  *)
(* statements of doPut and doGet use it; or the loop pings a NULL that the  *)
(* constructor has left.                                                    *)
UseNull ==
  /\ queue # <<>> => Head(queue) = None
  /\ fault' = TRUE
  /\ UNCHANGED <<queue, currentCount, link, poollock, mysql>>

(* close(mysql), after the statements.                                      *)
Close(w) ==
  /\ poollock = None /\ mysql[w] # None
  /\ queue' = Append(queue, mysql[w])
  /\ mysql' = [mysql EXCEPT ![w] = None]
  /\ UNCHANGED <<currentCount, link, poollock, fault>>

(* The MySQL server or the network ends a session.                          *)
Break(c) ==
  /\ link[c] = "open"
  /\ link' = [link EXCEPT ![c] = "dead"]
  /\ UNCHANGED <<queue, currentCount, poollock, mysql, fault>>

Next ==
  /\ ~fault
  /\ \/ \E w \in Worker :
          \/ getOneConnect(w) \/ Close(w)
          \/ poollock = w /\ (Drop \/ Take(w) \/ Create(w) \/ UseNull)
     \/ \E c \in Conn : Break(c)

Spec == Init /\ [][Next]_vars

-----------------------------------------------------------------------------
(* Every connection of the constructor is counted twice, for ever: the      *)
(* count is InitCount more than the connections there are.                  *)
CountsTwice == currentCount = InitCount + Cardinality(Live)

(* No handle is in two hands, or once in the queue and once in a hand.      *)
OneHand ==
  /\ \A i, j \in 1..Len(queue) : queue[i] # None /\ queue[i] = queue[j] => i = j
  /\ Pooled \cap Held = {}
  /\ \A v, w \in Worker : mysql[v] # None /\ mysql[v] = mysql[w] => v = w

(* So the pool is smaller than MaxCount by InitCount, or never grows.       *)
Limit == IF 2 * InitCount > MaxCount THEN InitCount ELSE MaxCount - InitCount
SmallerThanMax == Cardinality(Live) <= Limit

(* Nothing that is closed can be reached.                                   *)
NotClosed == \A c \in Live : link[c] \in {"open", "dead"}
=============================================================================
