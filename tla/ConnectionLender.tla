------------------------- MODULE ConnectionLender -------------------------
(***************************************************************************)
(* What the MySQL connection pool promises to the threads that borrow from *)
(* it, without queue, count, producer or scanner: a connection is lent to  *)
(* one thread at a time, its session works when it is lent, and only its   *)
(* server ends that session while it is lent.                              *)
(***************************************************************************)
EXTENDS Integers, FiniteSets

CONSTANTS
  Thread,  \* the borrowers
  Conn,    \* the connections
  Faulty,  \* those whose session may end by itself
  Limit,   \* how many connections the pool may have
  None     \* no connection

VARIABLES
  lent,    \* the connection that each thread has borrowed
  usable   \* the connections with a working session

lenderVars == <<lent, usable>>

Lent == {lent[t] : t \in Thread} \ {None}

Init ==
  /\ lent = [t \in Thread |-> None]
  /\ usable \in (SUBSET Conn) \ {{}}
  /\ Cardinality(usable) <= Limit

(* getOneConnect, when it returns a connection.                             *)
Lend(t) ==
  /\ lent[t] = None
  /\ \E c \in usable \ Lent : lent' = [lent EXCEPT ![t] = c]
  /\ UNCHANGED usable

(* getOneConnect, when it times out and returns nullptr: nothing changes,   *)
(* and every working connection is lent.                                    *)
Refuse(t) ==
  /\ lent[t] = None
  /\ usable \subseteq Lent
  /\ UNCHANGED lenderVars

(* The last shared_ptr to the connection is gone.                           *)
Return(t) ==
  /\ lent[t] # None
  /\ lent' = [lent EXCEPT ![t] = None]
  /\ UNCHANGED usable

(* Sessions are opened, closed, and lost.  If none can be lost, one is      *)
(* always kept.                                                             *)
Sessions ==
  /\ usable' \in SUBSET Conn
  /\ Faulty = {} => usable' # {}
  /\ Cardinality(usable' \cup Lent) <= Limit
  /\ (usable \cap Lent) \ Faulty \subseteq usable'
  /\ UNCHANGED lent

Next == Sessions \/ \E t \in Thread : Lend(t) \/ Refuse(t) \/ Return(t)

Spec == Init /\ [][Next]_lenderVars
=============================================================================
