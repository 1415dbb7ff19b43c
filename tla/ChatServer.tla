---------------------------- MODULE ChatServer ----------------------------
(***************************************************************************)
(* The multi-threaded chat server, src/Project2_chat/Project2_chat.  Each  *)
(* IO thread runs an event loop and owns the connections assigned to it.   *)
(* The thread that reads a message queues a functor in every loop, its own *)
(* included, and each loop then sends the message to its own connections.  *)
(* mutex_ is held while the functors are queued.                           *)
(*                                                                         *)
(* Of muduo's EventLoop only this is used: what a thread does for an event *)
(* is not interrupted by its other events, and functors run in the order   *)
(* of queueInLoop.                                                         *)
(***************************************************************************)
EXTENDS Integers, Sequences, FiniteSets

CONSTANTS
  Loop,     \* the event loops of the IO threads
  Client,   \* client connections, each accepted at most once
  Message,  \* what clients send, each message once
  From,     \* the sender of each message
  None

ASSUME ChatServerAssumption ==
  /\ From \in [Message -> Client]
  /\ None \notin Loop /\ None \notin Message

VARIABLES
  loops,    \* loops_
  mutex,    \* the loop whose thread holds mutex_
  reading,  \* the message each thread is in onStringMessage with
  todo,     \* the loops it has not queued the functor in yet
  pending,  \* each loop's functors: the messages to distribute
  local,    \* LocalConnections of each thread
  status,   \* each connection: "new", "up", "shut" by the server, or "down"
  home,     \* the loop it is assigned to
  spoken,   \* the messages received so far
  outbox,   \* what has been sent to each client
  order,    \* history: the messages in the order of locking mutex_
  start,    \* history: how far a client's loop had come when it was accepted
  ran       \* history: how many functors each loop has run

vars == <<loops, mutex, reading, todo, pending, local, status, home, spoken,
          outbox, order, start, ran>>

TypeOK ==
  /\ loops \subseteq Loop
  /\ mutex \in Loop \cup {None}
  /\ reading \in [Loop -> Message \cup {None}]
  /\ todo \in [Loop -> SUBSET Loop]
  /\ pending \in [Loop -> Seq(Message)]
  /\ local \in [Loop -> SUBSET Client]
  /\ status \in [Client -> {"new", "up", "shut", "down"}]
  /\ home \in [Client -> Loop \cup {None}]
  /\ spoken \subseteq Message
  /\ outbox \in [Client -> Seq(Message)]
  /\ order \in Seq(Message)
  /\ start \in [Client -> Nat]
  /\ ran \in [Loop -> Nat]

Init ==
  /\ loops = {}
  /\ mutex = None
  /\ reading = [l \in Loop |-> None]
  /\ todo = [l \in Loop |-> {}]
  /\ pending = [l \in Loop |-> <<>>]
  /\ local = [l \in Loop |-> {}]
  /\ status = [c \in Client |-> "new"]
  /\ home = [c \in Client |-> None]
  /\ spoken = {}
  /\ outbox = [c \in Client |-> <<>>]
  /\ order = <<>>
  /\ start = [c \in Client |-> 0]
  /\ ran = [l \in Loop |-> 0]

-----------------------------------------------------------------------------
(* threadInit, under mutex_.  TcpServer starts to listen when every thread  *)
(* has returned from it.                                                    *)
ThreadInit(l) ==
  /\ l \notin loops
  /\ loops' = loops \cup {l}
  /\ UNCHANGED <<mutex, reading, todo, pending, local, status, home, spoken,
                 outbox, order, start, ran>>

Listening == loops = Loop

Idle(l) == reading[l] = None

(* onConnection in the thread of loop l.                                    *)
Accept(l, c) ==
  /\ Listening /\ Idle(l)
  /\ status[c] = "new"
  /\ status' = [status EXCEPT ![c] = "up"]
  /\ home' = [home EXCEPT ![c] = l]
  /\ local' = [local EXCEPT ![l] = @ \cup {c}]
  /\ start' = [start EXCEPT ![c] = ran[l]]
  /\ UNCHANGED <<loops, mutex, reading, todo, pending, spoken, outbox, order, ran>>

Close(l, c) ==
  /\ Idle(l)
  /\ status[c] \in {"up", "shut"} /\ home[c] = l
  /\ status' = [status EXCEPT ![c] = "down"]
  /\ local' = [local EXCEPT ![l] = @ \ {c}]
  /\ UNCHANGED <<loops, mutex, reading, todo, pending, home, spoken, outbox,
                 order, start, ran>>

-----------------------------------------------------------------------------
(* LengthHeaderCodec::onMessage meets a length that does not fit: it shuts  *)
(* the connection down for writing and leaves the bytes in the buffer, so   *)
(* that it comes to the same length whenever more arrives.  The client      *)
(* stays in LocalConnections until it closes.                               *)
InvalidLength(l, c) ==
  /\ Idle(l)
  /\ status[c] = "up" /\ home[c] = l
  /\ status' = [status EXCEPT ![c] = "shut"]
  /\ UNCHANGED <<loops, mutex, reading, todo, pending, local, home, spoken,
                 outbox, order, start, ran>>

(* onStringMessage: called with a message of a client of loop l ...         *)
Receive(l, m) ==
  /\ Idle(l)
  /\ m \notin spoken
  /\ status[From[m]] = "up" /\ home[From[m]] = l
  /\ spoken' = spoken \cup {m}
  /\ reading' = [reading EXCEPT ![l] = m]
  /\ UNCHANGED <<loops, mutex, todo, pending, local, status, home, outbox,
                 order, start, ran>>

(* ... lock ...                                                             *)
MutNoLock(l) ==
  /\ reading[l] # None /\ todo[l] = {}
  /\ \A i \in 1..Len(order) : order[i] # reading[l]
  /\ mutex' = l
  /\ todo' = [todo EXCEPT ![l] = loops]
  /\ order' = Append(order, reading[l])
  /\ UNCHANGED <<loops, reading, pending, local, status, home, spoken, outbox,
                 start, ran>>
Lock(l) ==
  /\ reading[l] # None
  /\ mutex = None
  /\ mutex' = l
  /\ todo' = [todo EXCEPT ![l] = loops]
  /\ order' = Append(order, reading[l])
  /\ UNCHANGED <<loops, reading, pending, local, status, home, spoken, outbox,
                 start, ran>>

(* ... queueInLoop(f) for one loop after another, in the order of a set of  *)
(* pointers ...                                                             *)
MutOthersOnly(l, k) == IF k = l THEN pending[k] ELSE Append(pending[k], reading[l])
MutQueueInFront(l, k) == <<reading[l]>> \o pending[k]
WithFunctor(l, k) == Append(pending[k], reading[l])
QueueInLoop(l, k) ==
  /\ k \in todo[l]
  /\ pending' = [pending EXCEPT ![k] = WithFunctor(l, k)]
  /\ todo' = [todo EXCEPT ![l] = @ \ {k}]
  /\ UNCHANGED <<loops, mutex, reading, local, status, home, spoken, outbox,
                 order, start, ran>>

(* ... and unlock.                                                          *)
Unlock(l) ==
  /\ mutex = l
  /\ todo[l] = {}
  /\ mutex' = None
  /\ reading' = [reading EXCEPT ![l] = None]
  /\ UNCHANGED <<loops, todo, pending, local, status, home, spoken, outbox,
                 order, start, ran>>

(* distributeMessage: the thread sends the message to its own connections;  *)
(* send does nothing on one that is shut.                                   *)
Receivers(l) == {c \in local[l] : status[c] = "up"}
DistributeMessage(l) ==
  /\ Idle(l)
  /\ pending[l] # <<>>
  /\ outbox' = [c \in Client |-> IF c \in Receivers(l)
                                THEN Append(outbox[c], Head(pending[l]))
                                ELSE outbox[c]]
  /\ pending' = [pending EXCEPT ![l] = Tail(@)]
  /\ ran' = [ran EXCEPT ![l] = @ + 1]
  /\ UNCHANGED <<loops, mutex, reading, todo, local, status, home, spoken,
                 order, start>>

-----------------------------------------------------------------------------
(* What a thread does by itself once there is something to do.              *)
Work(l) ==
  \/ Lock(l)
  \/ \E k \in Loop : QueueInLoop(l, k)
  \/ Unlock(l)
  \/ DistributeMessage(l)

Next ==
  \E l \in Loop :
    \/ ThreadInit(l)
    \/ \E c \in Client : Accept(l, c) \/ InvalidLength(l, c) \/ Close(l, c)
    \/ \E m \in Message : Receive(l, m)
    \/ Work(l)

Spec == Init /\ [][Next]_vars

(* The loops run; clients need not connect, speak or leave.                 *)
FairSpec == Spec /\ \A l \in Loop : WF_vars(Work(l))

-----------------------------------------------------------------------------
(* What a client was sent is a stretch of the one order in which messages   *)
(* took mutex_, beginning where its loop was when it connected: no two      *)
(* clients see two messages in different orders, and nobody misses one.     *)
SegmentOfOrder ==
  \A c \in Client :
    /\ start[c] + Len(outbox[c]) <= Len(order)
    /\ \A i \in 1..Len(outbox[c]) : outbox[c][i] = order[start[c] + i]

(* Connections of one loop never get ahead of each other, and none that is  *)
(* down stays in LocalConnections.                                          *)
LoopInStep ==
  \A l \in Loop : \A c \in local[l] :
    /\ status[c] \in {"up", "shut"} /\ home[c] = l
    /\ status[c] = "up" => start[c] + Len(outbox[c]) = ran[l]

(* The server implements the chat room, which a client leaves when the      *)
(* server shuts its connection.                                             *)
Present == [c \in Client |-> IF status[c] = "shut" THEN "down" ELSE status[c]]
Room == INSTANCE ChatRoom WITH log <- order, heard <- outbox, status <- Present
ImplementsRoom == Room!Spec

(* mutex_ is never the end of a message, and a message that has its place   *)
(* in the order reaches everybody who is connected by then and stays so,    *)
(* whatever lengths the others send.                                        *)
EveryoneHears ==
  /\ \A m \in Message : m \in spoken ~> \E i \in 1..Len(order) : order[i] = m
  /\ \A c \in Client, i \in 1..Cardinality(Message) :
       (status[c] = "up" /\ start[c] < i /\ i <= Len(order))
         ~> (status[c] # "up" \/ start[c] + Len(outbox[c]) >= i)
=============================================================================
