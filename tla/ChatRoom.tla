------------------------------ MODULE ChatRoom ------------------------------
(***************************************************************************)
(* What the chat server promises: one conversation.  Whatever a client     *)
(* hears from the moment it joins until it leaves is the conversation      *)
(* itself, from some point on, without gaps and in the one order that      *)
(* everybody hears.                                                        *)
(***************************************************************************)
EXTENDS Integers, Sequences

CONSTANTS
  Client,  \* client connections
  Message  \* what is said

VARIABLES
  log,     \* the conversation
  status,  \* the state of each client: "new", "up" or "down"
  start,   \* where in the conversation a client began to listen
  heard    \* what each client has heard

roomVars == <<log, status, start, heard>>

Position(c) == start[c] + Len(heard[c])

Init ==
  /\ log = <<>>
  /\ status = [c \in Client |-> "new"]
  /\ start = [c \in Client |-> 0]
  /\ heard = [c \in Client |-> <<>>]

Say(m) ==
  /\ log' = Append(log, m)
  /\ UNCHANGED <<status, start, heard>>

Join(c) ==
  /\ status[c] = "new"
  /\ status' = [status EXCEPT ![c] = "up"]
  /\ \E n \in 0..Len(log) : start' = [start EXCEPT ![c] = n]
  /\ UNCHANGED <<log, heard>>

Leave(c) ==
  /\ status[c] = "up"
  /\ status' = [status EXCEPT ![c] = "down"]
  /\ UNCHANGED <<log, start, heard>>

(* Some of those present hear what comes next for them.                     *)
Hear(audience) ==
  /\ \A c \in audience : status[c] = "up" /\ Position(c) < Len(log)
  /\ heard' = [c \in Client |-> IF c \in audience
                               THEN Append(heard[c], log[Position(c) + 1])
                               ELSE heard[c]]
  /\ UNCHANGED <<log, status, start>>

Next ==
  \/ \E m \in Message : Say(m)
  \/ \E c \in Client : Join(c) \/ Leave(c)
  \/ \E audience \in SUBSET Client : Hear(audience)

Spec == Init /\ [][Next]_roomVars
=============================================================================
