--------------------------- MODULE DelimiterCodec ---------------------------
(***************************************************************************)
(* LengthHeaderCodec of the servers that end a message with "@%&)"         *)
(* (src/log_time_server/log_time_server/codec.cc and its copy in           *)
(* src/comServer_Delimiter): messages over TCP, which delivers their bytes *)
(* in order but cut anywhere.                                              *)
(*                                                                         *)
(* A message is a sequence; the header, whose fields have fixed places,    *)
(* counts as one element for each field.                                   *)
(***************************************************************************)
EXTENDS Integers, SequencesExt

CONSTANTS
  Conn,      \* the connections
  Piece,     \* what a message is made of: bytes and header fields
  Messages,  \* what clients send
  MaxSent    \* bound: messages on one connection

VARIABLES
  sent,      \* history: the messages of each connection, in order
  wire,      \* what TCP has yet to deliver
  buf,       \* the input Buffer of the connection
  reading,   \* is onMessage in its loop?
  got        \* the messages given to messageCallback_

codecVars == <<sent, wire, buf, reading, got>>

deli == <<"@", "%", "&", ")">>
deliLen == Len(deli)

ASSUME PieceAssumption ==
  {"@", "%", "&", ")"} \subseteq Piece /\ Messages \subseteq Seq(Piece)

(* find: the places where the delimiter begins, and the first of them.      *)
Places(b) == {i \in 1..(Len(b) - deliLen + 1) : SubSeq(b, i, i + deliLen - 1) = deli}
LastPlace(b) == CHOOSE i \in Places(b) : \A j \in Places(b) : i >= j   \* mutant
First(b) == CHOOSE i \in Places(b) : \A j \in Places(b) : i <= j

CodecInit ==
  /\ sent = [c \in Conn |-> <<>>]
  /\ wire = [c \in Conn |-> <<>>]
  /\ buf = [c \in Conn |-> <<>>]
  /\ reading = [c \in Conn |-> FALSE]
  /\ got = [c \in Conn |-> <<>>]

(* send: the header, the body and the delimiter in one piece.               *)
Send(c) ==
  /\ Len(sent[c]) < MaxSent
  /\ \E m \in Messages :
       /\ sent' = [sent EXCEPT ![c] = Append(@, m)]
       /\ wire' = [wire EXCEPT ![c] = @ \o m \o deli]
  /\ UNCHANGED <<buf, reading, got>>

(* TCP delivers some more bytes: the loop thread calls onMessage.           *)
Arrive(c) ==
  /\ ~reading[c]
  /\ \E n \in 1..Len(wire[c]) :
       /\ buf' = [buf EXCEPT ![c] = @ \o SubSeq(wire[c], 1, n)]
       /\ wire' = [wire EXCEPT ![c] = SubSeq(@, n + 1, Len(@))]
  /\ reading' = [reading EXCEPT ![c] = TRUE]
  /\ UNCHANGED <<sent, got>>

(* One round of the loop: the message before the first delimiter.           *)
NextMessage(c) == SubSeq(buf[c], 1, First(buf[c]) - 1)
OnMessage(c) ==
  /\ reading[c]
  /\ Places(buf[c]) # {}
  /\ got' = [got EXCEPT ![c] = Append(@, NextMessage(c))]
  /\ buf' = [buf EXCEPT ![c] = SubSeq(@, First(@) + deliLen, Len(@))]
  /\ UNCHANGED <<sent, wire, reading>>

(* No delimiter: the loop ends and waits for more.                          *)
Wait(c) ==
  /\ reading[c]
  /\ Places(buf[c]) = {}
  /\ reading' = [reading EXCEPT ![c] = FALSE]
  /\ UNCHANGED <<sent, wire, buf, got>>

(* What a message is does not depend on where TCP has cut the stream: the   *)
(* callback gets exactly the messages that were sent, in order, as long as  *)
(* none of them holds the delimiter.                                        *)
Whole(m) == Places(m) = {}
MessagesWhole ==
  \A c \in Conn :
    (\A i \in DOMAIN sent[c] : Whole(sent[c][i])) => IsPrefix(got[c], sent[c])
=============================================================================
