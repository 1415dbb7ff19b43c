---------------------------- MODULE MCChatServer ----------------------------
(* An instance of ChatServer for TLC. *)
EXTENDS ChatServer, TLC

CONSTANTS l1, l2, c1, c2, m1, m2, m3

TwoLoops == {l1, l2}
TwoClients == {c1, c2}
ThreeMessages == {m1, m2, m3}

OneSaysTwo == m1 :> c1 @@ m2 :> c2 @@ m3 :> c1
=============================================================================
