---------------------------- MODULE MCComServer ----------------------------
(* Instances of ComServer for TLC. *)
EXTENDS ComServer, TLC

CONSTANTS p1, p2, r1, r2, r3, r4, w1, w2, c1, c2

TwoPeers == {p1, p2}
TwoWorkers == {w1, w2}
TwoConns == {c1, c2}
OneConn == {c1}
NoConns == {}

(* Header fields of three and of two or three characters stand for the user *)
(* name, 32 wide, and the key, 4 wide.                                      *)
ab == <<"a", "b", " ">>
xy == <<"x", "y">>
xyx == <<"x", "y", "x">>
xyz == <<"x", "y", "z">>
xzz == <<"x", "z", "z">>

Message(p, k, u, key, f) ==
  [peer |-> p, kind |-> k, user |-> u, key |-> key, side |-> "S", full |-> f]

(* Two clients put and get the same row, one of them an empty text, and one *)
(* sends an unknown command.                                                *)
RowMsg ==
     r1 :> Message(p1, "RQUPJ", ab, xy, TRUE)
  @@ r2 :> Message(p2, "RQDPJ", ab, xy, TRUE)
  @@ r3 :> Message(p2, "RQUPJ", ab, xy, FALSE)
  @@ r4 :> Message(p1, "other", ab, xy, TRUE)

(* A put and two gets under different keys of the same user: one key agrees *)
(* with the put's as far as the user name is long, the other does not.  And *)
(* a heartbeat.                                                             *)
KeyMsg ==
     r1 :> Message(p1, "RQUPJ", ab, xyz, TRUE)
  @@ r2 :> Message(p2, "RQDPJ", ab, xyx, TRUE)
  @@ r3 :> Message(p2, "RQDPJ", ab, xzz, TRUE)
  @@ r4 :> Message(p1, "HBET", ab, xyz, TRUE)

GetMsg ==
     r2 :> Message(p1, "RQDPJ", ab, xy, TRUE)
  @@ r4 :> Message(p2, "RQDPJ", ab, xy, TRUE)

TwoGets == {r2, r4}
RowRequests == {r1, r2, r3, r4}

(* Workers are interchangeable; used by the run without liveness.           *)
Symmetry == Permutations(Worker)
=============================================================================
