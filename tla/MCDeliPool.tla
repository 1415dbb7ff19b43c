----------------------------- MODULE MCDeliPool -----------------------------
(* Three workers at a pool that is configured for four connections and gets *)
(* three.                                                                   *)
EXTENDS DeliPool, TLC

CONSTANTS c1, c2, c3, c4, c5, w1, w2, w3

FiveConns == {c1, c2, c3, c4, c5}
ThreeWorkers == {w1, w2, w3}
Symmetry == Permutations(FiveConns) \cup Permutations(ThreeWorkers)
=============================================================================
