---------------------------- MODULE MCMysqlPool ----------------------------
(* Instances of MysqlPool for TLC. *)
EXTENDS MysqlPool, TLC

CONSTANTS c1, c2, c3, c4, t1, t2, t3

ThreeConns == {c1, c2, c3}
FourConns == {c1, c2, c3, c4}
TwoConns == {c1, c2}
TwoThreads == {t1, t2}
ThreeThreads == {t1, t2, t3}
OneConn == {c1}
NoConns == {}

(* Threads are interchangeable, and so are connections that may break, and  *)
(* those that may not.  Used by runs without liveness properties only.      *)
Symmetry ==
  Permutations(Thread) \cup Permutations(Faulty) \cup Permutations(Conn \ Faulty)
=============================================================================
