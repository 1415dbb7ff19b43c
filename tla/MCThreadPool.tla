---------------------------- MODULE MCThreadPool ----------------------------
(* An instance of ThreadPool for TLC. *)
EXTENDS ThreadPool, TLC

CONSTANTS a, b, c, w1, w2, w3

ThreeTasks == {a, b, c}
ThreeWorkers == {w1, w2, w3}

(* After stop has returned and every caller has been served the pool rests. *)
Rest == phase = "stopped" /\ Submitted = Task /\ UNCHANGED vars
RestingFairSpec == Init /\ [][Next \/ Rest]_vars /\ Fairness
=============================================================================
