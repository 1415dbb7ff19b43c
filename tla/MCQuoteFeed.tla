---------------------------- MODULE MCQuoteFeed ----------------------------
(* An instance of QuoteFeed for TLC. *)
EXTENDS QuoteFeed, TLC

CONSTANTS f1, f2, a1, a2, b1, w1, w2, c1, a, b

TwoSources == {f1, f2}
ThreeTicks == {a1, a2, b1}
(* The second source repeats one tick. *)
OneTickTwice == f1 :> ThreeTicks @@ f2 :> {a1}

TwoWorkers == {w1, w2}
OneClient == {c1}

(* Two ticks of one contract and one of another; a window of 1 is too short *)
(* for the first two, one of 3 is not.                                      *)
TickContract == a1 :> a @@ a2 :> a @@ b1 :> b
TickTime == a1 :> 0 @@ a2 :> 2 @@ b1 :> 1
TwoSpans == {1, 3}
=============================================================================
