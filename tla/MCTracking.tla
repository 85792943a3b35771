----------------------------- MODULE MCTracking -----------------------------
(* Tracking for TLC: sessions 1 and 2 of client a, 3 of client b.           *)
EXTENDS Tracking, TLC
CONSTANTS a, b, none   \* model values

Clients == {a, b}
Two == {1, 3}
Three == {1, 2, 3}
ClientOfTwo == (1 :> a) @@ (3 :> b)
ClientOfThree == (1 :> a) @@ (2 :> a) @@ (3 :> b)

opt(i, p, d) == [interval |-> i, power |-> p, distance |-> d]
Intervals == {opt(i, 2, FALSE) : i \in {0, 2, 3}}
Distances == {opt(0, 2, FALSE), opt(2, 2, FALSE), opt(1, 2, TRUE)}
=============================================================================
