------------------------- MODULE MCOrderedExecutor -------------------------
(* The instances of OrderedExecutor that TLC checks. *)
EXTENDS OrderedExecutor

CONSTANTS t1, t2, t3, a, b    \* model values

TwoWorkers == {t1, t2}
ThreeWorkers == {t1, t2, t3}
TwoKinds == {a, b}

=============================================================================
