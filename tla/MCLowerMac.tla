----------------------------- MODULE MCLowerMac -----------------------------
(* The instances of LowerMac that TLC checks. *)
EXTENDS LowerMac, TLC

CONSTANTS t1, t2    \* model values

TwoThreads == {t1, t2}

\* The workers run the same code; no property tells them apart.
Symmetry == Permutations(TwoThreads)

=============================================================================
