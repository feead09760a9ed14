----------------------------- MODULE MCPipeline -----------------------------
(* The instances of Pipeline that TLC checks. *)
EXTENDS Pipeline

CONSTANTS t1, t2, t3, quiet, single, pair    \* model values

TwoWorkers == {t1, t2}
ThreeKinds == {quiet, single, pair}
MCOutputs == [b \in ThreeKinds |-> CASE b = quiet -> 0 [] b = single -> 1 [] b = pair -> 2]

=============================================================================
