-------------------------- MODULE MCDownlinkSignal --------------------------
(* The instance of DownlinkSignal that TLC checks. *)
EXTENDS DownlinkSignal

\* The scores on both sides of every threshold of the code.
MCScores == {0, 1, 2, 3, 4, 5, 6}

=============================================================================
