--------------------------- MODULE MCRunnerSession ---------------------------
(* Names for TLC's model values. *)
EXTENDS RunnerSession, TLC

CONSTANTS w1, w2
=============================================================================
