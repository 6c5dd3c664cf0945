--------------------------- MODULE MCCancellation ---------------------------
(* Two cancelling processes, one runner.                                  *)
EXTENDS Cancellation, TLC

CONSTANTS c1, c2
=============================================================================
