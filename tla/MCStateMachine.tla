--------------------------- MODULE MCStateMachine ---------------------------
(* One execution, a few revisions and a clock of two readings.            *)
EXTENDS StateMachine
=============================================================================
