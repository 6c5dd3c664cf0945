---------------------------- MODULE MCStateStore ----------------------------
(* Two events, one payload.                                               *)
EXTENDS StateStore

CONSTANTS p1
=============================================================================
