---------------------------- MODULE MCPromotion ----------------------------
(* One execution; the bounds are in the configurations.                  *)
EXTENDS Promotion
=============================================================================
