---------------------------- MODULE MCGitEffects ----------------------------
(* One execution; the bounds are in the configurations.                  *)
EXTENDS GitEffects
=============================================================================
