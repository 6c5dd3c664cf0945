--------------------------- MODULE MCLockManager ---------------------------
(* Two threads of one process and a third one in another process.         *)
EXTENDS LockManager, TLC

CONSTANTS t1, t2, t3, m1, m2

MCManagerOf == (t1 :> m1) @@ (t2 :> m1) @@ (t3 :> m2)
=============================================================================
