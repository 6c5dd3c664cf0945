----------------------------- MODULE FencedLock -----------------------------
(***************************************************************************)
(* What persistence/locks.py promises its callers, with no file, process   *)
(* registry or poll loop in sight: at any time at most one holder of an    *)
(* execution, and every grant carries a fencing token greater than every   *)
(* token granted before it for that execution, whatever crashed in         *)
(* between.                                                                *)
(***************************************************************************)
EXTENDS Naturals

CONSTANTS Thread,     \* callers of the provider, over all processes
          Execution   \* executions under management

VARIABLES holders,    \* holders[e]: the callers that hold the lock of e
          last        \* last[e]: the greatest token granted for e so far

fencedVars == <<holders, last>>

FencedInit ==
  /\ holders = [e \in Execution |-> {}]
  /\ last = [e \in Execution |-> 0]

\* A free lock is granted with a fresh, greater token (tokens may skip values).
Grant(t, e) ==
  /\ holders[e] = {}
  /\ holders' = [holders EXCEPT ![e] = {t}]
  /\ last'[e] \in Nat /\ last'[e] > last[e]
  /\ last' = [last EXCEPT ![e] = last'[e]]

\* Holders give their locks up, one at a time or, in a crash, several at once.
Yield(leaving) ==
  /\ holders' = [e \in Execution |-> holders[e] \ leaving]
  /\ UNCHANGED last

FencedNext ==
  \/ \E t \in Thread, e \in Execution : Grant(t, e)
  \/ \E leaving \in SUBSET Thread : Yield(leaving)

FencedSpec == FencedInit /\ [][FencedNext]_fencedVars
=============================================================================
