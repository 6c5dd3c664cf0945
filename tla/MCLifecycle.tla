---------------------------- MODULE MCLifecycle ----------------------------
(* Two gates.  A long call exceeds the limit of any node but the agent's;  *)
(* together with the gates that ran before, it exceeds the execution's.    *)
EXTENDS Lifecycle, TLC

CallersAreAlike == Permutations(Callers)

VerificationPolicy == <<"lint", "unit">>
GraphNodes == {"planning", "work", "lint", "unit"}

BudgetLimits == [s \in GraphNodes \cup {"execution"} |->
  CASE s = "execution" -> [attempts |-> 8, tool_calls |-> 1, duration_ms |-> 12]
    [] s = "work"      -> [attempts |-> 4, tool_calls |-> 1, duration_ms |-> 11]
    [] OTHER           -> [attempts |-> 4, tool_calls |-> 1, duration_ms |-> 9]]
=============================================================================
