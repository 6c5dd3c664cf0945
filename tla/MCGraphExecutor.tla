-------------------------- MODULE MCGraphExecutor --------------------------
(* A graph made of the nodes of defaults/graphs/bug-fix.yaml and the human *)
(* approval of migration.yaml: an analysis that calls nothing, and then a  *)
(* verification whose failure leads to a correction that must be approved. *)
EXTENDS GraphExecutor

GraphNodes == {"analyze", "verify", "generate", "approval"}

SuccessEdges == [n \in GraphNodes |->
  CASE n = "analyze"  -> "verify"
    [] n = "verify"   -> "END"
    [] n = "generate" -> "approval"
    [] n = "approval" -> "verify"]

FailureEdges == [n \in GraphNodes |->
  CASE n = "analyze" -> "analyze"
    [] n = "verify"  -> "generate"
    [] OTHER         -> "abort"]

RetryPolicies == [n \in GraphNodes |-> 2]

TerminalStates == [t \in {"END", "abort"} |->
  IF t = "END" THEN "success" ELSE "failure"]

\* The correction may be the same as what was approved before, or not.
NodeOutputs == [n \in GraphNodes \ {"approval"} |->
  IF n = "generate" THEN {1, 2} ELSE {3}]

\* Room for all but the last of eight visits; tool calls run out in a node, the duration in
\* a verification and over all of them.
BudgetLimits == [s \in GraphNodes \cup {"execution"} |->
  IF s = "execution"
  THEN [attempts |-> 7, tool_calls |-> 3, duration_ms |-> 6]
  ELSE [attempts |-> 2, tool_calls |-> 2,
        duration_ms |-> IF s = "verify" THEN 3 ELSE 7]]

CallDurations == {1, 4}
=============================================================================
