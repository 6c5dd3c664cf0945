-------------------------- MODULE ExecutionStates --------------------------
(***************************************************************************)
(* The states of an execution (ExecutionState in contracts/execution.py)   *)
(* and the closed transition table (_TRANSITIONS in                        *)
(* runtime/state_machine.py).                                              *)
(***************************************************************************)

Blocked == {"BLOCKED_INSUFFICIENT_CONTEXT", "BLOCKED_PREREQUISITE",
            "BLOCKED_BASE_CHANGED"}

\* States without a way out.
Terminal == {"DRY_RUN_COMPLETED", "BLOCKED_ROLLBACK", "CANCELLED", "FAILED",
             "FAILED_BUDGET_EXCEEDED", "FAILED_RETRY_EXHAUSTED", "COMPENSATED"}

State ==
  {"INITIATED", "PREPARING_WORKSPACE", "CONTEXT_ASSEMBLING", "PLANNING",
   "GENERATING_PLAN", "EXECUTING", "VERIFYING", "AWAITING_APPROVAL",
   "PAUSED_AWAITING_APPROVAL", "PROMOTING", "REINDEXING", "KNOWLEDGE_SYNC",
   "GENERATING_EVIDENCE", "COMPLETED", "ROLLBACK_IN_PROGRESS"}
  \cup Blocked \cup Terminal

\* What nearly every state may do: give up, or be cancelled.
Stop == {"CANCELLED", "FAILED"}

\* Where an execution in state s may go.
Successors(s) ==
  CASE s = "INITIATED" ->
         Stop \cup {"PREPARING_WORKSPACE", "CONTEXT_ASSEMBLING", "PLANNING",
                    "GENERATING_PLAN", "EXECUTING", "BLOCKED_PREREQUISITE"}
    [] s = "PREPARING_WORKSPACE" ->
         Stop \cup {"CONTEXT_ASSEMBLING", "BLOCKED_PREREQUISITE"}
    [] s = "CONTEXT_ASSEMBLING" ->
         Stop \cup {"BLOCKED_INSUFFICIENT_CONTEXT", "PLANNING",
                    "GENERATING_PLAN", "BLOCKED_PREREQUISITE"}
    [] s = "BLOCKED_INSUFFICIENT_CONTEXT" ->
         Stop \cup {"CONTEXT_ASSEMBLING", "FAILED_RETRY_EXHAUSTED"}
    [] s = "BLOCKED_PREREQUISITE" -> Stop \cup {"PREPARING_WORKSPACE"}
    [] s = "BLOCKED_BASE_CHANGED" -> Stop
    [] s = "PLANNING" ->
         Stop \cup {"GENERATING_PLAN", "EXECUTING", "BLOCKED_PREREQUISITE",
                    "FAILED_BUDGET_EXCEEDED"}
    [] s = "GENERATING_PLAN" ->
         Stop \cup {"EXECUTING", "BLOCKED_PREREQUISITE",
                    "FAILED_BUDGET_EXCEEDED"}
    [] s = "EXECUTING" ->
         Stop \cup {"VERIFYING", "PAUSED_AWAITING_APPROVAL",
                    "BLOCKED_PREREQUISITE", "COMPLETED",
                    "FAILED_BUDGET_EXCEEDED", "FAILED_RETRY_EXHAUSTED"}
    [] s = "VERIFYING" ->
         Stop \cup {"EXECUTING", "PAUSED_AWAITING_APPROVAL", "PROMOTING",
                    "GENERATING_EVIDENCE", "DRY_RUN_COMPLETED", "COMPLETED",
                    "BLOCKED_PREREQUISITE", "FAILED_BUDGET_EXCEEDED",
                    "FAILED_RETRY_EXHAUSTED"}
    [] s = "AWAITING_APPROVAL" ->
         Stop \cup {"PAUSED_AWAITING_APPROVAL", "PROMOTING"}
    [] s = "PAUSED_AWAITING_APPROVAL" -> Stop \cup {"EXECUTING", "PROMOTING"}
    [] s = "PROMOTING" ->
         {"REINDEXING", "GENERATING_EVIDENCE", "BLOCKED_BASE_CHANGED",
          "ROLLBACK_IN_PROGRESS", "COMPLETED", "FAILED"}
    [] s = "REINDEXING" ->
         {"KNOWLEDGE_SYNC", "GENERATING_EVIDENCE", "COMPLETED", "FAILED"}
    [] s = "KNOWLEDGE_SYNC" -> {"GENERATING_EVIDENCE", "COMPLETED", "FAILED"}
    [] s = "GENERATING_EVIDENCE" -> {"COMPLETED", "FAILED"}
    [] s = "ROLLBACK_IN_PROGRESS" -> {"BLOCKED_ROLLBACK", "COMPENSATED"}
    [] s = "COMPLETED" -> {"ROLLBACK_IN_PROGRESS"}
    [] OTHER -> {}

Edges == [s \in State |-> Successors(s)]

\* The completion that needs evidence (_handle_completed_transition).
Evidenced(from, to) == from = "GENERATING_EVIDENCE" /\ to = "COMPLETED"
=============================================================================
