---------------------------- MODULE Preparation ----------------------------
(***************************************************************************)
(* The way to the graph: start and resume of execution_lifecycle.py, the   *)
(* context of runtime/context_assembler.py and the plan of                 *)
(* runtime/planner.py.  The provider is asked for one plan in the life of  *)
(* an execution, on the evidence of a sufficient context report that still *)
(* matches the knowledge; an attempt whose outcome is not known is blocked *)
(* for good.                                                               *)
(*                                                                         *)
(* Left out: how sufficiency is judged, the content of a plan, the         *)
(* projections context.json and plan.json (a failure to write one is a     *)
(* prerequisite that fails).                                               *)
(***************************************************************************)
EXTENDS Service

\* start: the bundle and the record; a second one with this id raises.
Start(c) ==
  /\ at[c] = "idle"
  /\ state = "absent" /\ state' = "INITIATED"
  /\ Go(c, "context")
  /\ UNCHANGED <<journal, cursor, candidate, outside, seen, bounds>>

\* resume reads the state under the lock, gives the lock up and acts on what it has
\* read; in any other state it raises.
Resume(c) ==
  /\ Enters(c, "idle")
  /\ \/ /\ state \in {"INITIATED", "CONTEXT_ASSEMBLING", "BLOCKED_INSUFFICIENT_CONTEXT"}
        /\ Go(c, "context")
     \/ state = "PLANNING" /\ Go(c, "plan")
     \/ state = "VERIFYING" /\ Go(c, "look at failure")
     \/ state = "EXECUTING" /\ Go(c, "reenter")
  /\ UNCHANGED <<stored, outside, seen, bounds>>

-----------------------------------------------------------------------------
(* _prepare_context_attempt                                                *)

Decisions == Count({"CONTEXT_EVALUATED"})

Sufficient(i) == journal[i].sufficient

LastDecision == Last({"CONTEXT_EVALUATED"})

\* _pending_context_event: a decision that the state does not show yet.
DecisionPending == LastDecision > Last({"CONTEXT_ASSEMBLING"})

\* Where a decision leads, and with it the command.
Settle(c, i) ==
  IF Sufficient(i)
  THEN MoveTo("PLANNING") /\ Go(c, "plan") /\ UNCHANGED seen
  ELSE Finish(c, "BLOCKED_INSUFFICIENT_CONTEXT")

Exhausted == Decisions >= MaxRetrievals + 1

BeginAttempt(c) ==
  /\ MoveTo("CONTEXT_ASSEMBLING")
  /\ Write([type |-> "CONTEXT_ASSEMBLING"])
  /\ Go(c, "assembling") /\ UNCHANGED seen

EnterContext(c) ==
  /\ Enters(c, "context")
  /\ CASE state = "INITIATED" -> BeginAttempt(c)
       [] state = "BLOCKED_INSUFFICIENT_CONTEXT" /\ ~ Exhausted -> BeginAttempt(c)
       [] state = "BLOCKED_INSUFFICIENT_CONTEXT" /\ Exhausted ->
            Finish(c, "FAILED_RETRY_EXHAUSTED") /\ UNCHANGED journal
       [] state = "CONTEXT_ASSEMBLING" /\ DecisionPending ->
            Settle(c, LastDecision) /\ UNCHANGED journal
       [] state = "CONTEXT_ASSEMBLING" /\ ~ DecisionPending ->
            Go(c, "assembling") /\ UNCHANGED <<state, journal, seen>>
       [] OTHER -> Return(c) /\ UNCHANGED <<state, journal>>
  /\ UNCHANGED <<cursor, candidate, outside, bounds>>

\* ContextAssembler.assemble and the decision, written ahead of its transition.
Assemble(c) ==
  /\ at[c] = "assembling"
  /\ \/ /\ \E enough \in BOOLEAN :
             Write([type |-> "CONTEXT_EVALUATED", attempt |-> Decisions + 1,
                    sufficient |-> enough])
        /\ stale' = FALSE
        /\ Go(c, "decided") /\ UNCHANGED <<state, seen>>
     \/ Finish(c, "BLOCKED_PREREQUISITE") /\ UNCHANGED <<journal, stale>>
  /\ UNCHANGED <<cursor, candidate, promotes, head, tree, clock, effects, bounds>>

Conclude(c) ==
  /\ at[c] = "decided"
  /\ Settle(c, LastDecision)
  /\ UNCHANGED <<journal, cursor, candidate, outside, bounds>>

-----------------------------------------------------------------------------
(* _prepare_plan                                                           *)

Started == Positions({"PLAN_GENERATION_STARTED"}) # {}
Generated == Positions({"PLAN_GENERATED"}) # {}

\* Mutant of AskForPlan: an attempt without an outcome is made again.
AskAgain(c) ==
  /\ Write([type |-> "PLAN_GENERATION_STARTED", node |-> "planning",
            attempt |-> Count({"PLAN_GENERATION_STARTED"}) + 1])
  /\ Go(c, "planning") /\ UNCHANGED <<state, seen>>

\* The provider is asked once.
AskForPlan(c) ==
  CASE Started -> Finish(c, "BLOCKED_PREREQUISITE") /\ UNCHANGED journal
    [] ~ Started /\ ~ Fits(journal, "planning", "attempt") ->
         Deny(c, "planning", 1, "attempt")
    [] OTHER ->
         /\ Write([type |-> "PLAN_GENERATION_STARTED", node |-> "planning", attempt |-> 1])
         /\ Go(c, "planning") /\ UNCHANGED <<state, seen>>

\* A plan that exists is recovered without a call.  A prerequisite may fail: the
\* context payload, a policy, the route, the persisted plan.
EnterPlan(c) ==
  /\ Enters(c, "plan")
  /\ CASE state # "PLANNING" -> Return(c) /\ UNCHANGED <<state, journal>>
       [] state = "PLANNING" /\ ~ Sufficient(LastDecision) ->
            Finish(c, "BLOCKED_PREREQUISITE") /\ UNCHANGED journal
       [] OTHER ->
            \/ Generated /\ Go(c, "execute") /\ UNCHANGED <<state, journal, seen>>
            \/ ~ Generated /\ AskForPlan(c)
            \/ Finish(c, "BLOCKED_PREREQUISITE") /\ UNCHANGED journal
  /\ UNCHANGED <<cursor, candidate, outside, bounds>>

\* Planner.create_plan: evidence that changed since the report is refused before the
\* call, an answer over the budget or against the contract after it.
CallPlanner(c) ==
  /\ at[c] = "planning"
  /\ CASE stale ->
            Finish(c, "BLOCKED_PREREQUISITE") /\ UNCHANGED <<journal, effects>>
       [] ~ stale /\ ~ Fits(journal, "planning", "model") ->
            Deny(c, "planning", 1, "model") /\ UNCHANGED effects
       [] OTHER ->
            /\ \E d \in Durations : journal' = Called("planning", 1, d)
            /\ Affect("planning", 1)
            /\ IF IsExceeded(journal') THEN Finish(c, "FAILED_BUDGET_EXCEEDED")
               ELSE \/ Go(c, "planned") /\ UNCHANGED <<state, seen>>
                    \/ Finish(c, "BLOCKED_PREREQUISITE")
  /\ UNCHANGED <<cursor, candidate, promotes, head, tree, stale, clock, bounds>>

RecordPlan(c) ==
  /\ at[c] = "planned"
  /\ Write([type |-> "PLAN_GENERATED"])
  /\ Go(c, "execute")
  /\ UNCHANGED <<state, cursor, candidate, outside, seen, bounds>>

PreparationSession(c) ==
  \/ EnterContext(c) \/ Assemble(c) \/ Conclude(c)
  \/ EnterPlan(c) \/ CallPlanner(c) \/ RecordPlan(c)
=============================================================================
