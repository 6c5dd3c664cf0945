--------------------------- MODULE GraphExecutor ---------------------------
(***************************************************************************)
(* runtime/graph_executor.py, GraphExecutor with resume enabled, for one   *)
(* execution: the traversal of a compiled graph, with the tool loop        *)
(* (runtime/tool_loop.py), the model router (models/router.py) and the     *)
(* budget boundary (module Budget) that run inside an agent node; and the  *)
(* approval of a human node, for which execution_lifecycle.py pauses the   *)
(* execution and lets a later resume go on.                                *)
(*                                                                         *)
(* Everything that matters is an event appended to the journal; the record *)
(* is a snapshot that follows it.  A visit of a node is bracketed by       *)
(* NODE_STARTED and NODE_COMPLETED or NODE_FAILED, a call of the model or  *)
(* of a tool by a reservation and its result, a tool call by TOOL_CALLED   *)
(* and its outcome.  An outcome carries the revision that the record will  *)
(* have.  The process may die between any two of these writes; whoever     *)
(* takes the execution lock next (module LockManager: one session at a     *)
(* time) replays the journal, brings the record up to date and goes on,    *)
(* unless a node is open: nobody knows what it did.                        *)
(*                                                                         *)
(* The resume of a user is two sessions: one brings the approval and the   *)
(* state up to date (PrepareResume), the next runs the graph (Resume).     *)
(* Others may come in between, so Resume may act on an old look.           *)
(*                                                                         *)
(* Payloads are named by where they come from: 0 is the initial input, i   *)
(* the output that the outcome at position i of the journal stored; only   *)
(* an approval looks at what they contain (Digest).  Left out: cancel.     *)
(* Fencing tokens and timestamps are in LockManager and StateMachine.      *)
(***************************************************************************)
EXTENDS Budget, ExecutionStates, FiniteSetsExt

CONSTANTS
  Entry,          \* graph.entrypoint
  Outcome,        \* the outcome of each terminal state, by its id
  OnSuccess,      \* the on_success edge of each node
  OnFailure,      \* its on_failure edge
  MaxIterations,  \* retry_policy.max_iterations, 0 without a retry policy
  Agents,         \* the nodes whose backend runs the tool loop
  Humans,         \* the nodes of type human_approval
  Outputs,        \* what the other nodes may answer: digests
  Candidates,     \* providers of the route: the primary and the fallbacks
  MaxToolSteps,   \* max_tool_steps of the tool loop
  Durations,      \* bound: what a call may take, and a node that calls nothing
  MaxFaults       \* bound: crashes and failed writes

Terminals == DOMAIN Outcome
Places == Nodes \cup Terminals

ASSUME GraphIsCompiled ==
  /\ Entry \in Nodes
  /\ Nodes \cap Terminals = {}
  /\ Outcome \in [Terminals -> {"success", "failure"}]
  /\ OnSuccess \in [Nodes -> Places]
  /\ OnFailure \in [Nodes -> Places]
  /\ MaxIterations \in [Nodes -> Nat]
  /\ Agents \subseteq Nodes /\ Humans \subseteq Nodes \ Agents
  /\ Outputs \in [Nodes \ Humans -> SUBSET Nat]

ASSUME LoopIsBounded ==
  /\ Candidates \in Nat \ {0}
  /\ MaxToolSteps \in Nat \ {0}
  /\ Durations \subseteq Nat
  /\ MaxFaults \in Nat

VARIABLES
  record,   \* the snapshot: [state, revision, node, attempts, approval]
  journal,  \* the events of the execution, in order
  effects,  \* external: calls of the model and of tools that were made
  session,  \* the process that holds the execution lock
  faults    \* counter for the bound

vars == <<record, journal, effects, session, faults>>

\* RetryContext: the node whose failure opened the episode, and the attempt
\* for which the context was made.
None == [origin |-> "none", attempt |-> 0]
Contexts == [origin : Nodes \cup {"none"}, attempt : Nat]

Steps == {"idle", "loop", "asked", "denied", "node", "model", "replied", "overrun",
          "tools", "reserved", "called", "dispatched", "outcome", "raised",
          "result"}

\* How a node ends: NodeExecutionResult.
Results == {"completed", "retryable", "failed"}

Replies == {"error", "unavailable", "content", "calls"}

\* A session between two nodes.
At(step, payload, context) ==
  [step |-> step, payload |-> payload, context |-> context,
   turns |-> 0, tools |-> 0, wanted |-> 0, tried |-> 0, handle |-> 0,
   reply |-> "content", result |-> "failed"]

Idle == At("idle", 0, None)

Init ==
  /\ record = [state |-> "INITIATED", revision |-> 0, node |-> Entry,
               attempts |-> [n \in Nodes |-> 0], approval |-> "NOT_REQUIRED"]
  /\ journal = << >>
  /\ effects = << >>
  /\ session = Idle
  /\ faults = 0

-----------------------------------------------------------------------------
(* Writes.                                                                 *)

Go(step) == session' = [session EXCEPT !.step = step]

\* The append of an event that does not move the record.
Write(event) ==
  /\ journal' = Append(journal, event)
  /\ UNCHANGED <<record, effects, faults>>

\* An event written ahead and then the compare-and-set of the record; the
\* process may die, or the write be refused, in between.
WriteAhead(event, replacement, next) ==
  /\ journal' = Append(journal, event)
  /\ UNCHANGED effects
  /\ \/ /\ record' = replacement
        /\ session' = next
        /\ UNCHANGED faults
     \/ /\ faults < MaxFaults
        /\ faults' = faults + 1
        /\ session' = Idle
        /\ UNCHANGED record

Transitioned(to, node, attempt) ==
  [type |-> "STATE_TRANSITIONED", to |-> to, node |-> node, attempt |-> attempt,
   revision |-> record.revision + 1]

\* EventSourcedStateMachine.transition_to (module StateMachine).
TransitionTo(to, node, attempt, next) ==
  /\ to \in Edges[record.state]
  /\ WriteAhead(Transitioned(to, node, attempt),
                [record EXCEPT !.state = to, !.revision = @ + 1], next)

-----------------------------------------------------------------------------
(* _recover_resume_payload: the journal replayed against the graph.        *)

Outcomes == {"NODE_COMPLETED", "NODE_FAILED"}
Approvals == {"APPROVAL_REQUESTED", "EXECUTION_APPROVED"}

\* Position of the last outcome, 0 before the first; it names the payload too.
LastOutcome(j) == Max(Of(j, Outcomes) \cup {0})

\* Events of the visit that is going on, or just over.
Since(j, types) ==
  LET last == LastOutcome(j) IN {i \in Of(j, types) : i > last}

OpenStart(j) == Since(j, {"NODE_STARTED"}) # {}

\* Where the journal leads, and with which context.
ExpectedNode(j) == IF LastOutcome(j) = 0 THEN Entry ELSE j[LastOutcome(j)].next
ExpectedContext(j) == IF LastOutcome(j) = 0 THEN None ELSE j[LastOutcome(j)].context

\* The attempts of a node that have an outcome.
Concluded(j, node) ==
  Cardinality({i \in Of(j, Outcomes) : j[i].node = node})

NextAttempt(attempts, node, attempt, next) ==
  IF next = node THEN attempt + 1 ELSE attempts[next] + 1

\* _next_retry_context
NextContext(attempts, node, attempt, next, result, context) ==
  CASE result = "retryable" /\ next \in Nodes ->
         [origin |-> node, attempt |-> NextAttempt(attempts, node, attempt, next)]
    [] /\ result = "completed"
       /\ context # None
       /\ context.origin # node
       /\ next \in Nodes ->
         [context EXCEPT !.attempt = NextAttempt(attempts, node, attempt, next)]
    [] OTHER -> None

Edge(node, result) ==
  IF result = "completed" THEN OnSuccess[node] ELSE OnFailure[node]

\* Revisions of mutations follow one another, and the record is at most one behind.
RevisionsFollow(j) ==
  LET mutations == Of(j, Outcomes \cup Approvals \cup {"STATE_TRANSITIONED"})
  IN  \A i \in mutations :
        /\ j[i].revision = Cardinality({k \in mutations : k <= i})
        /\ j[i].revision <= record.revision + 1

StartsFollow(j) ==
  \A i \in Of(j, {"NODE_STARTED"}) :
    LET past == Before(j, i)
    IN  /\ ~ OpenStart(past)
        /\ j[i].node = ExpectedNode(past)
        /\ j[i].attempt = Concluded(past, j[i].node) + 1
        /\ j[i].input = LastOutcome(past)
        /\ j[i].context = ExpectedContext(past)
        /\ j[i].context # None => j[i].context.attempt = j[i].attempt

\* Steps of tools within the open attempt, alternating with their outcomes.
ToolsFollow(j) ==
  \A i \in Of(j, {"TOOL_CALLED", "TOOL_COMPLETED", "TOOL_FAILED"}) :
    LET past == Before(j, i)
        called == Cardinality(Since(past, {"TOOL_CALLED"}))
        ended == Cardinality(Since(past, {"TOOL_COMPLETED", "TOOL_FAILED"}))
    IN  /\ \E k \in Since(past, {"NODE_STARTED"}) :
             j[k].node = j[i].node /\ j[k].attempt = j[i].attempt
        /\ j[i].step = ended + 1
        /\ called = IF j[i].type = "TOOL_CALLED" THEN ended ELSE ended + 1

OutcomesFollow(j) ==
  \A i \in Of(j, Outcomes) :
    LET past == Before(j, i)
        attempts == [n \in Nodes |-> Concluded(past, n)]
    IN  /\ Cardinality(Since(past, {"TOOL_CALLED"}))
             = Cardinality(Since(past, {"TOOL_COMPLETED", "TOOL_FAILED"}))
        /\ j[i].type = "NODE_COMPLETED" <=> j[i].result = "completed"
        /\ j[i].next = Edge(j[i].node, j[i].result)
        /\ \E s \in Since(past, {"NODE_STARTED"}) :
             /\ j[s].node = j[i].node
             /\ j[s].attempt = j[i].attempt
             /\ j[s].input = j[i].input
             /\ j[i].context = NextContext(attempts, j[i].node, j[i].attempt, j[i].next,
                                           j[i].result, j[s].context)

\* The outcome that the record does not show yet.
IsPending(j) ==
  LastOutcome(j) # 0 /\ j[LastOutcome(j)].revision = record.revision + 1

SnapshotAgrees(j) ==
  /\ \A n \in Nodes :
       \/ record.attempts[n] = Concluded(j, n)
       \/ /\ IsPending(j)
          /\ j[LastOutcome(j)].node = n
          /\ record.attempts[n] = Concluded(j, n) - 1
  /\ record.node = IF IsPending(j) THEN j[LastOutcome(j)].node ELSE ExpectedNode(j)

Replays(j) ==
  /\ RevisionsFollow(j)
  /\ StartsFollow(j)
  /\ ToolsFollow(j)
  /\ OutcomesFollow(j)
  /\ SnapshotAgrees(j)

-----------------------------------------------------------------------------
(* A session begins.                                                       *)

\* The transition that the record does not show yet.
PendingTransition ==
  {i \in Of(journal, {"STATE_TRANSITIONED"}) : journal[i].revision = record.revision + 1}

\* state_machine.recover, at the start of every session.
RecoverState ==
  /\ session.step = "idle"
  /\ \E i \in PendingTransition :
       record' = [record EXCEPT !.state = journal[i].to, !.revision = @ + 1]
  /\ UNCHANGED <<journal, effects, session, faults>>

\* execute: from the entrypoint, once.
Execute ==
  /\ session.step = "idle"
  /\ PendingTransition = {}
  /\ record.state \in {"INITIATED", "PLANNING"}
  /\ record.node = Entry
  /\ TransitionTo("EXECUTING", Entry, record.attempts[Entry] + 1, At("loop", 0, None))

\* Mutant of NextRecord: the attempt is not counted.
NextRecordForgets(event) ==
  [record EXCEPT !.revision = event.revision, !.node = event.next]

\* _next_record
NextRecord(event) ==
  [record EXCEPT !.revision = event.revision, !.node = event.next,
                 !.attempts[event.node] = event.attempt]

\* Mutant of Resume: a node without an outcome is run again.
ResumeReopens ==
  /\ session.step = "idle"
  /\ PendingTransition = {}
  /\ record.state = "EXECUTING"
  /\ Replays(journal)
  /\ record' = IF IsPending(journal) THEN NextRecord(journal[LastOutcome(journal)])
               ELSE record
  /\ session' = At("loop", LastOutcome(journal), ExpectedContext(journal))
  /\ UNCHANGED <<journal, effects, faults>>

\* Mutant of Resume: a traversal that had reached a terminal is not taken up.
ResumeNodesOnly ==
  /\ ExpectedNode(journal) \in Nodes
  /\ ~ OpenStart(journal)
  /\ ResumeReopens

\* resume: the pending outcome is applied and the traversal goes on from there.
\* A replay that fails, or an open node, refuses and changes nothing.
Resume ==
  /\ session.step = "idle"
  /\ PendingTransition = {}
  /\ record.state = "EXECUTING"
  /\ Replays(journal)
  /\ ~ OpenStart(journal)
  /\ record' = IF IsPending(journal) THEN NextRecord(journal[LastOutcome(journal)])
               ELSE record
  /\ session' = At("loop", LastOutcome(journal), ExpectedContext(journal))
  /\ UNCHANGED <<journal, effects, faults>>

-----------------------------------------------------------------------------
(* The approval of a human node.                                           *)

Digest(payload) == IF payload = 0 THEN 0 ELSE journal[payload].output

\* _approval_subject_digest: the node and what it is given.  Artifact and configuration
\* of an execution never change.
Subject(node, payload) == [node |-> node, input |-> Digest(payload)]

LatestOf(types) == journal[Max(Of(journal, types))]

Status(event) == IF event.type = "APPROVAL_REQUESTED" THEN "PENDING" ELSE "APPROVED"

\* The approval that the record does not show yet.
PendingApproval ==
  {i \in Of(journal, Approvals) : journal[i].revision = record.revision + 1}

\* What _recover_approval_locked demands: requests and grants take turns, a grant is
\* for what was requested, and the record has the status of the last committed one.
ApprovalHistoryHolds ==
  LET committed == Of(journal, Approvals) \ PendingApproval
  IN  /\ \A i \in Of(journal, Approvals) :
           LET past == {k \in Of(journal, Approvals) : k < i}
               last == journal[Max(past)]
           IN  IF journal[i].type = "APPROVAL_REQUESTED"
               THEN past # {} => Status(last) = "APPROVED"
               ELSE past # {} /\ Status(last) = "PENDING" /\ last.subject = journal[i].subject
      /\ record.approval = IF committed = {} THEN "NOT_REQUIRED"
                           ELSE Status(journal[Max(committed)])

ApprovalShown ==
  [record EXCEPT !.revision = @ + 1,
                 !.approval = Status(LatestOf(Approvals))]

\* _recover_approval_locked, the first thing that every command of the lifecycle does.
RecoverApproval ==
  /\ session.step = "idle"
  /\ PendingApproval # {} /\ ApprovalHistoryHolds
  /\ record' = ApprovalShown
  /\ UNCHANGED <<journal, effects, session, faults>>

\* A command of the lifecycle, once approval and state are recovered.
Recovered ==
  /\ session.step = "idle"
  /\ PendingApproval = {} /\ PendingTransition = {}
  /\ ApprovalHistoryHolds

\* approve of an execution that is paused; the approver does not matter.
Approve ==
  /\ Recovered
  /\ record.state = "PAUSED_AWAITING_APPROVAL"
  /\ record.approval = "PENDING"
  /\ LET request == LatestOf({"APPROVAL_REQUESTED"})
         event == [request EXCEPT !.type = "EXECUTION_APPROVED",
                                  !.revision = record.revision + 1]
     IN  /\ request.subject.node = record.node
         /\ WriteAhead(event, [record EXCEPT !.revision = @ + 1, !.approval = "APPROVED"],
                       Idle)

\* _prepare_resume: a pause that was interrupted is completed; one that was approved ends.
PrepareResume ==
  /\ Recovered
  /\ \/ /\ record.state = "EXECUTING" /\ record.approval = "PENDING"
        /\ record.node \in Humans
        /\ TransitionTo("PAUSED_AWAITING_APPROVAL", record.node,
                        record.attempts[record.node] + 1, Idle)
     \/ /\ record.state = "PAUSED_AWAITING_APPROVAL" /\ record.approval = "APPROVED"
        /\ TransitionTo("EXECUTING", record.node, record.attempts[record.node] + 1, Idle)

-----------------------------------------------------------------------------
(* The loop: from node to node.                                            *)

Node == record.node
Attempt == record.attempts[Node] + 1
Policy == MaxIterations[Node]

InLoop == session.step = "loop" /\ Node \in Nodes
Retrying == session.context # None

\* A node is visited again only within a retry episode (GraphCycleExecutionError).
MayVisit ==
  record.attempts[Node] > 0 => Retrying /\ Policy > 0

\* The context was made for this attempt (RetryContextIntegrityError otherwise).
ContextFits == Retrying => session.context.attempt = Attempt

Exhausted == Retrying /\ Policy > 0 /\ Attempt > Policy

RefuseVisit ==
  /\ InLoop
  /\ ~ MayVisit \/ ~ ContextFits
  /\ session' = Idle
  /\ UNCHANGED <<record, journal, effects, faults>>

ExhaustRetries ==
  /\ InLoop /\ MayVisit /\ ContextFits
  /\ Exhausted
  /\ TransitionTo("FAILED_RETRY_EXHAUSTED", Node, Attempt - 1, Idle)

Visiting == InLoop /\ MayVisit /\ ContextFits /\ ~ Exhausted

\* Mutant of Granted: whatever was approved last.
GrantedOnce == record.approval = "APPROVED"

\* is_approval_granted: the last request and the last grant are for this subject.
Granted ==
  /\ record.approval = "APPROVED"
  /\ \A type \in Approvals : LatestOf({type}).subject = Subject(Node, session.payload)

MayEnter == Node \in Humans => Granted

\* pause_for_approval.  A request that the record did not show means that somebody else
\* paused here: the session raises.
RequestApproval ==
  /\ Visiting /\ ~ MayEnter
  /\ \/ /\ ~ ApprovalHistoryHolds
        /\ session' = Idle
        /\ UNCHANGED <<record, journal, effects, faults>>
     \/ /\ ApprovalHistoryHolds /\ PendingApproval # {}
        /\ record' = ApprovalShown
        /\ session' = Idle
        /\ UNCHANGED <<journal, effects, faults>>
     \/ /\ ApprovalHistoryHolds /\ PendingApproval = {}
        /\ WriteAhead([type |-> "APPROVAL_REQUESTED", node |-> Node,
                       subject |-> Subject(Node, session.payload),
                       revision |-> record.revision + 1],
                      [record EXCEPT !.revision = @ + 1, !.approval = "PENDING"],
                      [session EXCEPT !.step = "asked"])

PauseForApproval ==
  /\ session.step = "asked"
  /\ TransitionTo("PAUSED_AWAITING_APPROVAL", Node, Attempt, Idle)

\* ensure_attempt_available, before NODE_STARTED.
DenyAttempt ==
  /\ Visiting /\ MayEnter
  /\ ~ Fits(journal, Node, "attempt")
  /\ Write(Denial(journal, Node, Attempt, "attempt"))
  /\ Go("denied")

\* _transition_budget_exceeded
ExceedBudget ==
  /\ \/ session.step = "denied"
     \/ /\ session.step \in {"result", "raised"}
        /\ LedgerReplays(journal) /\ IsExceeded(journal)
  /\ TransitionTo("FAILED_BUDGET_EXCEEDED", Node, Attempt, Idle)

StartNode ==
  /\ Visiting /\ MayEnter
  /\ Fits(journal, Node, "attempt")
  /\ Write([type |-> "NODE_STARTED", node |-> Node, attempt |-> Attempt,
            input |-> session.payload, context |-> session.context])
  /\ Go("node")

\* _resolve_terminal with deferred completion; a terminal reached before needs nothing.
ResolveTerminal ==
  /\ session.step = "loop"
  /\ Node \in Terminals
  /\ TransitionTo(IF Outcome[Node] = "success" THEN "VERIFYING" ELSE "FAILED",
                  Node, 0, Idle)

-----------------------------------------------------------------------------
(* A backend that does not call anything the journal knows of.             *)

RunPolicy ==
  /\ session.step = "node"
  /\ Node \notin Agents \cup Humans
  /\ \E r \in Results : session' = [session EXCEPT !.step = "result", !.result = r]
  /\ UNCHANGED <<record, journal, effects, faults>>

\* A human node that was approved has no backend to run.
PassGate ==
  /\ session.step = "node"
  /\ Node \in Humans
  /\ session' = [session EXCEPT !.step = "result", !.result = "completed"]
  /\ UNCHANGED <<record, journal, effects, faults>>

-----------------------------------------------------------------------------
(* ToolLoopExecutor.execute and ModelRouter: the calls of an agent node.   *)

Fail == session' = [session EXCEPT !.step = "result", !.result = "failed"]

\* Mutant of DenyCall: the refusal does not end the loop.
DenyCallGoesOn(kind) ==
  /\ ~ Fits(journal, Node, kind)
  /\ Write(Denial(journal, Node, Attempt, kind))
  /\ Go("node")

\* reserve_model or reserve_tool refuses: the loop fails, the backend says so.
DenyCall(kind) ==
  /\ ~ Fits(journal, Node, kind)
  /\ Write(Denial(journal, Node, Attempt, kind))
  /\ Fail

ReserveCall(kind, step) ==
  /\ Fits(journal, Node, kind)
  /\ Write(Reserved(Node, Attempt, kind))
  /\ session' = [session EXCEPT !.step = step, !.handle = Len(journal) + 1]

ReserveModel ==
  /\ session.step = "node"
  /\ Node \in Agents
  /\ DenyCall("model") \/ ReserveCall("model", "model")

ReserveTool ==
  /\ session.step = "tools"
  /\ DenyCall("tool") \/ ReserveCall("tool", "reserved")

Perform(kind, step) ==
  /\ effects' = Append(effects, [node |-> Node, attempt |-> Attempt, kind |-> kind,
                                 step |-> step])
  /\ UNCHANGED <<record, journal, faults>>

\* The provider is called and answers: content, one or more tool calls, or an error.
CallModel ==
  /\ session.step = "model"
  /\ Perform("model", session.turns + 1)
  /\ \E reply \in Replies, n \in 1 .. MaxToolSteps :
       /\ reply # "calls" => n = 1
       /\ session' = [session EXCEPT !.step = "replied", !.turns = @ + 1,
                                     !.reply = reply, !.wanted = n]

\* What becomes of the answer, when the budget holds.
Interpret ==
  CASE session.reply = "error" -> Fail
    [] session.reply = "unavailable" ->
         IF session.tried + 1 < Candidates
         THEN session' = [session EXCEPT !.step = "node", !.tried = @ + 1]
         ELSE Fail
    [] session.reply = "content" ->
         \E r \in Results :
           session' = [session EXCEPT !.step = "result", !.result = r]
    [] session.reply = "calls" ->
         IF session.tools + session.wanted > MaxToolSteps THEN Fail
         ELSE session' = [session EXCEPT !.step = "tools", !.tried = 0]

\* commit_model or fail_model; an answer over the budget is rejected.
CommitModel ==
  /\ session.step = "replied"
  /\ \E d \in Durations :
       Write(Committed(journal, session.handle,
                       session.reply \in {"content", "calls"}, d))
  /\ IF IsExceeded(journal') THEN Go("overrun") ELSE Interpret

\* The end of _commit: the evidence of the excess, and the replay of the journal with it.
\* Without a dimension, when only another node is over its limit, there is no evidence to
\* write; either way the call to the model fails, and that of a tool stays open
\* (ToolEffectAmbiguousError).
RecordOverrun ==
  LET evidence == Overrun(journal, session.handle)
  IN  /\ session.step = "overrun"
      /\ IF evidence.dimensions = {}
         THEN UNCHANGED <<record, journal, effects, faults>>
         ELSE Write(evidence)
      /\ IF journal[session.handle].kind # "tool" THEN Fail
         ELSE IF evidence.dimensions # {} /\ LedgerReplays(journal') THEN Go("outcome")
         ELSE session' = Idle

ToolEvent(type) ==
  [type |-> type, node |-> Node, attempt |-> Attempt, step |-> session.tools + 1]

\* Mutant of RecordCall: the tool is dispatched before anything is written.
CallUnrecorded ==
  /\ session.step = "reserved"
  /\ Go("called")
  /\ UNCHANGED <<record, journal, effects, faults>>

\* record_call: the write-ahead of the dispatch.
RecordCall ==
  /\ session.step = "reserved"
  /\ Write(ToolEvent("TOOL_CALLED"))
  /\ Go("called")

\* The write-ahead fails, landed or not; the reservation is released and the error raised.
RecordCallFails ==
  /\ session.step = "reserved"
  /\ faults < MaxFaults
  /\ faults' = faults + 1
  /\ \E landed \in {<< >>, <<ToolEvent("TOOL_CALLED")>>} :
       journal' = journal \o landed \o <<Released(journal, session.handle)>>
  /\ Go("raised")
  /\ UNCHANGED <<record, effects>>

\* The tool runs, and succeeds or not.
DispatchTool ==
  /\ session.step = "called"
  /\ Perform("tool", session.tools + 1)
  /\ \E r \in {"completed", "failed"} :
       session' = [session EXCEPT !.step = "dispatched", !.result = r]

CommitTool ==
  /\ session.step = "dispatched"
  /\ \E d \in Durations :
       Write(Committed(journal, session.handle, session.result = "completed", d))
  /\ Go(IF IsExceeded(journal') THEN "overrun" ELSE "outcome")

\* record_outcome, then the next call of the batch, the next turn or the end.
RecordOutcome ==
  /\ session.step = "outcome"
  /\ Write(ToolEvent(IF session.result = "completed" THEN "TOOL_COMPLETED"
                     ELSE "TOOL_FAILED"))
  /\ IF session.result = "failed" \/ IsExceeded(journal)
     THEN Fail
     ELSE session' = [session EXCEPT !.step = IF session.wanted > 1 THEN "tools" ELSE "node",
                                     !.tools = @ + 1, !.wanted = @ - 1]

-----------------------------------------------------------------------------
(* The end of a node.                                                      *)

\* What a node answers; a human node hands on what it was given.
Answers == IF Node \in Humans THEN {Digest(session.payload)} ELSE Outputs[Node]

\* What a node takes is measured until the first event of the budget, then the calls are.
Time == IF Of(journal, BudgetEvents) = {} THEN Durations ELSE {0}

\* The outcome, written ahead of the record.
WriteOutcome(output, duration) ==
  LET next == Edge(Node, session.result)
      context == NextContext(record.attempts, Node, Attempt, next,
                             session.result, session.context)
      event == [type |-> IF session.result = "completed" THEN "NODE_COMPLETED"
                         ELSE "NODE_FAILED",
                node |-> Node, attempt |-> Attempt, input |-> session.payload,
                output |-> output, next |-> next, result |-> session.result,
                context |-> context, duration |-> duration,
                revision |-> record.revision + 1]
  IN  WriteAhead(event, NextRecord(event), At("loop", Len(journal) + 1, context))

\* Mutant of FinishNode: the balance is not looked at once more.
FinishAnyway ==
  /\ session.step = "result"
  /\ LedgerReplays(journal)
  /\ \E output \in Answers, duration \in Time : WriteOutcome(output, duration)

FinishNode ==
  /\ session.step = "result"
  /\ LedgerReplays(journal) /\ ~ IsExceeded(journal)
  /\ \E output \in Answers, duration \in Time : WriteOutcome(output, duration)

\* An exception, out of the backend with budget left or out of the ledger
\* (BudgetIntegrityError): the node stays open.
Raise ==
  /\ \/ session.step = "raised" /\ ~ IsExceeded(journal)
     \/ session.step \in {"result", "raised"} /\ ~ LedgerReplays(journal)
  /\ session' = Idle
  /\ UNCHANGED <<record, journal, effects, faults>>

\* The process dies, or a write or a call it makes raises and the lock is released.
Abort ==
  /\ session.step # "idle"
  /\ faults < MaxFaults
  /\ faults' = faults + 1
  /\ session' = Idle
  /\ UNCHANGED <<record, journal, effects>>

Traverse ==
  \/ RefuseVisit \/ ExhaustRetries \/ RequestApproval \/ PauseForApproval
  \/ DenyAttempt \/ ExceedBudget \/ StartNode
  \/ ResolveTerminal \/ RunPolicy \/ PassGate \/ ReserveModel \/ CallModel \/ CommitModel
  \/ RecordOverrun \/ ReserveTool \/ RecordCall \/ DispatchTool \/ CommitTool
  \/ RecordOutcome \/ FinishNode \/ Raise

\* What the session does next or, when nobody holds the lock, a new session.
Proceed ==
  RecoverState \/ RecoverApproval \/ Execute \/ PrepareResume \/ Resume \/ Traverse

Next == Proceed \/ Approve \/ RecordCallFails \/ Abort

Spec == Init /\ [][Next]_vars

\* A session that holds the lock runs on, and an execution that was interrupted
\* is taken up again; nobody has to approve.
Fairness == WF_vars(Proceed)

FairSpec == Spec /\ Fairness

-----------------------------------------------------------------------------
(* Properties.                                                             *)

\* Types of the record, the session and the calls made.
TypeOK ==
  /\ record \in [state : State, revision : Nat, node : Places,
                 attempts : [Nodes -> Nat],
                 approval : {"NOT_REQUIRED", "PENDING", "APPROVED"}]
  /\ \A i \in DOMAIN journal : journal[i].node \in Places
  /\ \A i \in DOMAIN effects :
       effects[i] \in [node : Agents, attempt : Nat, kind : {"model", "tool"}, step : Nat]
  /\ session.step \in Steps
  /\ session.context \in Contexts
  /\ session.handle \in 0 .. Len(journal)
  /\ faults \in 0 .. MaxFaults

\* A journal that any crash, failed write or refusal leaves behind, with no node
\* open, is accepted by the next resume: _recover_resume_payload never raises on
\* what the executor itself wrote.
ResumeNeverRefuses ==
  (/\ session.step = "idle"
   /\ PendingTransition = {}
   /\ record.state = "EXECUTING"
   /\ ~ OpenStart(journal)) => Replays(journal)

\* Evidence that counts time which the replay has not yet added where it looks at it: it
\* closes the journal of a node that nobody can finish any more.
EvidenceRefused ==
  LET last == Len(journal)
  IN  /\ last \in Of(journal, {"BUDGET_EXCEEDED"})
      /\ LedgerReplays(Before(journal, last))
      /\ Elapsed(journal, "execution") > 0
      /\ OpenStart(journal)
      /\ session.step \in {"result", "idle"}

\* The strict replay of BudgetLedger, which every boundary call starts with,
\* accepts every journal that the executor, the tool loop and the boundary
\* write together, but for an excess to which nodes contributed that called nothing.
LedgerRefusesEvidenceOnly == LedgerReplays(journal) \/ EvidenceRefused

\* Two requests without a grant in between.
RequestRepeated ==
  \E i, k \in Of(journal, {"APPROVAL_REQUESTED"}) :
    i < k /\ \A m \in i + 1 .. k - 1 : journal[m].type # "EXECUTION_APPROVED"

\* The history of approvals, which every command reads first, is accepted unless a request
\* was repeated; and that takes a session that died between its request and its pause,
\* with a resume that had looked at the execution before.
ApprovalsNeverRefuse ==
  /\ RequestRepeated \/ ApprovalHistoryHolds
  /\ RequestRepeated => faults > 0

\* The three strict readers of the journal, the resume of the graph, the ledger of the
\* budget and the recovery of approvals, accept whatever the executor, the tool loop, the
\* boundary and the approvers leave behind, with the exceptions that each of them names.
ReadersAccept == ResumeNeverRefuses /\ LedgerRefusesEvidenceOnly /\ ApprovalsNeverRefuse

\* Every call of the model or of a tool was reserved first, every tool call written
\* ahead under its step; a call whose cost is not known keeps its reservation, and
\* that keeps its node open, so that nothing runs on an unknown balance.
CallsAreAccounted ==
  /\ \A kind \in {"model", "tool"} :
       LET made == {i \in DOMAIN effects : effects[i].kind = kind}
           known == {i \in Of(journal, {"BUDGET_COMMITTED"}) : journal[i].kind = kind}
           unknown == {i \in Active(journal) : journal[i].kind = kind}
       IN  Cardinality(made) \in
             Cardinality(known) .. Cardinality(known) + Cardinality(unknown)
  /\ \A i \in DOMAIN effects :
       effects[i].kind = "tool" =>
         \E k \in Of(journal, {"TOOL_CALLED"}) :
           /\ journal[k].node = effects[i].node
           /\ journal[k].attempt = effects[i].attempt
           /\ journal[k].step = effects[i].step
  /\ \A i \in Active(journal) : i > LastOutcome(journal) /\ OpenStart(journal)

\* Attempts and tool calls, with those reserved, never pass a limit of the execution
\* or of a node; the duration, known only afterwards, was still below it, with the time of
\* earlier nodes that called nothing, when the last call was made.
LimitsHold ==
  \A s \in Scopes :
    LET held == {i \in Active(journal) : Within(journal[i], s) /\ journal[i].kind = "tool"}
        commits == {i \in Of(journal, {"BUDGET_COMMITTED"}) : Within(journal[i], s)}
        used == Usage(journal, s)
    IN  /\ used.attempts <= Limit[s].attempts
        /\ used.tool_calls + Cardinality(held) <= Limit[s].tool_calls
        /\ commits # {} =>
             Usage(Before(journal, Max(commits)), s).duration_ms < Limit[s].duration_ms

\* Record, journal and session are of their types; the journal accounts for everything
\* that was done to the outside, and what it accounts for is within the limits.
AccountInv == TypeOK /\ CallsAreAccounted /\ LimitsHold

\* An excess that came with the last outcome, of a node that took longer than its own limit
\* before there was any call: the next node does not look at it before its first result.
ExcessUnnoticed ==
  /\ ~ IsExceeded(Before(journal, LastOutcome(journal)))
  /\ Of(journal, {"BUDGET_COMMITTED", "BUDGET_EXCEEDED"}) = {}
  /\ \A d \in Dimensions, s \in {"execution", record.node} :
       <<s, d>> \notin ExceededDimensions(journal)

\* Once the journal shows an excess, no node is started, nothing is reserved and
\* nothing is called, by this session or by one that resumes after a crash, unless the
\* excess is unnoticed: then the next node may start and make its first call.
NothingAfterExcess ==
  [][IsExceeded(journal) /\ ~ ExcessUnnoticed =>
       /\ effects' = effects
       /\ \A i \in DOMAIN journal' \ DOMAIN journal :
            journal'[i].type \notin {"NODE_STARTED", "BUDGET_RESERVED", "TOOL_CALLED"}]_vars

\* A node that starts again does so for a retryable failure that its origin has not
\* made good since, in the attempt after its last one.
RetriesHaveReason ==
  \A i \in Of(journal, {"NODE_STARTED"}) :
    journal[i].attempt > 1 =>
      \E k \in Of(Before(journal, i), {"NODE_FAILED"}) :
        /\ journal[k].result = "retryable"
        /\ journal[k].node = journal[i].context.origin
        /\ \A m \in k .. i : ~ (/\ journal[m].type = "NODE_COMPLETED"
                               /\ journal[m].node = journal[k].node)

\* The state in which the traversal ends is the one that the journal gives reason for:
\* verification after a successful terminal, failure after the other, neither of them over
\* the budget, which has a state of its own, but for the time of the last node where nothing
\* was called at all; and exhausted retries only when the policy of the node where it
\* stands is used up.
EndIsEarned ==
  /\ record.state \in {"VERIFYING", "FAILED"} =>
       /\ ~ IsExceeded(Before(journal, LastOutcome(journal)))
       /\ Of(journal, BudgetEvents) # {} => ~ IsExceeded(journal)
       /\ ~ OpenStart(journal)
       /\ ExpectedNode(journal) \in Terminals
       /\ Outcome[ExpectedNode(journal)] = "success" <=> record.state = "VERIFYING"
  /\ record.state = "FAILED_BUDGET_EXCEEDED" => IsExceeded(journal)
  /\ record.state = "FAILED_RETRY_EXHAUSTED" =>
       /\ ExpectedContext(journal) # None
       /\ Concluded(journal, record.node) = MaxIterations[record.node]

\* A human node is passed only on a grant for this node and for exactly what it is given
\* now, after which nothing else was asked for; and it hands on what was approved.
GatesAreApproved ==
  \A i \in Of(journal, {"NODE_STARTED", "NODE_COMPLETED"}) :
    journal[i].node \in Humans =>
      /\ \E g \in Of(Before(journal, i), {"EXECUTION_APPROVED"}) :
           /\ journal[g].subject = Subject(journal[i].node, journal[i].input)
           /\ \A m \in g .. i : journal[m].type # "APPROVAL_REQUESTED"
      /\ journal[i].type = "NODE_COMPLETED" => journal[i].output = Digest(journal[i].input)

\* Every visit after the first, every passage of a human node and the end have their
\* reason in the journal.
MovesAreEarned == RetriesHaveReason /\ GatesAreApproved /\ EndIsEarned

Final == {"VERIFYING", "FAILED", "FAILED_BUDGET_EXCEEDED", "FAILED_RETRY_EXHAUSTED"}

\* Where the traversal would need a retry context that it does not have.
RevisitRefused ==
  /\ ExpectedNode(journal) \in Nodes
  /\ Concluded(journal, ExpectedNode(journal)) > 0
  /\ ExpectedContext(journal) = None \/ MaxIterations[ExpectedNode(journal)] = 0

\* An execution that is taken up again after each interruption comes to its end, or
\* stands for good at an open node or at a revisit without a context, or waits for an
\* approver: it is never left in between.
ComesToAnEnd ==
  <>[](\/ record.state \in Final
       \/ OpenStart(journal)
       \/ RevisitRefused
       \/ /\ record.state = "PAUSED_AWAITING_APPROVAL"
          /\ record.approval = "PENDING"
       \/ RequestRepeated)

\* Visits of a node, with or without an outcome.
Visits(n) == Cardinality({i \in Of(journal, {"NODE_STARTED"}) : journal[i].node = n})

Walk == INSTANCE Traversal WITH
  at <- ExpectedNode(journal),
  visiting <- OpenStart(journal),
  attempts <- [n \in Nodes |-> Visits(n)],
  done <- effects

\* The journal and the calls made walk the graph as Traversal promises: no attempt is
\* run twice, no call repeated, no edge skipped, whatever is interrupted and resumed.
ImplementsTraversal == Walk!WalkSpec
=============================================================================
