------------------------ MODULE GraphReadersProofs ------------------------
(***************************************************************************)
(* What the executor wrote is read back, and every move has its reason,    *)
(* for every graph, policy and limit, however often it is interrupted.     *)
(*                                                                         *)
(* A third inductive invariant, on top of the two of GraphExecutorProofs:  *)
(* visits, tool calls, calls and revisions are in the order that the       *)
(* readers of the journal demand, an approval is shown as it was given,    *)
(* and the record is one revision behind at most.  The one journal that    *)
(* its ledger refuses, evidence with time that replay adds too late, is    *)
(* closed: nothing writes to it any more.                                  *)
(***************************************************************************)
EXTENDS GraphExecutorProofs

-----------------------------------------------------------------------------
(* What the readers of the journal rely on: more inductive invariants.     *)

ToolEnds == {"TOOL_COMPLETED", "TOOL_FAILED"}
ToolEvents == ToolEnds \cup {"TOOL_CALLED"}

\* A session knows what it is given, and the visit that it is in.
LoopInv ==
  /\ StartsFollow(journal)
  /\ session.step # "idle" =>
       /\ record.state = "EXECUTING"
       /\ session.payload = LastOutcome(journal)
       /\ session.context = ExpectedContext(journal)
  /\ session.step \in Inside =>
       \E s \in Since(journal, {"NODE_STARTED"}) :
         /\ journal[s].node = Node /\ journal[s].attempt = Attempt
         /\ journal[s].input = session.payload /\ journal[s].context = session.context

\* The tool calls of the visit, and those that have an outcome.
Called(j) == Cardinality(Since(j, {"TOOL_CALLED"}))
Ended(j) == Cardinality(Since(j, ToolEnds))

\* Places where a tool call is waiting for its outcome, and where none is.
OverTool == session.step = "overrun" /\ journal[session.handle].kind = "tool"
Waiting == session.step \in {"called", "dispatched", "outcome"} \/ OverTool
InTurn == session.step \in {"node", "model", "replied", "tools", "reserved"}

\* Tool calls and their outcomes take turns within a visit.
ToolInv ==
  /\ ToolsFollow(journal) /\ OutcomesFollow(journal)
  /\ ~ OpenStart(journal) => Since(journal, ToolEvents) = {}
  /\ InTurn => Called(journal) = session.tools /\ Ended(journal) = session.tools
  /\ Waiting => Called(journal) = session.tools + 1 /\ Ended(journal) = session.tools
  /\ session.step = "result" \/ (session.step = "overrun" /\ ~ OverTool) =>
       Called(journal) = Ended(journal)

\* A call is dispatched and settled under the reservation that the session holds.
DispatchInv ==
  /\ \A i \in Of(journal, {"NODE_STARTED"}) :
       journal[i].attempt <= VisitsIn(journal, journal[i].node)
  /\ session.step \in Holding \cup {"overrun"} =>
       journal[session.handle].node = Node /\ journal[session.handle].attempt = Attempt
  /\ session.step = "overrun" =>
       \E k \in Of(journal, {"BUDGET_COMMITTED"}) :
         /\ journal[k].reservation = session.handle
         /\ SameOperation(journal[k], journal[session.handle])
  /\ session.step = "reserved" =>
       \A k \in Of(journal, {"TOOL_CALLED"}) : k < session.handle
  /\ Waiting =>
       \E c \in Of(journal, {"TOOL_CALLED"}) :
         /\ journal[c].node = Node /\ journal[c].attempt = Attempt
         /\ journal[c].step = session.tools + 1
         /\ session.handle \in Active(Before(journal, c))
  /\ session.step = "outcome" \/ OverTool =>
       \E k \in Of(journal, {"BUDGET_COMMITTED"}) :
         /\ journal[k].reservation = session.handle
         /\ journal[k].succeeded = (session.result = "completed")

\* Events that move the record, each with the revision that it brings.
Mutations == Outcomes \cup Approvals \cup {"STATE_TRANSITIONED"}
Mutated(j) == Cardinality(Of(j, Mutations))
Ranked(j) ==
  \A i \in Of(j, Mutations) :
    j[i].revision = Cardinality({k \in Of(j, Mutations) : k <= i})

\* What is known while an event e is written ahead of the record.
Awaits(e) ==
  /\ e.type \in Outcomes =>
       /\ session.step = "idle" /\ record.state = "EXECUTING" /\ record.node = e.node
       /\ \A n \in Nodes :
            record.attempts[n] =
              IF n = e.node THEN Concluded(journal, n) - 1 ELSE Concluded(journal, n)
       /\ e.node \in Humans => record.approval = "APPROVED"
  /\ e.type \notin Outcomes => UpToDate
  /\ e.type = "APPROVAL_REQUESTED" =>
       /\ session.step \in {"idle", "loop"} /\ record.state = "EXECUTING"
       /\ Node \in Humans /\ e.subject = Subject(Node, LastOutcome(journal))
       /\ ExpectedContext(journal) # None /\ Policy > 0 => Attempt <= Policy
       /\ record.approval = "APPROVED" => LatestOf({"EXECUTION_APPROVED"}).subject # e.subject
  /\ e.type = "EXECUTION_APPROVED" =>
       session.step = "idle" /\ record.state = "PAUSED_AWAITING_APPROVAL"
  /\ e.type = "STATE_TRANSITIONED" => session.step = "idle"

Settled == Mutated(journal) = record.revision
Ahead(i) ==
  /\ i \in Of(journal, Mutations) /\ \A k \in Of(journal, Mutations) : k <= i
  /\ Mutated(journal) = record.revision + 1
  /\ faults > 0
  /\ Awaits(journal[i])

\* The record is one revision behind at most, and then it is known what it lacks.
RevisionInv ==
  /\ Ranked(journal)
  /\ Settled \/ \E i \in DOMAIN journal : Ahead(i)
  /\ Settled => UpToDate
  /\ session.step \notin {"idle", "loop"} => Settled

\* A journal that the ledger refuses is closed: the node that its evidence is about is open
\* and nobody finishes it, and the record lacks nothing that a command would write.
Closed ==
  /\ EvidenceRefused
  /\ record.state = "EXECUTING" /\ Node \in Agents
  /\ PendingTransition = {} /\ PendingApproval = {}

ReplayInv == LedgerReplays(journal) \/ Closed

\* Requests and grants take turns.
Turns(j) ==
  \A i \in Of(j, Approvals) :
    LET past == {k \in Of(j, Approvals) : k < i}
        last == j[Max(past)]
    IN  IF j[i].type = "APPROVAL_REQUESTED"
        THEN past # {} => Status(last) = "APPROVED"
        ELSE past # {} /\ Status(last) = "PENDING" /\ last.subject = j[i].subject

\* The record has the status of the last approval that is committed.
ApprovalIsShown ==
  LET committed == Of(journal, Approvals) \ PendingApproval
  IN  record.approval = IF committed = {} THEN "NOT_REQUIRED"
                        ELSE Status(journal[Max(committed)])

\* An approval is asked for twice only after a fault between request and pause.
ApprovalInv ==
  /\ RequestRepeated \/ Turns(journal)
  /\ RequestRepeated => faults > 0
  /\ ApprovalIsShown
  /\ record.state \in Fresh => Of(journal, Approvals) = {}
  /\ record.approval = "PENDING" /\ record.state = "EXECUTING" /\ session.step # "asked" =>
       faults > 0

\* What an output of the journal j contains, 0 for the initial input.
Digested(j, p) == IF p = 0 THEN 0 ELSE j[p].output

\* A grant for the node and what it is given, with no request after it.
Approved(j, node, input) ==
  \E g \in Of(j, {"EXECUTION_APPROVED"}) :
    /\ j[g].subject = [node |-> node, input |-> Digested(j, input)]
    /\ \A m \in Of(j, {"APPROVAL_REQUESTED"}) : m < g

GateInv ==
  /\ GatesAreApproved
  /\ session.step \in Inside /\ Node \in Humans =>
       /\ record.approval = "APPROVED"
       /\ Approved(journal, Node, session.payload)

\* A context stands for a failure that its origin has not made good since, and a policy
\* bounds the visits.
RetryInv ==
  /\ RetriesHaveReason
  /\ ExpectedContext(journal) # None =>
       \E k \in Of(journal, {"NODE_FAILED"}) :
         /\ journal[k].result = "retryable"
         /\ journal[k].node = ExpectedContext(journal).origin
         /\ \A m \in DOMAIN journal :
              m >= k => ~ (journal[m].type = "NODE_COMPLETED" /\ journal[m].node = journal[k].node)
  /\ \A n \in Nodes : MaxIterations[n] > 0 => VisitsIn(journal, n) <= MaxIterations[n]

\* The last visit ended within the budget, as far as it was known before the outcome.
EndedWithin(j) == ~ IsExceeded(Before(j, LastOutcome(j)))

\* What an end of the traversal has behind it.
Earned(state) ==
  /\ state \in {"VERIFYING", "FAILED"} =>
       /\ Of(journal, BudgetEvents) # {} => ~ IsExceeded(journal)
       /\ ~ OpenStart(journal)
       /\ ExpectedNode(journal) \in Terminals
       /\ Outcome[ExpectedNode(journal)] = "success" <=> state = "VERIFYING"
  /\ state = "FAILED_BUDGET_EXCEEDED" => IsExceeded(journal)
  /\ state = "FAILED_RETRY_EXHAUSTED" =>
       /\ ExpectedContext(journal) # None
       /\ Concluded(journal, record.node) = MaxIterations[record.node]

EndInv ==
  /\ EndedWithin(journal)
  /\ Earned(record.state)
  /\ \A i \in PendingTransition : Earned(journal[i].to)
  /\ session.step = "denied" => IsExceeded(journal)

ReaderInv ==
  /\ LoopInv /\ ToolInv /\ DispatchInv /\ RevisionInv /\ ReplayInv
  /\ ApprovalInv /\ GateInv /\ RetryInv /\ EndInv

-----------------------------------------------------------------------------
(* One event more, seen from each position.                                *)

IsJournal(j) == \E S : j \in Seq(S)

\* What comes before a position is a journal too.
LEMMA BeforeFacts ==
  ASSUME NEW j, IsJournal(j), NEW i \in DOMAIN j
  PROVE  /\ IsJournal(Before(j, i)) /\ DOMAIN Before(j, i) = 1 .. i - 1
         /\ Len(Before(j, i)) = i - 1 /\ i \in Nat /\ i \in 1 .. Len(j)
         /\ \A k \in DOMAIN Before(j, i) : k \in DOMAIN j /\ k < i /\ Before(j, i)[k] = j[k]
<1>1. PICK S : j \in Seq(S)
  BY DEF IsJournal
<1>2. Len(j) \in Nat /\ DOMAIN j = 1 .. Len(j) /\ i \in 1 .. Len(j)
  BY <1>1
<1>3. 1 \in 1 .. Len(j) + 1 /\ i - 1 \in 0 .. Len(j)
  BY <1>2
<1>4. /\ Before(j, i) \in Seq(S) /\ Len(Before(j, i)) = i - 1
      /\ \A k \in 1 .. i - 1 : Before(j, i)[k] = j[k]
  BY <1>1, <1>2, <1>3, SubSeqProperties DEF Before
<1>5. DOMAIN Before(j, i) = 1 .. i - 1
  BY <1>4
<1> QED
  BY <1>2, <1>4, <1>5 DEF IsJournal

\* The event that is appended has the whole journal before it, the others what they had.
LEMMA Grown ==
  ASSUME NEW j, IsJournal(j), NEW e
  PROVE  /\ IsJournal(Append(j, e)) /\ Len(j) \in Nat
         /\ Len(Append(j, e)) = Len(j) + 1
         /\ DOMAIN j = 1 .. Len(j) /\ DOMAIN Append(j, e) = 1 .. Len(j) + 1
         /\ \A i \in DOMAIN j : Append(j, e)[i] = j[i]
         /\ Append(j, e)[Len(j) + 1] = e
         /\ \A i \in DOMAIN j : Before(Append(j, e), i) = Before(j, i)
         /\ Before(Append(j, e), Len(j) + 1) = j
         /\ \E S : j \in Seq(S) /\ e \in S
<1>1. PICK S0 : j \in Seq(S0)
  BY DEF IsJournal
<1> DEFINE S == S0 \cup {e}
<1>2. j \in Seq(S) /\ e \in S
  BY <1>1, SeqMonotonic
<1> HIDE DEF S
<1>3. /\ Append(j, e) \in Seq(S) /\ Len(Append(j, e)) = Len(j) + 1
      /\ DOMAIN Append(j, e) = 1 .. Len(j) + 1 /\ DOMAIN j = 1 .. Len(j)
      /\ Len(j) \in Nat
      /\ \A i \in 1 .. Len(j) : Append(j, e)[i] = j[i]
      /\ Append(j, e)[Len(j) + 1] = e
  BY <1>2, AppendFacts
<1>4. \A i \in DOMAIN j : i \in DOMAIN Append(j, e) /\ Append(j, e)[i] = j[i]
  BY <1>3
<1>5. ASSUME NEW i \in DOMAIN j PROVE Before(Append(j, e), i) = Before(j, i)
  BY <1>2, <1>3, <1>4, BeforeStays
<1>6. Before(Append(j, e), Len(j) + 1) = j
  BY <1>2, BeforeLast
<1> QED
  BY <1>2, <1>3, <1>4, <1>5, <1>6 DEF IsJournal

\* A new position is an old one of its type, or the last.
LEMMA NewPosition ==
  ASSUME NEW j, IsJournal(j), NEW e, NEW types, NEW i \in Of(Append(j, e), types)
  PROVE  \/ i \in Of(j, types) /\ i \in DOMAIN j /\ Append(j, e)[i] = j[i]
         \/ i = Len(j) + 1 /\ e.type \in types /\ Append(j, e)[i] = e
<1>1. /\ DOMAIN j = 1 .. Len(j) /\ DOMAIN Append(j, e) = 1 .. Len(j) + 1 /\ Len(j) \in Nat
      /\ \A k \in DOMAIN j : Append(j, e)[k] = j[k]
      /\ Append(j, e)[Len(j) + 1] = e
  BY Grown
<1>2. i \in DOMAIN Append(j, e) /\ Append(j, e)[i].type \in types
  BY DEF Of
<1>3. CASE i \in DOMAIN j
  BY <1>1, <1>2, <1>3 DEF Of
<1>4. CASE i = Len(j) + 1
  BY <1>1, <1>2, <1>4
<1> QED
  BY <1>1, <1>2, <1>3, <1>4

\* The positions of a type, with one event more.
LEMMA OfGrown ==
  ASSUME NEW j, IsJournal(j), NEW e, NEW types
  PROVE  /\ Of(Append(j, e), types) =
              IF e.type \in types THEN Of(j, types) \cup {Len(j) + 1} ELSE Of(j, types)
         /\ Of(j, types) \subseteq DOMAIN j /\ Of(j, types) \subseteq 1 .. Len(j)
         /\ IsFiniteSet(Of(j, types))
<1>1. PICK S : j \in Seq(S) /\ e \in S
  BY Grown
<1>2. Of(j, types) \subseteq DOMAIN j
  BY DEF Of
<1> QED
  BY <1>1, <1>2, OfGrows

\* The positions of a type in the visit that is going on, or was last.
LEMMA SinceGrown ==
  ASSUME NEW j, IsJournal(j), NEW e, NEW types
  PROVE  /\ IsFiniteSet(Since(j, types)) /\ Cardinality(Since(j, types)) \in Nat
         /\ Since(j, types) \subseteq DOMAIN j /\ Len(j) + 1 \notin Since(j, types)
         /\ LastOutcome(j) \in 0 .. Len(j)
         /\ e.type \in Outcomes => Since(Append(j, e), types) = {}
         /\ e.type \notin Outcomes =>
              Since(Append(j, e), types) =
                IF e.type \in types THEN Since(j, types) \cup {Len(j) + 1} ELSE Since(j, types)
         /\ e.type \notin Outcomes =>
              Cardinality(Since(Append(j, e), types)) =
                IF e.type \in types THEN Cardinality(Since(j, types)) + 1
                ELSE Cardinality(Since(j, types))
<1>1. PICK S : j \in Seq(S) /\ e \in S
  BY Grown
<1>2. /\ Of(Append(j, e), types) =
           IF e.type \in types THEN Of(j, types) \cup {Len(j) + 1} ELSE Of(j, types)
      /\ Of(j, types) \subseteq 1 .. Len(j) /\ IsFiniteSet(Of(j, types))
      /\ DOMAIN j = 1 .. Len(j) /\ Len(j) \in Nat
  BY OfGrown, Grown
<1>3. /\ LastOutcome(j) \in 0 .. Len(j)
      /\ LastOutcome(Append(j, e)) =
           IF e.type \in Outcomes THEN Len(j) + 1 ELSE LastOutcome(j)
  BY <1>1, LastOutcomeIs, WalkGrows
<1>4. /\ Since(j, types) \subseteq Of(j, types)
      /\ \A i : i \in Since(j, types) <=> i \in Of(j, types) /\ i > LastOutcome(j)
      /\ \A i : i \in Since(Append(j, e), types) <=>
                  i \in Of(Append(j, e), types) /\ i > LastOutcome(Append(j, e))
  BY DEF Since
<1>5. /\ IsFiniteSet(Since(j, types)) /\ Cardinality(Since(j, types)) \in Nat
      /\ Since(j, types) \subseteq DOMAIN j /\ Len(j) + 1 \notin Since(j, types)
  <2>1. IsFiniteSet(Since(j, types))
    BY <1>2, <1>4, FS_Subset
  <2> QED
    BY <1>2, <1>4, <2>1, FS_CardinalityType
<1>6. ASSUME e.type \in Outcomes PROVE Since(Append(j, e), types) = {}
  <2>1. LastOutcome(Append(j, e)) = Len(j) + 1
    BY <1>3, <1>6
  <2>2. \A i \in Of(Append(j, e), types) : i \in 1 .. Len(j) + 1
    BY <1>2
  <2>3. \A i : i \notin Since(Append(j, e), types)
    BY <1>2, <1>4, <2>1, <2>2
  <2> QED
    BY <2>3
<1>7. ASSUME e.type \notin Outcomes
      PROVE  Since(Append(j, e), types) =
               IF e.type \in types THEN Since(j, types) \cup {Len(j) + 1} ELSE Since(j, types)
  <2>1. LastOutcome(Append(j, e)) = LastOutcome(j) /\ Len(j) + 1 > LastOutcome(j)
    BY <1>2, <1>3, <1>7
  <2>2. CASE e.type \in types
    <3>1. \A i : i \in Since(Append(j, e), types) <=> i \in Since(j, types) \cup {Len(j) + 1}
      BY <1>2, <1>4, <2>1, <2>2
    <3> QED
      BY <2>2, <3>1
  <2>3. CASE e.type \notin types
    <3>1. \A i : i \in Since(Append(j, e), types) <=> i \in Since(j, types)
      BY <1>2, <1>4, <2>1, <2>3
    <3> QED
      BY <2>3, <3>1
  <2> QED
    BY <2>2, <2>3
<1>8. Cardinality(Since(j, types) \cup {Len(j) + 1}) = Cardinality(Since(j, types)) + 1
  BY <1>5, FS_AddElement
<1>9. e.type \notin Outcomes =>
        Cardinality(Since(Append(j, e), types)) =
          IF e.type \in types THEN Cardinality(Since(j, types)) + 1
          ELSE Cardinality(Since(j, types))
  BY <1>7, <1>8
<1> QED
  BY <1>3, <1>5, <1>6, <1>7, <1>9

-----------------------------------------------------------------------------
(* Which steps write what, and what becomes of the session.                *)

Transit == Execute \/ PrepareResume \/ ExhaustRetries \/ PauseForApproval \/ ExceedBudget
             \/ ResolveTerminal

\* A step that appends the event e.
Writes(e) ==
  /\ journal' = Append(journal, e)
  /\ \/ e.type = "NODE_STARTED" /\ StartNode
     \/ e.type \in Outcomes /\ FinishNode
     \/ e.type = "TOOL_CALLED" /\ RecordCall
     \/ e.type \in ToolEnds /\ RecordOutcome
     \/ e.type = "BUDGET_RESERVED" /\ (ReserveModel \/ ReserveTool)
     \/ e.type = "BUDGET_COMMITTED" /\ (CommitModel \/ CommitTool)
     \/ e.type = "BUDGET_EXCEEDED"
          /\ (RecordOverrun \/ DenyAttempt \/ ReserveModel \/ ReserveTool)
     \/ e.type = "APPROVAL_REQUESTED" /\ RequestApproval
     \/ e.type = "EXECUTION_APPROVED" /\ Approve
     \/ e.type = "STATE_TRANSITIONED" /\ Transit

\* A call is reserved or denied.
LEMMA ReserveWrites ==
  ASSUME ReserveModel \/ ReserveTool PROVE \E e : Writes(e)
<1>1. PICK kind : DenyCall(kind) \/ \E step : ReserveCall(kind, step)
  BY DEF ReserveModel, ReserveTool
<1>2. CASE DenyCall(kind)
  <2> DEFINE e == Denial(journal, Node, Attempt, kind)
  <2>1. journal' = Append(journal, e) /\ e.type = "BUDGET_EXCEEDED"
    BY <1>2, DenialIs DEF DenyCall, Write
  <2> HIDE DEF e
  <2> QED
    BY <2>1 DEF Writes
<1>3. ASSUME NEW step, ReserveCall(kind, step) PROVE \E e : Writes(e)
  <2> DEFINE e == Reserved(Node, Attempt, kind)
  <2>1. journal' = Append(journal, e) /\ e.type = "BUDGET_RESERVED"
    BY <1>3 DEF ReserveCall, Write, Reserved
  <2> HIDE DEF e
  <2> QED
    BY <2>1 DEF Writes
<1> QED
  BY <1>1, <1>2, <1>3

\* A transition is written ahead.
LEMMA TransitWrites ==
  ASSUME Transit PROVE \E e : Writes(e)
<1>1. PICK to, node, attempt, next : TransitionTo(to, node, attempt, next)
  BY DEF Transit, Execute, PrepareResume, ExhaustRetries, PauseForApproval, ExceedBudget,
         ResolveTerminal
<1> DEFINE e == Transitioned(to, node, attempt)
<1>2. journal' = Append(journal, e) /\ e.type = "STATE_TRANSITIONED"
  BY <1>1 DEF TransitionTo, WriteAhead, Transitioned
<1> HIDE DEF e
<1> QED
  BY <1>2 DEF Writes

\* The other steps that write one event.
LEMMA OneWrites ==
  ASSUME \/ StartNode \/ FinishNode \/ RecordCall \/ RecordOutcome \/ CommitModel
         \/ CommitTool \/ (RecordOverrun /\ journal' # journal) \/ DenyAttempt \/ Approve
  PROVE  \E e : Writes(e)
<1>1. CASE StartNode
  <2> DEFINE e == [type |-> "NODE_STARTED", node |-> Node, attempt |-> Attempt,
                   input |-> session.payload, context |-> session.context]
  <2>1. journal' = Append(journal, e) /\ e.type = "NODE_STARTED"
    BY <1>1 DEF StartNode, Write
  <2> HIDE DEF e
  <2> QED
    BY <1>1, <2>1 DEF Writes
<1>2. CASE FinishNode
  <2>1. PICK output, duration : WriteOutcome(output, duration)
    BY <1>2 DEF FinishNode
  <2> DEFINE next == Edge(Node, session.result)
             context == NextContext(record.attempts, Node, Attempt, next,
                                    session.result, session.context)
  <2> HIDE DEF context
  <2> DEFINE e == [type |-> IF session.result = "completed" THEN "NODE_COMPLETED"
                            ELSE "NODE_FAILED",
                   node |-> Node, attempt |-> Attempt, input |-> session.payload,
                   output |-> output, next |-> next, result |-> session.result,
                   context |-> context, duration |-> duration,
                   revision |-> record.revision + 1]
  <2>2. journal' = Append(journal, e) /\ e.type \in Outcomes
    BY <2>1 DEF WriteOutcome, WriteAhead, Outcomes, context
  <2> HIDE DEF e
  <2> QED
    BY <1>2, <2>2 DEF Writes
<1>3. CASE RecordCall
  <2>1. journal' = Append(journal, ToolEvent("TOOL_CALLED"))
        /\ ToolEvent("TOOL_CALLED").type = "TOOL_CALLED"
    BY <1>3 DEF RecordCall, Write, ToolEvent
  <2> QED
    BY <1>3, <2>1 DEF Writes
<1>4. CASE RecordOutcome
  <2>1. PICK type \in ToolEnds : Write(ToolEvent(type))
    BY <1>4 DEF RecordOutcome, ToolEnds
  <2>2. journal' = Append(journal, ToolEvent(type)) /\ ToolEvent(type).type \in ToolEnds
    BY <2>1 DEF Write, ToolEvent
  <2> QED
    BY <1>4, <2>2 DEF Writes
<1>5. CASE CommitModel \/ CommitTool
  <2>1. PICK succeeded, d : Write(Committed(journal, session.handle, succeeded, d))
    BY <1>5 DEF CommitModel, CommitTool
  <2> DEFINE e == Committed(journal, session.handle, succeeded, d)
  <2>2. journal' = Append(journal, e) /\ e.type = "BUDGET_COMMITTED"
    BY <2>1 DEF Write, Committed
  <2> HIDE DEF e
  <2> QED
    BY <1>5, <2>2 DEF Writes
<1>6. CASE RecordOverrun /\ journal' # journal
  <2> DEFINE e == Overrun(journal, session.handle)
  <2>1. journal' = Append(journal, e) /\ e.type = "BUDGET_EXCEEDED"
    BY <1>6 DEF RecordOverrun, Write, Overrun, Evidence
  <2> HIDE DEF e
  <2> QED
    BY <1>6, <2>1 DEF Writes
<1>7. CASE DenyAttempt
  <2> DEFINE e == Denial(journal, Node, Attempt, "attempt")
  <2>1. journal' = Append(journal, e) /\ e.type = "BUDGET_EXCEEDED"
    BY <1>7, DenialIs DEF DenyAttempt, Write
  <2> HIDE DEF e
  <2> QED
    BY <1>7, <2>1 DEF Writes
<1>8. CASE Approve
  <2> DEFINE request == LatestOf({"APPROVAL_REQUESTED"})
             e == [request EXCEPT !.type = "EXECUTION_APPROVED",
                                  !.revision = record.revision + 1]
  <2>1. journal' = Append(journal, e)
    BY <1>8 DEF Approve, WriteAhead
  <2>2. e.type = "EXECUTION_APPROVED"
    OBVIOUS
  <2> HIDE DEF e
  <2> QED
    BY <1>8, <2>1, <2>2 DEF Writes
<1> QED
  BY <1>1, <1>2, <1>3, <1>4, <1>5, <1>6, <1>7, <1>8

\* A step writes nothing, one event, or releases what it could not write ahead for.
LEMMA StepWrites ==
  ASSUME Next PROVE journal' = journal \/ RecordCallFails \/ \E e : Writes(e)
<1>1. CASE Transit
  BY <1>1, TransitWrites
<1>2. CASE ReserveModel \/ ReserveTool
  BY <1>2, ReserveWrites
<1>3. CASE \/ StartNode \/ FinishNode \/ RecordCall \/ RecordOutcome \/ CommitModel
           \/ CommitTool \/ RecordOverrun \/ DenyAttempt \/ Approve
  BY <1>3, OneWrites
<1>4. CASE RequestApproval
  <2> DEFINE e == [type |-> "APPROVAL_REQUESTED", node |-> Node,
                   subject |-> Subject(Node, session.payload),
                   revision |-> record.revision + 1]
  <2>1. journal' = journal \/ journal' = Append(journal, e)
    BY <1>4 DEF RequestApproval, WriteAhead
  <2>2. e.type = "APPROVAL_REQUESTED"
    OBVIOUS
  <2> HIDE DEF e
  <2> QED
    BY <1>4, <2>1, <2>2 DEF Writes
<1>5. CASE RecoverState \/ RecoverApproval \/ Resume \/ RefuseVisit \/ RunPolicy \/ PassGate
           \/ CallModel \/ DispatchTool \/ Raise \/ Abort
  BY <1>5 DEF RecoverState, RecoverApproval, Resume, RefuseVisit, RunPolicy, PassGate,
              CallModel, DispatchTool, Raise, Abort, Perform
<1> QED
  BY <1>1, <1>2, <1>3, <1>4, <1>5 DEF Next, Proceed, Traverse, Transit

\* The release comes after the call if that was written.
LEMMA FailWrites ==
  ASSUME GraphInv, RecordCallFails
  PROVE  \E k : /\ k = journal \/ k = Append(journal, ToolEvent("TOOL_CALLED"))
                /\ IsJournal(k)
                /\ journal' = Append(k, Released(journal, session.handle))
<1> DEFINE call == ToolEvent("TOOL_CALLED")
           release == Released(journal, session.handle)
<1>1. PICK landed \in {<< >>, <<call>>} : journal' = journal \o landed \o <<release>>
  BY DEF RecordCallFails
<1> HIDE DEF call, release
<1> DEFINE k == journal \o landed
<1>2. IsJournal(journal)
  BY DEF GraphInv, TypeInv, JournalIsTyped, IsJournal
<1>3. (k = journal \/ k = Append(journal, call)) /\ IsJournal(k)
  <2>1. PICK S : journal \in Seq(S) /\ call \in S
    BY <1>2, Grown
  <2>2. CASE landed = << >>
    BY <1>2, <2>1, <2>2, ConcatEmptySeq
  <2>3. CASE landed = <<call>>
    <3>1. k = Append(journal, call)
      BY <2>1, <2>3, AppendIsConcat
    <3> QED
      BY <1>2, <3>1, Grown
  <2> QED
    BY <1>1, <2>2, <2>3
<1> HIDE DEF k
<1>4. journal' = Append(k, release)
  <2>1. PICK S : k \in Seq(S) /\ release \in S
    BY <1>3, Grown
  <2>2. journal' = k \o <<release>>
    BY <1>1 DEF k
  <2> QED
    BY <2>1, <2>2, AppendIsConcat
<1> QED
  BY <1>3, <1>4 DEF call, release

\* A session goes on in the same visit, or before it.
GoesOn ==
  /\ session.step # "idle" /\ session'.step # "idle"
  /\ Extends(journal, journal')
  /\ record'.node = record.node /\ record'.attempts = record.attempts
  /\ record'.state = record.state
  /\ session'.payload = session.payload /\ session'.context = session.context
  /\ session'.step \in Inside => session.step \in Inside

\* A session begins where the journal leads.
Begins ==
  /\ session.step = "idle"
  /\ Extends(journal, journal')
  /\ record'.state = "EXECUTING"
  /\ session' = At("loop", LastOutcome(journal), ExpectedContext(journal))

\* A field that was not set stays.
LEMMA SessionStays ==
  ASSUME GraphInv, NEW step \in Steps,
         \/ Go(step)
         \/ \E h \in Nat : session' = [session EXCEPT !.step = step, !.handle = h]
         \/ \E r \in Results : session' = [session EXCEPT !.step = step, !.result = r]
         \/ \E t \in Nat, w \in Int :
              session' = [session EXCEPT !.step = step, !.tools = t, !.wanted = w]
         \/ \E t \in Nat : session' = [session EXCEPT !.step = step, !.tried = t]
         \/ \E t, w \in Nat, r \in Replies :
              session' = [session EXCEPT !.step = step, !.turns = t, !.reply = r, !.wanted = w]
  PROVE  /\ session'.step = step /\ session'.payload = session.payload
         /\ session'.context = session.context
<1>1. session \in Session
  BY DEF GraphInv, TypeInv
<1> QED
  BY <1>1 DEF Session, Go

\* Steps within a visit that leave the record where it is, and the session if it goes on.
LEMMA InsideGoesOn ==
  ASSUME GraphInv,
         \/ RecordOverrun /\ session'.step # "idle"
         \/ RunPolicy \/ PassGate \/ ReserveModel \/ CallModel \/ CommitModel
         \/ ReserveTool \/ RecordCall \/ DispatchTool \/ CommitTool \/ RecordOutcome
         \/ RecordCallFails
  PROVE  GoesOn /\ session.step \in Inside /\ session'.step \in Inside /\ record' = record
<1>1. JournalIsTyped(journal) /\ session \in Session
  BY DEF GraphInv, TypeInv
<1>2. Extends(journal, journal')
  <2>1. CASE CallModel \/ DispatchTool
    BY <1>1, <2>1, StaysExtends DEF CallModel, DispatchTool, Perform
  <2> QED
    BY <2>1, RunPolicyKeeps, ReserveModelKeeps, CommitModelKeeps, RecordOverrunKeeps,
       ReserveToolKeeps, RecordCallKeeps, CommitToolKeeps, RecordOutcomeKeeps,
       RecordCallFailsKeeps DEF Quiet
<1>3. record' = record /\ session.step \in Inside
  BY InsideSteps DEF RunPolicy, PassGate, ReserveModel, DenyCall, ReserveCall, CallModel,
     CommitModel, RecordOverrun, ReserveTool, RecordCall, DispatchTool, CommitTool,
     RecordOutcome, RecordCallFails, Write, Perform
<1>4. /\ Len(journal) + 1 \in Nat /\ session.tools + 1 \in Nat /\ session.wanted - 1 \in Int
      /\ session.tried + 1 \in Nat /\ session.turns + 1 \in Nat /\ 0 \in Nat
      /\ \A n \in 1 .. MaxToolSteps : n \in Nat
  BY <1>1, <1>2, LoopIsBounded DEF Session, Extends
<1>5. Inside \subseteq Steps
  BY DEF Inside
<1> DEFINE Stays == /\ session'.step \in Inside /\ session'.payload = session.payload
                    /\ session'.context = session.context
<1>6. ASSUME NEW step \in Inside, Go(step) PROVE Stays
  BY <1>5, <1>6, SessionStays
<1>7. ASSUME NEW r \in Results, session' = [session EXCEPT !.step = "result", !.result = r]
      PROVE  Stays
  <2>1. "result" \in Inside /\ "result" \in Steps
    BY <1>5, InsideSteps
  <2> QED
    BY <1>7, <2>1, SessionStays
<1>8. Fail => Stays
  <2>1. "failed" \in Results
    BY DEF Results
  <2> QED
    BY <1>7, <2>1 DEF Fail
<1> HIDE DEF Stays
<1>9. Stays
  <2>1. CASE RunPolicy \/ PassGate
    BY <1>7, <2>1 DEF RunPolicy, PassGate, Results
  <2>2. CASE ReserveModel \/ ReserveTool
    <3>1. Fail \/ \E step \in {"model", "reserved"} :
                    session' = [session EXCEPT !.step = step, !.handle = Len(journal) + 1]
      BY <2>2 DEF ReserveModel, ReserveTool, DenyCall, ReserveCall
    <3>2. {"model", "reserved"} \subseteq Inside
      BY InsideSteps
    <3> QED
      BY <1>4, <1>5, <1>8, <3>1, <3>2, SessionStays DEF Stays
  <2>3. CASE CallModel
    <3>1. PICK reply \in Replies, n \in 1 .. MaxToolSteps :
            session' = [session EXCEPT !.step = "replied", !.turns = session.turns + 1,
                                       !.reply = reply, !.wanted = n]
      BY <2>3 DEF CallModel
    <3>2. "replied" \in Inside
      BY InsideSteps
    <3> QED
      BY <1>4, <1>5, <3>1, <3>2, SessionStays DEF Stays
  <2>4. CASE CommitModel
    <3>1. Go("overrun") \/ Interpret
      BY <2>4 DEF CommitModel
    <3>2. CASE Interpret
      <4>1. \/ Fail
            \/ \E r \in Results : session' = [session EXCEPT !.step = "result", !.result = r]
            \/ \E step \in {"node", "tools"}, t \in Nat :
                 session' = [session EXCEPT !.step = step, !.tried = t]
        <5>1. session.reply \in Replies
          BY <1>1 DEF Session
        <5> QED
          BY <1>4, <3>2, <5>1 DEF Interpret, Replies
      <4>2. {"node", "tools"} \subseteq Inside
        BY InsideSteps
      <4> QED
        BY <1>5, <1>7, <1>8, <4>1, <4>2, SessionStays DEF Stays
    <3> QED
      BY <1>6, <3>1, <3>2, InsideSteps
  <2>5. CASE (RecordOverrun /\ session'.step # "idle") \/ RecordCall \/ CommitTool
             \/ RecordCallFails
    <3>1. Fail \/ \E step \in {"outcome", "called", "overrun", "raised"} : Go(step)
      BY <2>5 DEF RecordOverrun, RecordCall, CommitTool, RecordCallFails, Idle, At
    <3>2. {"outcome", "called", "overrun", "raised"} \subseteq Inside
      BY InsideSteps
    <3> QED
      BY <1>6, <1>8, <3>1, <3>2
  <2>6. CASE DispatchTool
    <3>1. PICK r \in {"completed", "failed"} :
            session' = [session EXCEPT !.step = "dispatched", !.result = r]
      BY <2>6 DEF DispatchTool
    <3>2. "dispatched" \in Inside /\ r \in Results
      BY InsideSteps DEF Results
    <3> QED
      BY <1>5, <3>1, <3>2, SessionStays DEF Stays
  <2>7. CASE RecordOutcome
    <3>1. \/ Fail
          \/ \E step \in {"tools", "node"} :
               session' = [session EXCEPT !.step = step, !.tools = session.tools + 1,
                                          !.wanted = session.wanted - 1]
      BY <2>7 DEF RecordOutcome
    <3>2. {"tools", "node"} \subseteq Inside
      BY InsideSteps
    <3>3. ASSUME NEW step \in {"tools", "node"},
                 session' = [session EXCEPT !.step = step, !.tools = session.tools + 1,
                                            !.wanted = session.wanted - 1]
          PROVE  Stays
      BY <1>4, <1>5, <3>2, <3>3, SessionStays DEF Stays
    <3> QED
      BY <1>8, <3>1, <3>3
  <2> QED
    BY <2>1, <2>2, <2>3, <2>4, <2>5, <2>6, <2>7
<1>10. "idle" \notin Inside
  BY InsideSteps
<1> QED
  BY <1>2, <1>3, <1>9, <1>10 DEF GoesOn, Stays

\* The steps between two visits in which the session does not end.
LEMMA OutsideGoesOn ==
  ASSUME GraphInv, RequestApproval \/ DenyAttempt
  PROVE  session'.step = "idle" \/ (GoesOn /\ session'.step \in {"asked", "denied"})
<1>1. Extends(journal, journal') /\ session.step = "loop"
  BY RequestApprovalKeeps, DenyAttemptKeeps
     DEF Quiet, RequestApproval, DenyAttempt, Visiting, InLoop
<1>2. CASE DenyAttempt
  <2>1. record' = record /\ Go("denied") /\ "denied" \in Steps \ Inside
    BY <1>2 DEF DenyAttempt, Write, Steps, Inside, Outside
  <2> QED
    BY <1>1, <2>1, SessionStays DEF GoesOn
<1>3. CASE RequestApproval
  <2>1. \/ session' = Idle
        \/ /\ record' = [record EXCEPT !.revision = @ + 1, !.approval = "PENDING"]
           /\ session' = [session EXCEPT !.step = "asked"]
    BY <1>3 DEF RequestApproval, WriteAhead
  <2>2. Idle.step = "idle" /\ record \in Record /\ "asked" \in Steps \ Inside
    BY DEF Idle, At, GraphInv, TypeInv, Steps, Inside, Outside
  <2>3. CASE /\ record' = [record EXCEPT !.revision = @ + 1, !.approval = "PENDING"]
             /\ Go("asked")
    BY <1>1, <2>2, <2>3, SessionStays DEF GoesOn, Record
  <2> QED
    BY <2>1, <2>2, <2>3 DEF Go
<1> QED
  BY <1>2, <1>3

\* A graph that is entered was not walked.
LEMMA FreshJournal ==
  ASSUME GraphInv, record.state \in Fresh
  PROVE  LastOutcome(journal) = 0 /\ ExpectedContext(journal) = None
<1>1. Of(journal, Outcomes) = {}
  BY DEF GraphInv, FreshInv, Of, NodeEvents
<1>2. PICK S : journal \in Seq(S)
  BY DEF GraphInv, TypeInv, JournalIsTyped
<1>3. LastOutcome(journal) = 0
  BY <1>1, <1>2, LastOutcomeOnly
<1> QED
  BY <1>3 DEF ExpectedContext

\* A session that begins is given what the journal says.
LEMMA StepBegins ==
  ASSUME GraphInv, Execute \/ Resume
  PROVE  session'.step = "idle" \/ Begins
<1>1. Extends(journal, journal') /\ session.step = "idle" /\ Idle.step = "idle"
  BY ExecuteKeeps, ResumeKeeps DEF Quiet, Execute, Resume, Idle, At
<1>2. record \in Record
  BY DEF GraphInv, TypeInv
<1>3. CASE Execute
  <2>1. \/ session' = Idle
        \/ /\ record' = [record EXCEPT !.state = "EXECUTING", !.revision = @ + 1]
           /\ session' = At("loop", 0, None)
    BY <1>3 DEF Execute, TransitionTo, WriteAhead
  <2>2. LastOutcome(journal) = 0 /\ ExpectedContext(journal) = None
    BY <1>3, FreshJournal DEF Execute, Fresh
  <2> QED
    BY <1>1, <1>2, <2>1, <2>2 DEF Begins, Record
<1>4. CASE Resume
  <2>1. /\ session' = At("loop", LastOutcome(journal), ExpectedContext(journal))
        /\ record.state = "EXECUTING"
    BY <1>4 DEF Resume
  <2>2. record'.state = "EXECUTING"
    BY <1>2, <1>4, <2>1 DEF Resume, NextRecord, Record
  <2> QED
    BY <1>1, <2>1, <2>2 DEF Begins
<1> QED
  BY <1>3, <1>4

\* A session is ended, goes on, begins, or moves the traversal.
LEMMA SessionMoves ==
  ASSUME GraphInv, Next
  PROVE  session'.step = "idle" \/ GoesOn \/ Begins \/ StartNode \/ FinishNode
<1>1. CASE \/ RunPolicy \/ PassGate \/ ReserveModel \/ CallModel \/ CommitModel \/ RecordOverrun
           \/ ReserveTool \/ RecordCall \/ DispatchTool \/ CommitTool \/ RecordOutcome
           \/ RecordCallFails
  BY <1>1, InsideGoesOn
<1>2. CASE RequestApproval \/ DenyAttempt \/ Execute \/ Resume
  BY <1>2, OutsideGoesOn, StepBegins
<1>3. Idle.step = "idle"
  BY DEF Idle, At
<1>4. CASE \/ RecoverState \/ RecoverApproval \/ PrepareResume \/ RefuseVisit \/ ExhaustRetries
           \/ PauseForApproval \/ ExceedBudget \/ ResolveTerminal \/ Raise \/ Approve \/ Abort
  BY <1>3, <1>4 DEF RecoverState, RecoverApproval, PrepareResume, RefuseVisit, ExhaustRetries,
     PauseForApproval, ExceedBudget, ResolveTerminal, Raise, Approve, Abort, TransitionTo,
     WriteAhead
<1> QED
  BY <1>1, <1>2, <1>4 DEF Next, Proceed, Traverse

-----------------------------------------------------------------------------
(* What the readers check of each event, with one event more.              *)

\* A start that follows.
StartFits(p, x) ==
  /\ ~ OpenStart(p)
  /\ x.node = ExpectedNode(p)
  /\ x.attempt = Concluded(p, x.node) + 1
  /\ x.input = LastOutcome(p)
  /\ x.context = ExpectedContext(p)
  /\ x.context # None => x.context.attempt = x.attempt

\* A start more.
LEMMA StartsGrow ==
  ASSUME NEW j, IsJournal(j), NEW e, StartsFollow(j), e.type = "NODE_STARTED" => StartFits(j, e)
  PROVE  StartsFollow(Append(j, e))
<1> DEFINE k == Append(j, e)
           T == {"NODE_STARTED"}
<1>1. \A i \in Of(j, T) : StartFits(Before(j, i), j[i])
  BY DEF StartsFollow, StartFits
<1>2. e.type \in T => StartFits(j, e)
  OBVIOUS
<1> HIDE DEF T
<1>3. /\ \A i \in DOMAIN j : Before(k, i) = Before(j, i)
      /\ Before(k, Len(j) + 1) = j
  BY Grown
<1>4. \A i \in Of(k, T) : \/ i \in Of(j, T) /\ i \in DOMAIN j /\ k[i] = j[i]
                          \/ i = Len(j) + 1 /\ e.type \in T /\ k[i] = e
  BY NewPosition
<1> HIDE DEF k
<1>5. \A i \in Of(k, T) : StartFits(Before(k, i), k[i])
  BY <1>1, <1>2, <1>3, <1>4
<1> QED
  BY <1>5 DEF StartsFollow, StartFits, k, T

\* The starts that a journal has at some positions, read in a longer one.
LEMMA SinceIsOld ==
  ASSUME NEW j, IsJournal(j), NEW e, NEW types
  PROVE  \A s \in Since(j, types) : Append(j, e)[s] = j[s]
<1>1. Since(j, types) \subseteq DOMAIN j
  BY DEF Since, Of
<1> QED
  BY <1>1, Grown

\* And read in a part of it.
LEMMA SinceIsPast ==
  ASSUME NEW j, IsJournal(j), NEW i \in DOMAIN j, NEW types
  PROVE  \A s \in Since(Before(j, i), types) : s \in DOMAIN j /\ Before(j, i)[s] = j[s]
<1>1. Since(Before(j, i), types) \subseteq DOMAIN Before(j, i)
  BY DEF Since, Of
<1> QED
  BY <1>1, BeforeFacts

\* A tool event that follows.
ToolFits(p, x) ==
  /\ \E k \in Since(p, {"NODE_STARTED"}) : p[k].node = x.node /\ p[k].attempt = x.attempt
  /\ x.step = Ended(p) + 1
  /\ Called(p) = IF x.type = "TOOL_CALLED" THEN Ended(p) ELSE Ended(p) + 1

\* The steps of tools, one by one.
LEMMA ToolsFollowIs ==
  ASSUME NEW j, IsJournal(j)
  PROVE  ToolsFollow(j) <=> \A i \in Of(j, ToolEvents) : ToolFits(Before(j, i), j[i])
<1>1. ToolEvents = {"TOOL_CALLED", "TOOL_COMPLETED", "TOOL_FAILED"}
  BY DEF ToolEvents, ToolEnds
<1>2. ASSUME NEW i \in Of(j, ToolEvents)
      PROVE  ToolFits(Before(j, i), j[i]) <=>
               /\ \E k \in Since(Before(j, i), {"NODE_STARTED"}) :
                    j[k].node = j[i].node /\ j[k].attempt = j[i].attempt
               /\ j[i].step = Ended(Before(j, i)) + 1
               /\ Called(Before(j, i)) = IF j[i].type = "TOOL_CALLED" THEN Ended(Before(j, i))
                                         ELSE Ended(Before(j, i)) + 1
  <2>1. i \in DOMAIN j
    BY DEF Of
  <2> QED
    BY <2>1, SinceIsPast DEF ToolFits
<1> QED
  BY <1>1, <1>2 DEF ToolsFollow, Called, Ended, ToolEnds

\* A tool event more.
LEMMA ToolsGrow ==
  ASSUME NEW j, IsJournal(j), NEW e, ToolsFollow(j), e.type \in ToolEvents => ToolFits(j, e)
  PROVE  ToolsFollow(Append(j, e))
<1> DEFINE k == Append(j, e)
<1>1. \A i \in Of(j, ToolEvents) : ToolFits(Before(j, i), j[i])
  BY ToolsFollowIs
<1>2. /\ \A i \in DOMAIN j : Before(k, i) = Before(j, i)
      /\ Before(k, Len(j) + 1) = j /\ IsJournal(k)
  BY Grown
<1>3. \A i \in Of(k, ToolEvents) :
        \/ i \in Of(j, ToolEvents) /\ i \in DOMAIN j /\ k[i] = j[i]
        \/ i = Len(j) + 1 /\ e.type \in ToolEvents /\ k[i] = e
  BY NewPosition
<1> HIDE DEF k
<1>4. \A i \in Of(k, ToolEvents) : ToolFits(Before(k, i), k[i])
  BY <1>1, <1>2, <1>3
<1> QED
  BY <1>2, <1>4, ToolsFollowIs DEF k

\* An outcome that follows.
OutcomeFits(p, x) ==
  /\ Called(p) = Ended(p)
  /\ x.type = "NODE_COMPLETED" <=> x.result = "completed"
  /\ x.next = Edge(x.node, x.result)
  /\ \E s \in Since(p, {"NODE_STARTED"}) :
       /\ p[s].node = x.node
       /\ p[s].attempt = x.attempt
       /\ p[s].input = x.input
       /\ x.context = NextContext([n \in Nodes |-> Concluded(p, n)], x.node, x.attempt, x.next,
                                  x.result, p[s].context)

\* The outcomes, one by one.
LEMMA OutcomesFollowIs ==
  ASSUME NEW j, IsJournal(j)
  PROVE  OutcomesFollow(j) <=> \A i \in Of(j, Outcomes) : OutcomeFits(Before(j, i), j[i])
<1> DEFINE Old(p, i) ==
             /\ Called(p) = Ended(p)
             /\ j[i].type = "NODE_COMPLETED" <=> j[i].result = "completed"
             /\ j[i].next = Edge(j[i].node, j[i].result)
             /\ \E s \in Since(p, {"NODE_STARTED"}) :
                  /\ j[s].node = j[i].node
                  /\ j[s].attempt = j[i].attempt
                  /\ j[s].input = j[i].input
                  /\ j[i].context =
                       NextContext([n \in Nodes |-> Concluded(p, n)], j[i].node, j[i].attempt,
                                   j[i].next, j[i].result, j[s].context)
<1>1. OutcomesFollow(j) <=> \A i \in Of(j, Outcomes) : Old(Before(j, i), i)
  BY DEF OutcomesFollow, Called, Ended, ToolEnds
<1>2. ASSUME NEW i \in Of(j, Outcomes)
      PROVE  OutcomeFits(Before(j, i), j[i]) <=> Old(Before(j, i), i)
  <2>1. i \in DOMAIN j
    BY DEF Of
  <2>2. \A s \in Since(Before(j, i), {"NODE_STARTED"}) : Before(j, i)[s] = j[s]
    BY <2>1, SinceIsPast
  <2> QED
    BY <2>2 DEF OutcomeFits
<1> HIDE DEF Old
<1> QED
  BY <1>1, <1>2

\* An outcome more.
LEMMA OutcomesGrow ==
  ASSUME NEW j, IsJournal(j), NEW e, OutcomesFollow(j),
         e.type \in Outcomes => OutcomeFits(j, e)
  PROVE  OutcomesFollow(Append(j, e))
<1> DEFINE k == Append(j, e)
<1>1. \A i \in Of(j, Outcomes) : OutcomeFits(Before(j, i), j[i])
  BY OutcomesFollowIs
<1>2. /\ \A i \in DOMAIN j : Before(k, i) = Before(j, i)
      /\ Before(k, Len(j) + 1) = j /\ IsJournal(k)
  BY Grown
<1>3. \A i \in Of(k, Outcomes) :
        \/ i \in Of(j, Outcomes) /\ i \in DOMAIN j /\ k[i] = j[i]
        \/ i = Len(j) + 1 /\ e.type \in Outcomes /\ k[i] = e
  BY NewPosition
<1> HIDE DEF k
<1>4. \A i \in Of(k, Outcomes) : OutcomeFits(Before(k, i), k[i])
  BY <1>1, <1>2, <1>3
<1> QED
  BY <1>2, <1>4, OutcomesFollowIs DEF k

-----------------------------------------------------------------------------
(* What a session is given, and the visit that it is in.                   *)

\* What a start writes, and where.
LEMMA StartFacts ==
  ASSUME GraphInv, StartNode
  PROVE  /\ session.step = "loop" /\ session.step \notin Inside /\ session.tools = 0
         /\ ~ OpenStart(journal) /\ Node \in Nodes /\ Node = ExpectedNode(journal)
         /\ Attempt = Concluded(journal, Node) + 1 /\ Attempt \in Nat
         /\ record' = record /\ faults' = faults
         /\ session'.step = "node" /\ session'.payload = session.payload
         /\ session'.context = session.context /\ session'.tools = session.tools
         /\ \E e : /\ journal' = Append(journal, e) /\ e.type = "NODE_STARTED"
                   /\ e.node = Node /\ e.attempt = Attempt
                   /\ e.input = session.payload /\ e.context = session.context
<1>1. session.step = "loop" /\ Node \in Nodes /\ Go("node")
  BY DEF StartNode, Visiting, InLoop
<1>2. /\ UpToDate /\ session \in Session
      /\ Attempt = Concluded(journal, Node) + 1 /\ Attempt \in Nat
  BY <1>1, SessionFacts
<1>3. ~ OpenStart(journal) /\ ExpectedNode(journal) = Node
  BY <1>1, <1>2 DEF GraphInv, PlaceInv, Outside, UpToDate, Node
<1>4. session.step \notin Inside /\ session.tools = 0
  BY <1>1 DEF Inside, Outside, GraphInv, EffectInv, SessionFits
<1>5. /\ session'.step = "node" /\ session'.payload = session.payload
      /\ session'.context = session.context /\ session'.tools = session.tools
  BY <1>1, <1>2 DEF Go, Session
<1> DEFINE e == [type |-> "NODE_STARTED", node |-> Node, attempt |-> Attempt,
                 input |-> session.payload, context |-> session.context]
<1>6. journal' = Append(journal, e) /\ record' = record /\ faults' = faults
  BY DEF StartNode, Write
<1>7. /\ e.type = "NODE_STARTED" /\ e.node = Node /\ e.attempt = Attempt
      /\ e.input = session.payload /\ e.context = session.context
  OBVIOUS
<1> HIDE DEF e
<1> QED
  BY <1>1, <1>2, <1>3, <1>4, <1>5, <1>6, <1>7

\* An event that ends a visit, with what it says.
EndOfVisit(e) ==
  /\ e.type = IF session.result = "completed" THEN "NODE_COMPLETED" ELSE "NODE_FAILED"
  /\ e.type \in Outcomes
  /\ e.node = Node /\ e.attempt = Attempt /\ e.input = session.payload
  /\ e.output \in Answers
  /\ e.next = Edge(Node, session.result) /\ e.next \in Places
  /\ e.result = session.result /\ e.result \in Results
  /\ e.context = NextContext(record.attempts, Node, Attempt, e.next, session.result,
                             session.context)
  /\ e.revision = record.revision + 1 /\ e.duration \in Nat

\* What an end of a visit writes, and what becomes of record and session.
LEMMA FinishFacts ==
  ASSUME GraphInv, FinishNode
  PROVE  /\ session.step = "result" /\ session.step \in Inside
         /\ LedgerReplays(journal) /\ ~ IsExceeded(journal)
         /\ Node \in Nodes /\ Attempt = Concluded(journal, Node) + 1 /\ Attempt \in Nat
         /\ UpToDate
         /\ \E e : /\ journal' = Append(journal, e) /\ EndOfVisit(e)
                   /\ \/ /\ faults < MaxFaults /\ faults' = faults + 1
                         /\ session' = Idle /\ record' = record
                      \/ /\ record' = NextRecord(e) /\ faults' = faults
                         /\ session' = At("loop", Len(journal) + 1, e.context)
<1>1. PICK output \in Answers, duration \in Time : WriteOutcome(output, duration)
  BY DEF FinishNode
<1>2. /\ session.step = "result" /\ session.step \in Inside /\ session.step # "idle"
      /\ LedgerReplays(journal) /\ ~ IsExceeded(journal)
  BY InsideSteps DEF FinishNode
<1>3. /\ UpToDate /\ session \in Session /\ Node \in Nodes
      /\ Attempt = Concluded(journal, Node) + 1 /\ Attempt \in Nat
  BY <1>2, SessionFacts
<1> DEFINE next == Edge(Node, session.result)
           context == NextContext(record.attempts, Node, Attempt, next,
                                  session.result, session.context)
<1>4. next \in Places /\ session.result \in Results
  BY <1>3, GraphIsCompiled DEF Edge, Session
<1> HIDE DEF next, context
<1> DEFINE e == [type |-> IF session.result = "completed" THEN "NODE_COMPLETED"
                          ELSE "NODE_FAILED",
                 node |-> Node, attempt |-> Attempt, input |-> session.payload,
                 output |-> output, next |-> next, result |-> session.result,
                 context |-> context, duration |-> duration,
                 revision |-> record.revision + 1]
<1>5. WriteAhead(e, NextRecord(e), At("loop", Len(journal) + 1, context))
  BY <1>1 DEF WriteOutcome, next, context
<1>6. e.context = context /\ EndOfVisit(e)
  <2>1. duration \in Nat
    BY LoopIsBounded DEF Time
  <2> QED
    BY <1>1, <1>4, <2>1 DEF EndOfVisit, Outcomes, next, context
<1> HIDE DEF e
<1>7. /\ journal' = Append(journal, e)
      /\ \/ /\ faults < MaxFaults /\ faults' = faults + 1
            /\ session' = Idle /\ record' = record
         \/ /\ record' = NextRecord(e) /\ faults' = faults
            /\ session' = At("loop", Len(journal) + 1, e.context)
  BY <1>5, <1>6 DEF WriteAhead
<1> QED
  BY <1>2, <1>3, <1>6, <1>7

\* A start stays in its visit, as long as that is going on.
LEMMA ExtendsSince ==
  ASSUME NEW j, NEW k, Extends(j, k)
  PROVE  \A s \in Since(j, {"NODE_STARTED"}) :
           s \in Since(k, {"NODE_STARTED"}) /\ s \in DOMAIN j /\ k[s] = j[s]
<1>1. LastOutcome(k) = LastOutcome(j) /\ \A i \in DOMAIN j : i \in DOMAIN k /\ k[i] = j[i]
  BY DEF Extends
<1> SUFFICES ASSUME NEW s \in Since(j, {"NODE_STARTED"})
             PROVE  s \in Since(k, {"NODE_STARTED"}) /\ s \in DOMAIN j /\ k[s] = j[s]
  OBVIOUS
<1>2. s \in DOMAIN j /\ j[s].type = "NODE_STARTED" /\ s > LastOutcome(j)
  BY DEF Since, Of
<1> QED
  BY <1>1, <1>2 DEF Since, Of

\* The starts of the journal follow one another.
LEMMA StartsStay ==
  ASSUME GraphInv, LoopInv, Next
  PROVE  StartsFollow(journal')
<1>1. IsJournal(journal) /\ StartsFollow(journal)
  BY DEF LoopInv, GraphInv, TypeInv, JournalIsTyped, IsJournal
<1>2. CASE journal' = journal
  BY <1>1, <1>2
<1>3. CASE RecordCallFails
  <2>1. PICK k : /\ k = journal \/ k = Append(journal, ToolEvent("TOOL_CALLED"))
                 /\ IsJournal(k) /\ journal' = Append(k, Released(journal, session.handle))
    BY <1>3, FailWrites
  <2>2. /\ ToolEvent("TOOL_CALLED").type # "NODE_STARTED"
        /\ Released(journal, session.handle).type # "NODE_STARTED"
    BY DEF ToolEvent, Released
  <2>3. StartsFollow(k)
    BY <1>1, <2>1, <2>2, StartsGrow
  <2> QED
    BY <2>1, <2>2, <2>3, StartsGrow
<1>4. CASE StartNode
  <2>1. /\ session.step = "loop" /\ ~ OpenStart(journal) /\ Node = ExpectedNode(journal)
        /\ Attempt = Concluded(journal, Node) + 1
    BY <1>4, StartFacts
  <2>2. PICK e : /\ journal' = Append(journal, e) /\ e.type = "NODE_STARTED"
                 /\ e.node = Node /\ e.attempt = Attempt
                 /\ e.input = session.payload /\ e.context = session.context
    BY <1>4, StartFacts
  <2>3. session.payload = LastOutcome(journal) /\ session.context = ExpectedContext(journal)
    BY <2>1 DEF LoopInv
  <2>4. session.context # None => session.context.attempt = Attempt
    BY <1>4 DEF StartNode, Visiting, ContextFits, Retrying
  <2>5. StartFits(journal, e)
    BY <2>1, <2>2, <2>3, <2>4 DEF StartFits
  <2> QED
    BY <1>1, <2>2, <2>5, StartsGrow
<1>5. CASE ~ StartNode /\ \E e : Writes(e)
  <2>1. PICK e : journal' = Append(journal, e) /\ e.type # "NODE_STARTED"
    BY <1>5 DEF Writes, Outcomes, ToolEnds
  <2> QED
    BY <1>1, <2>1, StartsGrow
<1> QED
  BY <1>2, <1>3, <1>4, <1>5, StepWrites

\* A session keeps what it is given, or is given what the journal says.
LEMMA LoopKeeps ==
  ASSUME GraphInv, LoopInv, Next
  PROVE  LoopInv'
<1>1. StartsFollow(journal')
  BY StartsStay
<1>2. IsJournal(journal) /\ record \in Record
  BY DEF GraphInv, TypeInv, JournalIsTyped, IsJournal
<1>3. CASE session'.step = "idle"
  <2>1. session'.step \notin Inside
    BY <1>3, InsideSteps
  <2> QED
    BY <1>1, <1>3, <2>1 DEF LoopInv
<1>4. CASE GoesOn
  <2>1. /\ record'.state = "EXECUTING"
        /\ session'.payload = LastOutcome(journal')
        /\ session'.context = ExpectedContext(journal')
    BY <1>4 DEF GoesOn, LoopInv, Extends
  <2>2. ASSUME session'.step \in Inside
        PROVE  \E s \in Since(journal', {"NODE_STARTED"}) :
                 /\ journal'[s].node = Node' /\ journal'[s].attempt = Attempt'
                 /\ journal'[s].input = session'.payload
                 /\ journal'[s].context = session'.context
    <3>1. session.step \in Inside
      BY <1>4, <2>2 DEF GoesOn
    <3>2. PICK s \in Since(journal, {"NODE_STARTED"}) :
            /\ journal[s].node = Node /\ journal[s].attempt = Attempt
            /\ journal[s].input = session.payload /\ journal[s].context = session.context
      BY <3>1 DEF LoopInv
    <3>3. s \in Since(journal', {"NODE_STARTED"}) /\ journal'[s] = journal[s]
      BY <1>4, <3>2, ExtendsSince DEF GoesOn
    <3>4. Node' = Node /\ Attempt' = Attempt
      BY <1>4 DEF GoesOn, Node, Attempt
    <3> QED
      BY <1>4, <3>2, <3>3, <3>4 DEF GoesOn
  <2> QED
    BY <1>1, <2>1, <2>2 DEF LoopInv
<1>5. CASE Begins
  <2>1. /\ session'.step = "loop" /\ session'.payload = LastOutcome(journal')
        /\ session'.context = ExpectedContext(journal') /\ record'.state = "EXECUTING"
    BY <1>5 DEF Begins, At, Extends
  <2>2. session'.step \notin Inside
    BY <2>1 DEF Inside, Outside
  <2> QED
    BY <1>1, <2>1, <2>2 DEF LoopInv
<1>6. CASE StartNode
  <2>1. /\ session.step = "loop" /\ record' = record
        /\ session'.payload = session.payload /\ session'.context = session.context
        /\ \E e : /\ journal' = Append(journal, e) /\ e.type = "NODE_STARTED"
                  /\ e.node = Node /\ e.attempt = Attempt
                  /\ e.input = session.payload /\ e.context = session.context
    BY <1>6, StartFacts
  <2>2. PICK e : /\ journal' = Append(journal, e) /\ e.type = "NODE_STARTED"
                 /\ e.node = Node /\ e.attempt = Attempt
                 /\ e.input = session.payload /\ e.context = session.context
    BY <2>1
  <2>3. PICK S : journal \in Seq(S) /\ e \in S
    BY <1>2, Grown
  <2>4. e.type \notin Outcomes
    BY <2>2 DEF Outcomes
  <2>5. LastOutcome(journal') = LastOutcome(journal)
        /\ ExpectedContext(journal') = ExpectedContext(journal)
    BY <2>2, <2>3, <2>4, WalkGrows
  <2>6. Len(journal) + 1 \in Since(journal', {"NODE_STARTED"})
    <3> DEFINE T == {"NODE_STARTED"}
    <3>1. e.type \in T
      BY <2>2
    <3> HIDE DEF T
    <3>2. Since(journal', T) = Since(journal, T) \cup {Len(journal) + 1}
      BY <1>2, <2>2, <2>4, <3>1, SinceGrown
    <3> QED
      BY <3>2 DEF T
  <2>7. journal'[Len(journal) + 1] = e
    BY <1>2, <2>2, Grown
  <2>8. Node' = Node /\ Attempt' = Attempt
    BY <2>1 DEF Node, Attempt
  <2>9. /\ record'.state = "EXECUTING" /\ session'.payload = LastOutcome(journal')
        /\ session'.context = ExpectedContext(journal')
    BY <2>1, <2>5 DEF LoopInv
  <2>10. \E s \in Since(journal', {"NODE_STARTED"}) :
           /\ journal'[s].node = Node' /\ journal'[s].attempt = Attempt'
           /\ journal'[s].input = session'.payload
           /\ journal'[s].context = session'.context
    BY <2>1, <2>2, <2>6, <2>7, <2>8
  <2> QED
    BY <1>1, <2>9, <2>10 DEF LoopInv
<1>7. CASE FinishNode /\ session'.step # "idle"
  <2>1. session.step = "result"
    BY <1>7 DEF FinishNode
  <2>2. PICK e : /\ journal' = Append(journal, e) /\ EndOfVisit(e)
                 /\ \/ session' = Idle
                    \/ /\ record' = NextRecord(e)
                       /\ session' = At("loop", Len(journal) + 1, e.context)
    BY <1>7, FinishFacts
  <2>3. record' = NextRecord(e) /\ session' = At("loop", Len(journal) + 1, e.context)
    BY <1>7, <2>2 DEF Idle, At
  <2>4. PICK S : journal \in Seq(S) /\ e \in S
    BY <1>2, Grown
  <2>5. LastOutcome(journal') = Len(journal) + 1 /\ ExpectedContext(journal') = e.context
    BY <2>2, <2>4, WalkGrows DEF EndOfVisit
  <2>6. record'.state = "EXECUTING"
    BY <1>2, <2>1, <2>3 DEF LoopInv, NextRecord, Record
  <2>7. /\ session'.step = "loop" /\ session'.payload = LastOutcome(journal')
        /\ session'.context = ExpectedContext(journal')
    BY <2>3, <2>5 DEF At
  <2>8. session'.step \notin Inside
    BY <2>7 DEF Inside, Outside
  <2> QED
    BY <1>1, <2>6, <2>7, <2>8 DEF LoopInv
<1> QED
  BY <1>3, <1>4, <1>5, <1>6, <1>7, SessionMoves

-----------------------------------------------------------------------------
(* Within a visit, place by place.                                         *)

Kept == session'.tools = session.tools /\ session'.handle = session.handle
To(from, step) == session.step = from /\ session'.step = step

\* Steps that write nothing.
Works ==
  /\ journal' = journal /\ Kept
  /\ \/ To("node", "result") /\ (RunPolicy \/ PassGate)
     \/ To("model", "replied") /\ CallModel
     \/ To("called", "dispatched") /\ DispatchTool
     \/ To("overrun", "result") /\ RecordOverrun /\ journal[session.handle].kind # "tool"

\* A reservation, or its denial.
Reserves ==
  \/ \E kind \in Kinds :
       /\ journal' = Append(journal, Reserved(Node, Attempt, kind))
       /\ session'.tools = session.tools /\ session'.handle = Len(journal) + 1
       /\ IF kind = "model" THEN To("node", "model") ELSE To("tools", "reserved")
  \/ \E kind \in Kinds :
       /\ journal' = Append(journal, Denial(journal, Node, Attempt, kind)) /\ Kept
       /\ ~ Fits(journal, Node, kind)
       /\ To("node", "result") \/ To("tools", "result")

\* A commit, with the excess that it may bring to light.
Commits ==
  \E succeeded \in BOOLEAN, d \in Durations :
    /\ journal' = Append(journal, Committed(journal, session.handle, succeeded, d)) /\ Kept
    /\ \/ /\ session.step = "replied"
          /\ session'.step \in {"overrun", "node", "tools", "result"}
          /\ session'.step = "overrun" => IsExceeded(journal')
       \/ /\ session.step = "dispatched"
          /\ session'.step = IF IsExceeded(journal') THEN "overrun" ELSE "outcome"
          /\ session'.result = session.result
          /\ succeeded <=> session.result = "completed"

\* The evidence of the excess.
Blames ==
  /\ journal' = Append(journal, Overrun(journal, session.handle)) /\ Kept
  /\ IF journal[session.handle].kind = "tool"
     THEN /\ To("overrun", "outcome") /\ session'.result = session.result
          /\ LedgerReplays(journal')
     ELSE To("overrun", "result")

\* A tool call that is written ahead, and its outcome.
Dispatches ==
  \/ /\ journal' = Append(journal, ToolEvent("TOOL_CALLED")) /\ Kept
     /\ To("reserved", "called")
  \/ /\ journal' = Append(journal, ToolEvent(IF session.result = "completed"
                                             THEN "TOOL_COMPLETED" ELSE "TOOL_FAILED"))
     /\ session.step = "outcome" /\ session'.handle = session.handle
     /\ \/ session'.step = "result" /\ session'.tools = session.tools
        \/ session'.step \in {"tools", "node"} /\ session'.tools = session.tools + 1

\* What a step within a visit does.
LEMMA VisitMoves ==
  ASSUME GraphInv, Next, session.step \in Inside, session'.step # "idle"
  PROVE  \/ Works \/ Reserves \/ Commits \/ Blames \/ Dispatches
         \/ RecordCallFails /\ To("reserved", "raised")
         \/ FinishNode /\ To("result", "loop")
<1>1. session \in Session /\ Idle.step = "idle"
  BY DEF GraphInv, TypeInv, Idle, At
<1>2. ASSUME NEW r \in Results, session' = [session EXCEPT !.step = "result", !.result = r]
      PROVE  Kept /\ session'.step = "result"
  BY <1>1, <1>2 DEF Session, Kept
<1>3. ASSUME Fail PROVE Kept /\ session'.step = "result"
  BY <1>2, <1>3 DEF Fail, Results
<1>4. ASSUME NEW step, Go(step)
      PROVE  Kept /\ session'.step = step /\ session'.result = session.result
  BY <1>1, <1>4 DEF Session, Kept, Go
<1>5. CASE RunPolicy \/ PassGate
  <2>1. session.step = "node" /\ journal' = journal
        /\ \E r \in Results : session' = [session EXCEPT !.step = "result", !.result = r]
    BY <1>5 DEF RunPolicy, PassGate, Results
  <2> QED
    BY <1>2, <1>5, <2>1 DEF Works, To
<1>6. CASE CallModel
  <2>1. /\ session.step = "model" /\ journal' = journal
        /\ \E reply, n : session' = [session EXCEPT !.step = "replied", !.turns = @ + 1,
                                                    !.reply = reply, !.wanted = n]
    BY <1>6 DEF CallModel, Perform
  <2>2. Kept /\ session'.step = "replied"
    BY <1>1, <2>1 DEF Session, Kept
  <2> QED
    BY <1>6, <2>1, <2>2 DEF Works, To
<1>7. CASE DispatchTool
  <2>1. /\ session.step = "called" /\ journal' = journal
        /\ \E r : session' = [session EXCEPT !.step = "dispatched", !.result = r]
    BY <1>7 DEF DispatchTool, Perform
  <2>2. Kept /\ session'.step = "dispatched"
    BY <1>1, <2>1 DEF Session, Kept
  <2> QED
    BY <1>7, <2>1, <2>2 DEF Works, To
<1>8. ASSUME NEW kind \in Kinds, NEW step,
             \/ kind = "model" /\ step = "model" /\ session.step = "node"
             \/ kind = "tool" /\ step = "reserved" /\ session.step = "tools",
             DenyCall(kind) \/ ReserveCall(kind, step)
      PROVE  Reserves
  <2>1. CASE DenyCall(kind)
    <3>1. /\ ~ Fits(journal, Node, kind) /\ Fail
          /\ journal' = Append(journal, Denial(journal, Node, Attempt, kind))
      BY <2>1 DEF DenyCall, Write
    <3>2. Kept /\ session'.step = "result"
      BY <1>3, <3>1
    <3> QED
      BY <1>8, <3>1, <3>2 DEF Reserves, To
  <2>2. CASE ReserveCall(kind, step)
    <3>1. /\ journal' = Append(journal, Reserved(Node, Attempt, kind))
          /\ session' = [session EXCEPT !.step = step, !.handle = Len(journal) + 1]
      BY <2>2 DEF ReserveCall, Write
    <3>2. /\ session'.step = step /\ session'.tools = session.tools
          /\ session'.handle = Len(journal) + 1
      BY <1>1, <3>1 DEF Session
    <3>3. kind = "tool" => kind # "model"
      OBVIOUS
    <3> QED
      BY <1>8, <3>1, <3>2, <3>3 DEF Reserves, To
  <2> QED
    BY <1>8, <2>1, <2>2
<1>9. CASE ReserveModel \/ ReserveTool
  BY <1>8, <1>9 DEF ReserveModel, ReserveTool, Kinds
<1>10. CASE CommitModel
  <2>1. session.step = "replied"
    BY <1>10 DEF CommitModel
  <2>2. PICK d \in Durations :
          journal' = Append(journal, Committed(journal, session.handle,
                                               session.reply \in {"content", "calls"}, d))
    BY <1>10 DEF CommitModel, Write
  <2>3. (IsExceeded(journal') /\ Go("overrun")) \/ Interpret
    BY <1>10 DEF CommitModel
  <2>4. ASSUME Interpret PROVE Kept /\ session'.step \in {"node", "tools", "result"}
    <3>1. \/ Fail
          \/ \E r \in Results : session' = [session EXCEPT !.step = "result", !.result = r]
          \/ \E step \in {"node", "tools"} : \E t :
               session' = [session EXCEPT !.step = step, !.tried = t]
      <4>1. session.reply \in Replies
        BY <1>1 DEF Session
      <4> QED
        BY <2>4, <4>1 DEF Interpret, Replies
    <3>2. ASSUME NEW step, NEW t, session' = [session EXCEPT !.step = step, !.tried = t]
          PROVE  Kept /\ session'.step = step
      BY <1>1, <3>2 DEF Session, Kept
    <3> QED
      BY <1>2, <1>3, <3>1, <3>2
  <2>5. /\ Kept /\ session'.step \in {"overrun", "node", "tools", "result"}
        /\ session'.step = "overrun" => IsExceeded(journal')
    BY <1>4, <2>3, <2>4
  <2>6. (session.reply \in {"content", "calls"}) \in BOOLEAN
    OBVIOUS
  <2> HIDE DEF Kept
  <2> QED
    BY <2>1, <2>2, <2>5, <2>6 DEF Commits
<1>11. CASE CommitTool
  <2>1. session.step = "dispatched"
    BY <1>11 DEF CommitTool
  <2>2. PICK d \in Durations :
          journal' = Append(journal, Committed(journal, session.handle,
                                               session.result = "completed", d))
    BY <1>11 DEF CommitTool, Write
  <2>3. Go(IF IsExceeded(journal') THEN "overrun" ELSE "outcome")
    BY <1>11 DEF CommitTool
  <2>4. /\ Kept /\ session'.result = session.result
        /\ session'.step = IF IsExceeded(journal') THEN "overrun" ELSE "outcome"
    BY <1>4, <2>3
  <2>5. (session.result = "completed") \in BOOLEAN
    OBVIOUS
  <2> QED
    BY <2>1, <2>2, <2>4, <2>5 DEF Commits
<1>12. CASE RecordOverrun
  <2>1. /\ session.step = "overrun"
        /\ \/ journal' = Append(journal, Overrun(journal, session.handle))
           \/ journal' = journal /\ journal[session.handle].kind # "tool"
        /\ IF journal[session.handle].kind = "tool"
           THEN Go("outcome") /\ LedgerReplays(journal') ELSE Fail
    BY <1>1, <1>12 DEF RecordOverrun, Write
  <2> QED
    BY <1>3, <1>4, <1>12, <2>1 DEF Blames, Works, To
<1>13. CASE RecordCall
  <2>1. /\ session.step = "reserved" /\ Go("called")
        /\ journal' = Append(journal, ToolEvent("TOOL_CALLED"))
    BY <1>13 DEF RecordCall, Write
  <2> QED
    BY <1>4, <2>1 DEF Dispatches, To
<1>14. CASE RecordOutcome
  <2>1. /\ session.step = "outcome"
        /\ journal' = Append(journal, ToolEvent(IF session.result = "completed"
                                                THEN "TOOL_COMPLETED" ELSE "TOOL_FAILED"))
        /\ \/ Fail
           \/ \E step \in {"tools", "node"} :
                session' = [session EXCEPT !.step = step, !.tools = @ + 1, !.wanted = @ - 1]
    BY <1>14 DEF RecordOutcome, Write
  <2>2. ASSUME NEW step,
               session' = [session EXCEPT !.step = step, !.tools = @ + 1, !.wanted = @ - 1]
        PROVE  /\ session'.step = step /\ session'.tools = session.tools + 1
               /\ session'.handle = session.handle
    BY <1>1, <2>2 DEF Session
  <2> QED
    BY <1>3, <2>1, <2>2 DEF Dispatches, Kept
<1>15. CASE RecordCallFails
  BY <1>4, <1>15 DEF RecordCallFails, To
<1>16. CASE FinishNode
  <2>1. session.step = "result" /\ (session'.step = "idle" \/ session'.step = "loop")
    BY <1>16, FinishFacts DEF Idle, At
  <2> QED
    BY <1>16, <2>1 DEF To
<1>17. CASE Raise \/ Abort \/ ExceedBudget
  BY <1>1, <1>17 DEF Raise, Abort, ExceedBudget, TransitionTo, WriteAhead
<1>18. CASE \/ RecoverState \/ RecoverApproval \/ Execute \/ PrepareResume \/ Resume \/ Approve
            \/ RefuseVisit \/ ExhaustRetries \/ RequestApproval \/ PauseForApproval
            \/ DenyAttempt \/ StartNode \/ ResolveTerminal
  <2>1. session.step \in {"idle", "loop", "asked"}
    BY <1>18 DEF RecoverState, RecoverApproval, Execute, PrepareResume, Resume, Approve,
       Recovered, RefuseVisit, ExhaustRetries, RequestApproval, PauseForApproval, DenyAttempt,
       StartNode, ResolveTerminal, Visiting, InLoop
  <2> QED
    BY <2>1 DEF Inside, Outside
<1> QED
  BY <1>5, <1>6, <1>7, <1>9, <1>10, <1>11, <1>12, <1>13, <1>14, <1>15, <1>16, <1>17, <1>18
     DEF Next, Proceed, Traverse

-----------------------------------------------------------------------------
(* Tool calls and their outcomes.                                          *)

\* The calls of a visit and their outcomes, with one event more.
LEMMA CallsGrow ==
  ASSUME NEW j, IsJournal(j), NEW e, e.type \notin Outcomes
  PROVE  /\ Called(j) \in Nat /\ Ended(j) \in Nat
         /\ Called(Append(j, e)) = IF e.type = "TOOL_CALLED" THEN Called(j) + 1 ELSE Called(j)
         /\ Ended(Append(j, e)) = IF e.type \in ToolEnds THEN Ended(j) + 1 ELSE Ended(j)
<1> DEFINE T == {"TOOL_CALLED"}
<1>1. e.type \in T <=> e.type = "TOOL_CALLED"
  OBVIOUS
<1> HIDE DEF T
<1>2. /\ Cardinality(Since(j, T)) \in Nat
      /\ Cardinality(Since(Append(j, e), T)) =
           IF e.type \in T THEN Cardinality(Since(j, T)) + 1 ELSE Cardinality(Since(j, T))
  BY SinceGrown
<1>3. /\ Cardinality(Since(j, ToolEnds)) \in Nat
      /\ Cardinality(Since(Append(j, e), ToolEnds)) =
           IF e.type \in ToolEnds THEN Cardinality(Since(j, ToolEnds)) + 1
           ELSE Cardinality(Since(j, ToolEnds))
  BY SinceGrown
<1> QED
  BY <1>1, <1>2, <1>3 DEF Called, Ended, T

\* Where nothing happened since the last outcome there are no calls.
LEMMA NoCalls ==
  ASSUME NEW j, Since(j, ToolEvents) = {}
  PROVE  Called(j) = 0 /\ Ended(j) = 0
<1>1. Since(j, {"TOOL_CALLED"}) = {} /\ Since(j, ToolEnds) = {}
  BY DEF Since, Of, ToolEvents, ToolEnds
<1> QED
  BY <1>1, FS_EmptySet DEF Called, Ended

\* The open visit has a start that says which it is.
LEMMA VisitHasStart ==
  ASSUME LoopInv, session.step \in Inside
  PROVE  \E s \in Since(journal, {"NODE_STARTED"}) :
           /\ journal[s].node = Node /\ journal[s].attempt = Attempt
           /\ journal[s].input = session.payload /\ journal[s].context = session.context
BY DEF LoopInv

\* The tool events of the journal take turns.
LEMMA ToolsStay ==
  ASSUME GraphInv, LoopInv, ToolInv, Next
  PROVE  ToolsFollow(journal')
<1>1. IsJournal(journal) /\ ToolsFollow(journal)
  BY DEF ToolInv, GraphInv, TypeInv, JournalIsTyped, IsJournal
<1>2. Called(journal) \in Nat /\ Ended(journal) \in Nat
  BY <1>1, SinceGrown DEF Called, Ended
<1>3. ASSUME session.step = "reserved"
      PROVE  ToolFits(journal, ToolEvent("TOOL_CALLED"))
  <2>1. \E s \in Since(journal, {"NODE_STARTED"}) :
          journal[s].node = Node /\ journal[s].attempt = Attempt
    BY <1>3, VisitHasStart, InsideSteps
  <2>2. Called(journal) = session.tools /\ Ended(journal) = session.tools
    BY <1>3 DEF ToolInv, InTurn
  <2> QED
    BY <1>2, <2>1, <2>2 DEF ToolFits, ToolEvent
<1>4. ASSUME session.step = "outcome", NEW type \in ToolEnds
      PROVE  ToolFits(journal, ToolEvent(type))
  <2>1. \E s \in Since(journal, {"NODE_STARTED"}) :
          journal[s].node = Node /\ journal[s].attempt = Attempt
    BY <1>4, VisitHasStart, InsideSteps
  <2>2. Called(journal) = session.tools + 1 /\ Ended(journal) = session.tools
    BY <1>4 DEF ToolInv, Waiting
  <2>3. type # "TOOL_CALLED"
    BY DEF ToolEnds
  <2> QED
    BY <1>2, <2>1, <2>2, <2>3 DEF ToolFits, ToolEvent
<1>5. CASE journal' = journal
  BY <1>1, <1>5
<1>6. CASE RecordCallFails
  <2>1. PICK k : /\ k = journal \/ k = Append(journal, ToolEvent("TOOL_CALLED"))
                 /\ IsJournal(k) /\ journal' = Append(k, Released(journal, session.handle))
    BY <1>6, FailWrites
  <2>2. session.step = "reserved"
    BY <1>6 DEF RecordCallFails
  <2>3. ToolsFollow(k)
    BY <1>1, <1>3, <2>1, <2>2, ToolsGrow
  <2>4. Released(journal, session.handle).type \notin ToolEvents
    BY DEF Released, ToolEvents, ToolEnds
  <2> QED
    BY <2>1, <2>3, <2>4, ToolsGrow
<1>7. CASE RecordCall
  <2>1. session.step = "reserved" /\ journal' = Append(journal, ToolEvent("TOOL_CALLED"))
    BY <1>7 DEF RecordCall, Write
  <2> QED
    BY <1>1, <1>3, <2>1, ToolsGrow
<1>8. CASE RecordOutcome
  <2>1. session.step = "outcome"
    BY <1>8 DEF RecordOutcome
  <2>2. PICK type \in ToolEnds : journal' = Append(journal, ToolEvent(type))
    BY <1>8 DEF RecordOutcome, Write, ToolEnds
  <2> QED
    BY <1>1, <1>4, <2>1, <2>2, ToolsGrow
<1>9. CASE ~ RecordCall /\ ~ RecordOutcome /\ \E e : Writes(e)
  <2>1. PICK e : journal' = Append(journal, e) /\ e.type \notin ToolEvents
    BY <1>9 DEF Writes, Outcomes, ToolEvents, ToolEnds
  <2> QED
    BY <1>1, <2>1, ToolsGrow
<1> QED
  BY <1>5, <1>6, <1>7, <1>8, <1>9, StepWrites

\* The outcomes of the journal follow from what came before them.
LEMMA OutcomesStay ==
  ASSUME GraphInv, LoopInv, ToolInv, Next
  PROVE  OutcomesFollow(journal')
<1>1. IsJournal(journal) /\ OutcomesFollow(journal)
  BY DEF ToolInv, GraphInv, TypeInv, JournalIsTyped, IsJournal
<1>2. CASE journal' = journal
  BY <1>1, <1>2
<1>3. CASE RecordCallFails
  <2>1. PICK k : /\ k = journal \/ k = Append(journal, ToolEvent("TOOL_CALLED"))
                 /\ IsJournal(k) /\ journal' = Append(k, Released(journal, session.handle))
    BY <1>3, FailWrites
  <2>2. /\ ToolEvent("TOOL_CALLED").type \notin Outcomes
        /\ Released(journal, session.handle).type \notin Outcomes
    BY DEF ToolEvent, Released, Outcomes
  <2>3. OutcomesFollow(k)
    BY <1>1, <2>1, <2>2, OutcomesGrow
  <2> QED
    BY <2>1, <2>2, <2>3, OutcomesGrow
<1>4. CASE FinishNode
  <2>1. session.step = "result" /\ session.step \in Inside /\ UpToDate
    BY <1>4, FinishFacts
  <2>2. PICK e : journal' = Append(journal, e) /\ EndOfVisit(e)
    BY <1>4, FinishFacts
  <2>3. PICK s \in Since(journal, {"NODE_STARTED"}) :
          /\ journal[s].node = Node /\ journal[s].attempt = Attempt
          /\ journal[s].input = session.payload /\ journal[s].context = session.context
    BY <2>1, VisitHasStart
  <2>4. record.attempts = [n \in Nodes |-> Concluded(journal, n)]
    <3>1. record.attempts \in [Nodes -> Nat]
      BY DEF GraphInv, TypeInv, Record
    <3> QED
      BY <2>1, <3>1 DEF UpToDate
  <2>5. Called(journal) = Ended(journal)
    BY <2>1 DEF ToolInv
  <2>6. e.type = "NODE_COMPLETED" <=> e.result = "completed"
    BY <2>2 DEF EndOfVisit
  <2>7. OutcomeFits(journal, e)
    BY <2>2, <2>3, <2>4, <2>5, <2>6 DEF OutcomeFits, EndOfVisit
  <2> QED
    BY <1>1, <2>2, <2>7, OutcomesGrow
<1>5. CASE ~ FinishNode /\ \E e : Writes(e)
  <2>1. PICK e : journal' = Append(journal, e) /\ e.type \notin Outcomes
    BY <1>5 DEF Writes, Outcomes, ToolEnds
  <2> QED
    BY <1>1, <2>1, OutcomesGrow
<1> QED
  BY <1>2, <1>3, <1>4, <1>5, StepWrites

\* Tool events are of the visit that is going on.
LEMMA ToolsAreInside ==
  ASSUME GraphInv, GraphInv', ToolInv, Next, ~ OpenStart(journal')
  PROVE  Since(journal', ToolEvents) = {}
<1>1. IsJournal(journal)
  BY DEF GraphInv, TypeInv, JournalIsTyped, IsJournal
<1>2. ~ (RecordCall \/ RecordOutcome \/ RecordCallFails)
  <2> SUFFICES ASSUME RecordCall \/ RecordOutcome \/ RecordCallFails PROVE FALSE
    OBVIOUS
  <2>1. session'.step \in Inside
    BY InsideGoesOn
  <2> QED
    BY <2>1 DEF GraphInv, PlaceInv
<1>3. CASE journal' = journal
  BY <1>3 DEF ToolInv
<1>4. CASE \E e : Writes(e)
  <2>1. PICK e : Writes(e)
    BY <1>4
  <2>2. journal' = Append(journal, e) /\ e.type \notin ToolEvents
    BY <1>2, <2>1 DEF Writes, Outcomes, ToolEvents, ToolEnds
  <2>3. CASE e.type \in Outcomes
    BY <1>1, <2>2, <2>3, SinceGrown
  <2>4. CASE e.type \notin Outcomes
    <3>1. PICK S : journal \in Seq(S) /\ e \in S
      BY <1>1, Grown
    <3>2. ~ OpenStart(journal)
      BY <2>2, <2>4, <3>1, WalkGrows
    <3>3. Since(journal, ToolEvents) = {}
      BY <3>2 DEF ToolInv
    <3> QED
      BY <1>1, <2>2, <2>4, <3>3, SinceGrown
  <2> QED
    BY <2>3, <2>4
<1> QED
  BY <1>2, <1>3, <1>4, StepWrites

\* A session within a visit was there before, or starts the visit.
LEMMA InsideComes ==
  ASSUME GraphInv, Next, session'.step \in Inside
  PROVE  session'.step # "idle" /\ (StartNode \/ session.step \in Inside)
<1>1. session'.step # "idle" /\ session'.step # "loop"
  BY InsideSteps
<1>2. ~ Begins
  BY <1>1 DEF Begins, At
<1>3. ~ FinishNode
  <2> SUFFICES ASSUME FinishNode PROVE FALSE
    OBVIOUS
  <2>1. session'.step = "idle" \/ session'.step = "loop"
    BY FinishFacts DEF Idle, At
  <2> QED
    BY <1>1, <2>1
<1> QED
  BY <1>1, <1>2, <1>3, SessionMoves DEF GoesOn

\* The calls of the visit are as many as the session has counted.
CallsFit ==
  /\ InTurn => Called(journal) = session.tools /\ Ended(journal) = session.tools
  /\ Waiting => Called(journal) = session.tools + 1 /\ Ended(journal) = session.tools
  /\ session.step = "result" \/ (session.step = "overrun" /\ ~ OverTool) =>
       Called(journal) = Ended(journal)

\* Every place within a visit counts the calls that it makes.
LEMMA CallsStayFit ==
  ASSUME GraphInv, GraphInv', LedgerInv, ToolInv, Next
  PROVE  CallsFit'
<1>1. IsJournal(journal) /\ session \in Session
  BY DEF GraphInv, TypeInv, JournalIsTyped, IsJournal
<1>2. CallsFit
  BY DEF ToolInv, CallsFit
<1>3. /\ InTurn' <=> session'.step \in {"node", "model", "replied", "tools", "reserved"}
      /\ Waiting' <=> session'.step \in {"called", "dispatched", "outcome"} \/ OverTool'
      /\ OverTool' <=> session'.step = "overrun" /\ journal'[session'.handle].kind = "tool"
  BY DEF InTurn, Waiting, OverTool
<1>4. /\ Called(journal) \in Nat /\ Ended(journal) \in Nat /\ session.tools \in Nat
      /\ Called(journal)' = Called(journal') /\ Ended(journal)' = Ended(journal')
  BY <1>1, SinceGrown DEF Called, Ended, Session
<1> DEFINE Counted(step, over, tools, called, ended) ==
             /\ step \in {"node", "model", "replied", "tools", "reserved"} =>
                  called = tools /\ ended = tools
             /\ step \in {"called", "dispatched", "outcome"} \/ (step = "overrun" /\ over) =>
                  called = tools + 1 /\ ended = tools
             /\ step = "result" \/ (step = "overrun" /\ ~ over) => called = ended
<1>5. Counted(session.step, journal[session.handle].kind = "tool", session.tools,
              Called(journal), Ended(journal))
  BY <1>2 DEF CallsFit, InTurn, Waiting, OverTool
<1> SUFFICES Counted(session'.step, journal'[session'.handle].kind = "tool", session'.tools,
                     Called(journal'), Ended(journal'))
  BY <1>3 DEF CallsFit
<1>6. CASE session'.step \notin Inside
  BY <1>6, InsideSteps
<1>7. CASE StartNode
  <2>1. /\ session.tools = 0 /\ session'.tools = session.tools /\ session'.step = "node"
        /\ ~ OpenStart(journal)
        /\ \E e : journal' = Append(journal, e) /\ e.type = "NODE_STARTED"
    BY <1>7, StartFacts
  <2>2. PICK e : journal' = Append(journal, e) /\ e.type = "NODE_STARTED"
    BY <2>1
  <2>3. Called(journal) = 0 /\ Ended(journal) = 0
    BY <2>1, NoCalls DEF ToolInv
  <2>4. Called(journal') = 0 /\ Ended(journal') = 0
    BY <1>1, <2>2, <2>3, CallsGrow DEF Outcomes, ToolEnds
  <2> QED
    BY <2>1, <2>4
<1>8. CASE session'.step \in Inside /\ session.step \in Inside
  <2> DEFINE over == journal[session.handle].kind = "tool"
             newOver == journal'[session'.handle].kind = "tool"
  <2>1. ASSUME NEW e, journal' = Append(journal, e), e.type \notin Outcomes
        PROVE  /\ Called(journal') = IF e.type = "TOOL_CALLED" THEN Called(journal) + 1
                                     ELSE Called(journal)
               /\ Ended(journal') = IF e.type \in ToolEnds THEN Ended(journal) + 1
                                    ELSE Ended(journal)
    BY <1>1, <2>1, CallsGrow
  <2>2. session.step \in {"replied", "dispatched", "overrun"} => session.handle \in DOMAIN journal
    BY HandleIsThere
  <2>3. ASSUME NEW e, journal' = Append(journal, e), session'.handle = session.handle,
               session.step \in {"replied", "dispatched", "overrun"}
        PROVE  newOver <=> over
    BY <1>1, <2>2, <2>3, Grown
  <2>4. session.step = "replied" => ~ over
    BY <2>2 DEF GraphInv, EffectInv, SessionFits
  <2>5. session.step = "dispatched" => over
    BY <2>2 DEF GraphInv, EffectInv, SessionFits
  <2> HIDE DEF over, newOver
  <2>6. Counted(session.step, over, session.tools, Called(journal), Ended(journal))
    BY <1>5 DEF over
  <2>7. CASE Works
    BY <1>4, <2>6, <2>7 DEF Works, Kept, To, over
  <2>8. CASE Reserves
    <3>1. PICK e : /\ journal' = Append(journal, e)
                   /\ e.type \in {"BUDGET_RESERVED", "BUDGET_EXCEEDED"}
                   /\ session'.tools = session.tools
                   /\ \/ To("node", "model") \/ To("tools", "reserved")
                      \/ To("node", "result") \/ To("tools", "result")
      <4>1. \A kind : /\ Reserved(Node, Attempt, kind).type = "BUDGET_RESERVED"
                      /\ Denial(journal, Node, Attempt, kind).type = "BUDGET_EXCEEDED"
        BY DenialIs DEF Reserved
      <4> QED
        BY <2>8, <4>1 DEF Reserves, Kept
    <3>2. Called(journal') = Called(journal) /\ Ended(journal') = Ended(journal)
      BY <2>1, <3>1 DEF Outcomes, ToolEnds
    <3> QED
      BY <2>6, <3>1, <3>2 DEF To
  <2>9. CASE Commits
    <3>1. PICK succeeded, d :
            journal' = Append(journal, Committed(journal, session.handle, succeeded, d))
      BY <2>9 DEF Commits
    <3> DEFINE e == Committed(journal, session.handle, succeeded, d)
    <3>2. e.type = "BUDGET_COMMITTED"
      BY DEF Committed
    <3> HIDE DEF e
    <3>3. Called(journal') = Called(journal) /\ Ended(journal') = Ended(journal)
      BY <2>1, <3>1, <3>2 DEF Outcomes, ToolEnds, e
    <3>4. /\ session'.handle = session.handle /\ session'.tools = session.tools
          /\ \/ /\ session.step = "replied"
                /\ session'.step \in {"overrun", "node", "tools", "result"}
             \/ session.step = "dispatched" /\ session'.step \in {"overrun", "outcome"}
      BY <2>9 DEF Commits, Kept
    <3>5. newOver <=> over
      BY <2>3, <3>1, <3>4
    <3> QED
      BY <2>4, <2>5, <2>6, <3>3, <3>4, <3>5 DEF newOver
  <2>10. CASE Blames
    <3> DEFINE e == Overrun(journal, session.handle)
    <3>1. e.type = "BUDGET_EXCEEDED" /\ journal' = Append(journal, e)
      BY <2>10 DEF Overrun, Evidence, Blames
    <3> HIDE DEF e
    <3>2. Called(journal') = Called(journal) /\ Ended(journal') = Ended(journal)
      BY <2>1, <3>1 DEF Outcomes, ToolEnds
    <3>3. /\ session'.tools = session.tools
          /\ IF over THEN To("overrun", "outcome") ELSE To("overrun", "result")
      BY <2>10 DEF Blames, Kept, over
    <3> QED
      BY <2>6, <3>2, <3>3 DEF To
  <2>11. CASE Dispatches
    <3>1. PICK type \in ToolEvents :
            /\ journal' = Append(journal, ToolEvent(type))
            /\ \/ type = "TOOL_CALLED" /\ To("reserved", "called")
                  /\ session'.tools = session.tools
               \/ /\ type \in ToolEnds /\ session.step = "outcome"
                  /\ \/ session'.step = "result" /\ session'.tools = session.tools
                     \/ session'.step \in {"tools", "node"} /\ session'.tools = session.tools + 1
      BY <2>11 DEF Dispatches, Kept, ToolEvents, ToolEnds
    <3>2. ToolEvent(type).type = type /\ type \notin Outcomes
      BY DEF ToolEvent, ToolEvents, ToolEnds, Outcomes
    <3>3. /\ Called(journal') = IF type = "TOOL_CALLED" THEN Called(journal) + 1
                                ELSE Called(journal)
          /\ Ended(journal') = IF type \in ToolEnds THEN Ended(journal) + 1 ELSE Ended(journal)
      BY <2>1, <3>1, <3>2
    <3>4. "TOOL_CALLED" \notin ToolEnds
      BY DEF ToolEnds
    <3> QED
      BY <1>4, <2>6, <3>1, <3>3, <3>4 DEF To
  <2>12. CASE session'.step \in {"raised", "loop"}
    BY <2>12
  <2> QED
    BY <1>8, <2>7, <2>8, <2>9, <2>10, <2>11, <2>12, VisitMoves, InsideSteps DEF To
<1> QED
  BY <1>6, <1>7, <1>8, InsideComes

\* Tool calls and their outcomes take turns.
LEMMA ToolKeeps ==
  ASSUME GraphInv, GraphInv', LedgerInv, LoopInv, ToolInv, Next
  PROVE  ToolInv'
<1>1. ToolsFollow(journal)' /\ OutcomesFollow(journal)'
  BY ToolsStay, OutcomesStay DEF ToolsFollow, OutcomesFollow
<1>2. (~ OpenStart(journal) => Since(journal, ToolEvents) = {})'
  BY ToolsAreInside
<1>3. CallsFit'
  BY CallsStayFit
<1> QED
  BY <1>1, <1>2, <1>3 DEF ToolInv, CallsFit

-----------------------------------------------------------------------------
(* The strict replay of the ledger, with one event more.                   *)

\* What went over a limit before an event, as the ledger adds it up.
Over(p) ==
  (UNION {{s} \X OverLimit(s, CommittedUsage(p, s)) : s \in Scopes})
  \cup (UNION {{p[k].scope} \X p[k].dimensions : k \in Of(p, {"BUDGET_EXCEEDED"})})

\* An event that the ledger accepts after p.
LedgerFits(p, x) ==
  /\ x.type = "NODE_STARTED" =>
       \A i \in Of(p, {"NODE_STARTED"}) : ~ (p[i].node = x.node /\ p[i].attempt = x.attempt)
  /\ x.type = "BUDGET_RESERVED" => Active(p) = {}
  /\ x.type \in {"BUDGET_COMMITTED", "BUDGET_RELEASED"} =>
       x.reservation \in Active(p) /\ SameOperation(x, p[x.reservation])
  /\ x.type = "BUDGET_EXCEEDED" /\ x.reservation # 0 =>
       /\ \E k \in Of(p, {"BUDGET_COMMITTED"}) :
            p[k].reservation = x.reservation /\ SameOperation(x, p[k])
       /\ x.scope = Blame(Over(p), x.node).scope
       /\ x.dimensions = Blame(Over(p), x.node).dimensions
  /\ x.type = "TOOL_CALLED" =>
       \E r \in Active(p) :
         /\ p[r].kind = "tool" /\ p[r].node = x.node /\ p[r].attempt = x.attempt
         /\ \A k \in Of(p, {"TOOL_CALLED"}) : k < r
  /\ x.type \in ToolEnds =>
       \E c \in Of(p, {"TOOL_CALLED"}), k \in Of(p, {"BUDGET_COMMITTED"}) :
         /\ p[c].node = x.node /\ p[c].attempt = x.attempt /\ p[c].step = x.step
         /\ p[k].reservation \in Active(Before(p, c))
         /\ p[k].succeeded = (x.type = "TOOL_COMPLETED")

\* What the executor writes is an attempt only when a node starts.
LEMMA AttemptedAreStarts ==
  ASSUME NEW j, LedgerIsTyped(j) PROVE Of(j, Attempted) = Of(j, {"NODE_STARTED"})
<1>1. \A i \in DOMAIN j : j[i].type \in LedgerEvents \cup OtherEvents
  BY DEF LedgerIsTyped, EntryIsTyped
<1>2. \A i \in DOMAIN j : j[i].type \in Attempted <=> j[i].type \in {"NODE_STARTED"}
  BY <1>1 DEF LedgerEvents, OtherEvents, BudgetEvents, Outcomes, Approvals, Attempted
<1> QED
  BY <1>2 DEF Of

\* Attempts stay distinct.
LEMMA AttemptsGrow ==
  ASSUME NEW j, IsJournal(j), NEW e, LedgerIsTyped(j), LedgerIsTyped(Append(j, e)),
         AttemptsAreDistinct(j), LedgerFits(j, e)
  PROVE  AttemptsAreDistinct(Append(j, e))
<1> DEFINE k == Append(j, e)
           T == {"NODE_STARTED"}
<1>1. Of(k, Attempted) = Of(k, T) /\ Of(j, Attempted) = Of(j, T)
  BY AttemptedAreStarts
<1>2. e.type \in T => \A i \in Of(j, T) : ~ (j[i].node = e.node /\ j[i].attempt = e.attempt)
  BY DEF LedgerFits
<1> HIDE DEF T
<1>3. \A i \in Of(k, T) : \/ i \in Of(j, T) /\ k[i] = j[i]
                          \/ i = Len(j) + 1 /\ e.type \in T /\ k[i] = e
  BY NewPosition
<1>4. \A i, m \in Of(j, T) : j[i].node = j[m].node /\ j[i].attempt = j[m].attempt => i = m
  BY <1>1 DEF AttemptsAreDistinct
<1> HIDE DEF k
<1>5. ASSUME NEW i \in Of(k, T), NEW m \in Of(k, T),
             k[i].node = k[m].node, k[i].attempt = k[m].attempt
      PROVE  i = m
  BY <1>2, <1>3, <1>4, <1>5
<1> QED
  BY <1>1, <1>5 DEF AttemptsAreDistinct, k

\* Reservations alternate with what closes them.
LEMMA ReservationsGrow ==
  ASSUME NEW j, IsJournal(j), NEW e, LedgerIsTyped(j),
         ReservationsAlternate(j), LedgerFits(j, e)
  PROVE  ReservationsAlternate(Append(j, e))
<1> DEFINE k == Append(j, e)
           T == {"BUDGET_RESERVED"}
           U == {"BUDGET_COMMITTED", "BUDGET_RELEASED"}
<1>1. /\ \A i \in DOMAIN j : Before(k, i) = Before(j, i) /\ k[i] = j[i]
      /\ Before(k, Len(j) + 1) = j
  BY Grown
<1>2. /\ \A i \in Of(j, T) : Active(Before(j, i)) = {}
      /\ \A i \in Of(j, U) : /\ j[i].reservation \in Active(Before(j, i))
                             /\ SameOperation(j[i], j[j[i].reservation])
  BY DEF ReservationsAlternate
<1>3. /\ e.type \in T => Active(j) = {}
      /\ e.type \in U => e.reservation \in Active(j) /\ SameOperation(e, j[e.reservation])
  BY DEF LedgerFits
<1> HIDE DEF T, U
<1>4. /\ \A i \in Of(k, T) : \/ i \in Of(j, T) /\ i \in DOMAIN j /\ k[i] = j[i]
                             \/ i = Len(j) + 1 /\ e.type \in T /\ k[i] = e
      /\ \A i \in Of(k, U) : \/ i \in Of(j, U) /\ i \in DOMAIN j /\ k[i] = j[i]
                             \/ i = Len(j) + 1 /\ e.type \in U /\ k[i] = e
  BY NewPosition
<1> HIDE DEF k
<1>5. ASSUME NEW i \in Of(k, T) PROVE Active(Before(k, i)) = {}
  BY <1>1, <1>2, <1>3, <1>4
<1>6. \A r \in Active(j) : r \in DOMAIN j
  BY DEF Active, Of
<1>7. ASSUME NEW i \in DOMAIN j, NEW r \in Active(Before(j, i)) PROVE r \in DOMAIN j
  BY BeforeFacts DEF Active, Of
<1>8. ASSUME NEW i \in Of(k, U)
      PROVE  /\ k[i].reservation \in Active(Before(k, i))
             /\ SameOperation(k[i], k[k[i].reservation])
  <2>1. CASE i \in Of(j, U) /\ i \in DOMAIN j /\ k[i] = j[i]
    <3>1. j[i].reservation \in Active(Before(j, i)) /\ SameOperation(j[i], j[j[i].reservation])
      BY <1>2, <2>1
    <3>2. k[j[i].reservation] = j[j[i].reservation]
      BY <1>1, <1>7, <2>1, <3>1
    <3> QED
      BY <1>1, <2>1, <3>1, <3>2
  <2>2. CASE i = Len(j) + 1 /\ e.type \in U /\ k[i] = e
    <3>1. e.reservation \in Active(j) /\ SameOperation(e, j[e.reservation])
      BY <1>3, <2>2
    <3>2. k[e.reservation] = j[e.reservation]
      BY <1>1, <1>6, <3>1
    <3> QED
      BY <1>1, <2>2, <3>1, <3>2
  <2> QED
    BY <1>4, <2>1, <2>2
<1> QED
  BY <1>5, <1>8 DEF ReservationsAlternate, k, T, U

\* Evidence that agrees with what came before it.
EvidenceFits(p, x) ==
  x.reservation # 0 =>
    /\ \E k \in Of(p, {"BUDGET_COMMITTED"}) :
         p[k].reservation = x.reservation /\ SameOperation(x, p[k])
    /\ x.scope = Blame(Over(p), x.node).scope
    /\ x.dimensions = Blame(Over(p), x.node).dimensions

\* Evidence, piece by piece.
LEMMA EvidenceAgreesIs ==
  ASSUME NEW j, IsJournal(j)
  PROVE  EvidenceAgrees(j) <=>
           \A i \in Of(j, {"BUDGET_EXCEEDED"}) : EvidenceFits(Before(j, i), j[i])
<1> DEFINE Sum(p, i) ==
             (UNION {{s} \X OverLimit(s, CommittedUsage(p, s)) : s \in Scopes})
             \cup (UNION {{j[k].scope} \X j[k].dimensions : k \in Of(p, {"BUDGET_EXCEEDED"})})
           Old(p, i) ==
             j[i].reservation # 0 =>
               /\ \E k \in Of(p, {"BUDGET_COMMITTED"}) :
                    j[k].reservation = j[i].reservation /\ SameOperation(j[i], j[k])
               /\ j[i].scope = Blame(Sum(p, i), j[i].node).scope
               /\ j[i].dimensions = Blame(Sum(p, i), j[i].node).dimensions
<1>1. EvidenceAgrees(j) <=> \A i \in Of(j, {"BUDGET_EXCEEDED"}) : Old(Before(j, i), i)
  BY DEF EvidenceAgrees
<1>2. ASSUME NEW i \in Of(j, {"BUDGET_EXCEEDED"})
      PROVE  EvidenceFits(Before(j, i), j[i]) <=> Old(Before(j, i), i)
  <2> DEFINE p == Before(j, i)
  <2>1. i \in DOMAIN j
    BY DEF Of
  <2>2. \A k \in DOMAIN p : p[k] = j[k]
    BY <2>1, BeforeFacts
  <2> HIDE DEF p
  <2>3. /\ \A k \in Of(p, {"BUDGET_COMMITTED"}) : p[k] = j[k]
        /\ \A k \in Of(p, {"BUDGET_EXCEEDED"}) : p[k] = j[k]
    BY <2>2 DEF Of
  <2>4. Sum(p, i) = Over(p)
    <3>1. {{j[k].scope} \X j[k].dimensions : k \in Of(p, {"BUDGET_EXCEEDED"})}
            = {{p[k].scope} \X p[k].dimensions : k \in Of(p, {"BUDGET_EXCEEDED"})}
      BY <2>3
    <3> QED
      BY <3>1 DEF Over
  <2> HIDE DEF Sum
  <2> QED
    BY <2>3, <2>4 DEF EvidenceFits, p
<1> HIDE DEF Old
<1> QED
  BY <1>1, <1>2

\* A piece of evidence more.
LEMMA EvidenceGrows ==
  ASSUME NEW j, IsJournal(j), NEW e, EvidenceAgrees(j), LedgerFits(j, e)
  PROVE  EvidenceAgrees(Append(j, e))
<1> DEFINE k == Append(j, e)
           T == {"BUDGET_EXCEEDED"}
<1>1. \A i \in Of(j, T) : EvidenceFits(Before(j, i), j[i])
  BY EvidenceAgreesIs
<1>2. e.type \in T => EvidenceFits(j, e)
  BY DEF LedgerFits, EvidenceFits
<1>3. /\ \A i \in DOMAIN j : Before(k, i) = Before(j, i)
      /\ Before(k, Len(j) + 1) = j /\ IsJournal(k)
  BY Grown
<1> HIDE DEF T
<1>4. \A i \in Of(k, T) : \/ i \in Of(j, T) /\ i \in DOMAIN j /\ k[i] = j[i]
                          \/ i = Len(j) + 1 /\ e.type \in T /\ k[i] = e
  BY NewPosition
<1> HIDE DEF k
<1>5. \A i \in Of(k, T) : EvidenceFits(Before(k, i), k[i])
  BY <1>1, <1>2, <1>3, <1>4
<1> QED
  BY <1>3, <1>5, EvidenceAgreesIs DEF k, T

\* Calls under a reservation, and their outcomes after a commit.
LEMMA DispatchesGrow ==
  ASSUME NEW j, IsJournal(j), NEW e, DispatchesAreReserved(j), LedgerFits(j, e)
  PROVE  DispatchesAreReserved(Append(j, e))
<1> DEFINE k == Append(j, e)
           T == {"TOOL_CALLED"}
           C == {"BUDGET_COMMITTED"}
           CallFits(l, p, i) ==
             \E r \in Active(p) :
               /\ l[r].kind = "tool" /\ l[r].node = l[i].node /\ l[r].attempt = l[i].attempt
               /\ \A m \in Of(p, T) : m < r
           EndFits(l, p, i) ==
             \E c \in Of(p, T), m \in Of(p, C) :
               /\ l[c].node = l[i].node /\ l[c].attempt = l[i].attempt
               /\ l[c].step = l[i].step
               /\ l[m].reservation \in Active(Before(l, c))
               /\ l[m].succeeded = (l[i].type = "TOOL_COMPLETED")
<1>1. ASSUME NEW l
      PROVE  DispatchesAreReserved(l) <=>
               /\ \A i \in Of(l, T) : CallFits(l, Before(l, i), i)
               /\ \A i \in Of(l, ToolEnds) : EndFits(l, Before(l, i), i)
  BY DEF DispatchesAreReserved, ToolEnds
<1>2. /\ \A i \in DOMAIN j : Before(k, i) = Before(j, i) /\ k[i] = j[i]
      /\ Before(k, Len(j) + 1) = j
  BY Grown
<1>3. /\ e.type \in T =>
           \E r \in Active(j) :
             /\ j[r].kind = "tool" /\ j[r].node = e.node /\ j[r].attempt = e.attempt
             /\ \A m \in Of(j, T) : m < r
      /\ e.type \in ToolEnds =>
           \E c \in Of(j, T), m \in Of(j, C) :
             /\ j[c].node = e.node /\ j[c].attempt = e.attempt /\ j[c].step = e.step
             /\ j[m].reservation \in Active(Before(j, c))
             /\ j[m].succeeded = (e.type = "TOOL_COMPLETED")
  BY DEF LedgerFits
<1> HIDE DEF T, C, CallFits, EndFits
<1>4. /\ \A i \in Of(k, T) : \/ i \in Of(j, T) /\ i \in DOMAIN j /\ k[i] = j[i]
                             \/ i = Len(j) + 1 /\ e.type \in T /\ k[i] = e
      /\ \A i \in Of(k, ToolEnds) : \/ i \in Of(j, ToolEnds) /\ i \in DOMAIN j /\ k[i] = j[i]
                                    \/ i = Len(j) + 1 /\ e.type \in ToolEnds /\ k[i] = e
  BY NewPosition
<1>5. /\ \A i \in Of(j, T) : CallFits(j, Before(j, i), i)
      /\ \A i \in Of(j, ToolEnds) : EndFits(j, Before(j, i), i)
  BY <1>1
<1> HIDE DEF k
<1>6. /\ \A r \in Active(j) : r \in DOMAIN j
      /\ \A c \in Of(j, T) : c \in DOMAIN j
      /\ \A m \in Of(j, C) : m \in DOMAIN j
  BY DEF Active, Of
<1>7. ASSUME NEW i \in DOMAIN j
      PROVE  /\ \A r \in Active(Before(j, i)) : r \in DOMAIN j
             /\ \A c \in Of(Before(j, i), T) : c \in DOMAIN j
             /\ \A m \in Of(Before(j, i), C) : m \in DOMAIN j
  BY BeforeFacts DEF Active, Of
<1>8. ASSUME NEW i \in Of(k, T) PROVE CallFits(k, Before(k, i), i)
  <2>1. CASE i \in Of(j, T) /\ i \in DOMAIN j /\ k[i] = j[i]
    <3>1. CallFits(j, Before(j, i), i) /\ Before(k, i) = Before(j, i)
      BY <1>2, <1>5, <2>1
    <3>2. \A r \in Active(Before(j, i)) : k[r] = j[r]
      BY <1>2, <1>7, <2>1
    <3> QED
      BY <2>1, <3>1, <3>2 DEF CallFits
  <2>2. CASE i = Len(j) + 1 /\ e.type \in T /\ k[i] = e
    <3>1. \A r \in Active(j) : k[r] = j[r]
      BY <1>2, <1>6
    <3> QED
      BY <1>2, <1>3, <2>2, <3>1 DEF CallFits
  <2> QED
    BY <1>4, <2>1, <2>2
<1>9. ASSUME NEW i \in Of(k, ToolEnds) PROVE EndFits(k, Before(k, i), i)
  <2>1. CASE i \in Of(j, ToolEnds) /\ i \in DOMAIN j /\ k[i] = j[i]
    <3>1. EndFits(j, Before(j, i), i) /\ Before(k, i) = Before(j, i)
      BY <1>2, <1>5, <2>1
    <3>2. /\ \A c \in Of(Before(j, i), T) : k[c] = j[c] /\ Before(k, c) = Before(j, c)
          /\ \A m \in Of(Before(j, i), C) : k[m] = j[m]
      BY <1>2, <1>7, <2>1
    <3> QED
      BY <2>1, <3>1, <3>2 DEF EndFits
  <2>2. CASE i = Len(j) + 1 /\ e.type \in ToolEnds /\ k[i] = e
    <3>1. /\ \A c \in Of(j, T) : k[c] = j[c] /\ Before(k, c) = Before(j, c)
          /\ \A m \in Of(j, C) : k[m] = j[m]
      BY <1>2, <1>6
    <3> QED
      BY <1>2, <1>3, <2>2, <3>1 DEF EndFits
  <2> QED
    BY <1>4, <2>1, <2>2
<1> QED
  BY <1>1, <1>8, <1>9 DEF k

\* An event that fits keeps the ledger replayable.
LEMMA LedgerGrows ==
  ASSUME NEW j, IsJournal(j), NEW e, LedgerIsTyped(j), EntryIsTyped(e, Len(j)),
         LedgerReplays(j), LedgerFits(j, e)
  PROVE  LedgerReplays(Append(j, e)) /\ LedgerIsTyped(Append(j, e))
<1>1. LedgerIsTyped(Append(j, e))
  <2>1. PICK S : j \in Seq(S) /\ e \in S
    BY Grown
  <2> QED
    BY <2>1, EntryKeepsTyped
<1> QED
  BY <1>1, AttemptsGrow, ReservationsGrow, EvidenceGrows, DispatchesGrow DEF LedgerReplays

-----------------------------------------------------------------------------
(* What the executor writes is what the ledger accepts.                    *)

\* Starts stay within the visits of their node.
LEMMA AttemptsStay ==
  ASSUME GraphInv, DispatchInv, Next
  PROVE  \A i \in Of(journal', {"NODE_STARTED"}) :
           journal'[i].attempt <= VisitsIn(journal', journal'[i].node)
<1> DEFINE T == {"NODE_STARTED"}
           Few(j) == \A i \in Of(j, T) : j[i].attempt <= VisitsIn(j, j[i].node)
                                         /\ j[i].attempt \in Nat
<1>1. IsJournal(journal)
  BY DEF GraphInv, TypeInv, JournalIsTyped, IsJournal
<1>2. Few(journal)
  BY DEF GraphInv, TypeInv, JournalIsTyped, EventIsTyped, NodeEvents, Of, DispatchInv
<1>3. ASSUME NEW j, IsJournal(j), NEW e, Few(j),
             e.type \in T => e.attempt <= VisitsIn(j, e.node) + 1 /\ e.attempt \in Nat
      PROVE  Few(Append(j, e))
  <2>1. PICK S : j \in Seq(S) /\ e \in S
    BY <1>3, Grown
  <2>2. \A n : /\ VisitsIn(j, n) \in Nat
               /\ VisitsIn(Append(j, e), n) =
                    IF e.type \in T /\ e.node = n THEN VisitsIn(j, n) + 1 ELSE VisitsIn(j, n)
    BY <2>1, CountGrows, CountsArePicked
  <2> HIDE DEF T
  <2> SUFFICES ASSUME NEW i \in Of(Append(j, e), T)
               PROVE  /\ Append(j, e)[i].attempt <= VisitsIn(Append(j, e), Append(j, e)[i].node)
                      /\ Append(j, e)[i].attempt \in Nat
    OBVIOUS
  <2>3. \/ i \in Of(j, T) /\ Append(j, e)[i] = j[i]
        \/ e.type \in T /\ Append(j, e)[i] = e
    BY <1>3, NewPosition
  <2>4. CASE i \in Of(j, T) /\ Append(j, e)[i] = j[i]
    <3>1. j[i].attempt <= VisitsIn(j, j[i].node) /\ j[i].attempt \in Nat
      BY <1>3, <2>4
    <3>2. VisitsIn(Append(j, e), j[i].node) >= VisitsIn(j, j[i].node)
      BY <2>2
    <3>3. VisitsIn(Append(j, e), j[i].node) \in Nat /\ VisitsIn(j, j[i].node) \in Nat
      BY <2>2
    <3> QED
      BY <2>4, <3>1, <3>2, <3>3
  <2>5. CASE e.type \in T /\ Append(j, e)[i] = e
    BY <1>3, <2>2, <2>5
  <2> QED
    BY <2>3, <2>4, <2>5
<1>4. CASE journal' = journal
  BY <1>2, <1>4
<1>5. CASE RecordCallFails
  <2>1. PICK k : /\ k = journal \/ k = Append(journal, ToolEvent("TOOL_CALLED"))
                 /\ IsJournal(k) /\ journal' = Append(k, Released(journal, session.handle))
    BY <1>5, FailWrites
  <2>2. /\ ToolEvent("TOOL_CALLED").type \notin T
        /\ Released(journal, session.handle).type \notin T
    BY DEF ToolEvent, Released
  <2> HIDE DEF T, Few
  <2>3. Few(k)
    BY <1>1, <1>2, <1>3, <2>1, <2>2
  <2>4. Few(journal')
    BY <1>3, <2>1, <2>2, <2>3
  <2> QED
    BY <2>4 DEF Few, T
<1>6. CASE StartNode
  <2>1. ~ OpenStart(journal) /\ Node \in Nodes /\ Attempt = Concluded(journal, Node) + 1
        /\ Attempt \in Nat
    BY <1>6, StartFacts
  <2>2. PICK e : journal' = Append(journal, e) /\ e.node = Node /\ e.attempt = Attempt
    BY <1>6, StartFacts
  <2>3. VisitsIn(journal, Node) = Concluded(journal, Node)
    BY <2>1 DEF GraphInv, WalkInv
  <2>4. e.attempt <= VisitsIn(journal, e.node) + 1 /\ e.attempt \in Nat
    BY <2>1, <2>2, <2>3
  <2> HIDE DEF T, Few
  <2>5. Few(journal')
    BY <1>1, <1>2, <1>3, <2>2, <2>4
  <2> QED
    BY <2>5 DEF Few, T
<1>7. CASE ~ StartNode /\ \E e : Writes(e)
  <2>1. PICK e : journal' = Append(journal, e) /\ e.type \notin T
    BY <1>7 DEF Writes, Outcomes, ToolEnds
  <2> HIDE DEF T, Few
  <2>2. Few(journal')
    BY <1>1, <1>2, <1>3, <2>1
  <2> QED
    BY <2>2 DEF Few, T
<1> QED
  BY <1>4, <1>5, <1>6, <1>7, StepWrites

\* A start is the first with its attempt.
LEMMA StartIsNew ==
  ASSUME GraphInv, DispatchInv, StartNode,
         NEW e, e.type = "NODE_STARTED", e.node = Node, e.attempt = Attempt
  PROVE  LedgerFits(journal, e)
<1>1. ~ OpenStart(journal) /\ Node \in Nodes /\ Attempt = Concluded(journal, Node) + 1
      /\ Attempt \in Nat
  BY StartFacts
<1>2. VisitsIn(journal, Node) = Concluded(journal, Node)
  BY <1>1 DEF GraphInv, WalkInv
<1>3. Concluded(journal, Node) \in Nat
  <2>1. PICK S : journal \in Seq(S) /\ e \in S
    BY Grown DEF GraphInv, TypeInv, JournalIsTyped, IsJournal
  <2> QED
    BY <2>1, CountGrows, CountsArePicked
<1>4. ASSUME NEW i \in Of(journal, {"NODE_STARTED"}), journal[i].node = Node,
             journal[i].attempt = Attempt
      PROVE  FALSE
  <2>1. journal[i].attempt <= VisitsIn(journal, journal[i].node)
    BY DEF DispatchInv
  <2> QED
    BY <1>1, <1>2, <1>3, <1>4, <2>1
<1> QED
  BY <1>4 DEF LedgerFits, ToolEnds

\* What a node took is part of what the execution took.
LEMMA ElapsedIsPart ==
  ASSUME NEW S, NEW j \in Seq(S), LedgerIsTyped(j), NEW s, Elapsed(j, "execution") = 0
  PROVE  Elapsed(j, s) = 0
<1> DEFINE P == Historical(j, s)
           Q == Historical(j, "execution")
           f == [i \in P |-> j[i].duration]
           g == [i \in Q |-> j[i].duration]
<1>1. P \subseteq Q /\ Q \subseteq Of(j, Outcomes)
  BY DEF Historical, Within, Outcomes, Of
<1>2. IsFiniteSet(Q)
  <2>1. IsJournal(j)
    BY DEF IsJournal
  <2>2. IsFiniteSet(Of(j, Outcomes))
    BY <2>1, OfGrown
  <2> HIDE DEF Q
  <2> QED
    BY <1>1, <2>2, FS_Subset
<1>3. \A i \in Q : g[i] \in Nat
  <2>1. \A i \in Q : i \in DOMAIN j /\ j[i].type \in Outcomes
    BY <1>1 DEF Of
  <2> QED
    BY <2>1 DEF LedgerIsTyped, EntryIsTyped
<1>4. \A i \in P : f[i] = g[i]
  BY <1>1
<1>5. /\ DOMAIN f = P /\ DOMAIN g = Q
      /\ Elapsed(j, s) = Total(f) /\ Elapsed(j, "execution") = Total(g)
  BY DEF Elapsed
<1> HIDE DEF f, g, P, Q
<1>6. IsFiniteSet(Units(g)) /\ Cardinality(Units(g)) = 0
  BY <1>2, <1>3, <1>5, TotalIsNat DEF Total
<1>7. Units(g) = {}
  BY <1>6, FS_EmptySet
<1>8. Units(f) \subseteq Units(g)
  BY <1>1, <1>4, <1>5 DEF Units
<1> QED
  BY <1>5, <1>7, <1>8, FS_EmptySet DEF Total

\* The account of the limits agrees with that of the ledger where no node took time before the
\* first call: what was started is within them, and no gate was run.
LEMMA OverIs ==
  ASSUME GraphInv, LedgerInv, Elapsed(journal, "execution") = 0
  PROVE  ExceededDimensions(journal) = Over(journal)
<1>1. PICK S : journal \in Seq(S)
  BY DEF GraphInv, TypeInv, JournalIsTyped
<1>2. LedgerIsTyped(journal) /\ \A s \in Scopes : LimitAt(journal, s)
  BY LimitsAre DEF LedgerInv, RoomInv
<1>3. ASSUME NEW s \in Scopes
      PROVE  OverLimit(s, Usage(journal, s)) = OverLimit(s, CommittedUsage(journal, s))
  <2>1. ASSUME NEW d \in Dimensions
        PROVE  Usage(journal, s)[d] > Limit[s][d]
                 <=> CommittedUsage(journal, s)[d] > Limit[s][d]
    <3>1. CommittedUsage(journal, s)[d] = Spent(journal, s, d)
      BY DEF CommittedUsage, Spent, Charged
    <3>2. /\ Spent(journal, s, d) \in Nat /\ Usage(journal, s)[d] \in Nat
          /\ Usage(journal, s)[d] =
               IF d = "attempts"
               THEN Spent(journal, s, d) + Cardinality(Charged(journal, {"NODE_STARTED"}, s))
               ELSE Spent(journal, s, d)
      <4>1. Elapsed(journal, s) = 0
        BY <1>1, <1>2, ElapsedIsPart
      <4>2. Metered(journal, s)[d] \in Nat /\ Usage(journal, s)[d] = Metered(journal, s)[d]
        BY <1>1, <1>2, <4>1, UsageIs
      <4> QED
        BY <1>1, <1>2, <4>2, MeteredIs
    <3>3. CASE d # "attempts"
      BY <3>1, <3>2, <3>3
    <3>4. CASE d = "attempts"
      <4>1. Usage(journal, s)[d] <= Limit[s][d]
        BY <1>2, <3>4 DEF LimitAt
      <4>2. Limit[s][d] \in Nat
        BY LimitIsNat
      <4>3. Cardinality(Charged(journal, {"NODE_STARTED"}, s)) \in Nat
        <5>1. IsFiniteSet(Of(journal, {"NODE_STARTED"}))
          BY <1>1, OfGrown DEF IsJournal
        <5>2. Charged(journal, {"NODE_STARTED"}, s) \subseteq Of(journal, {"NODE_STARTED"})
          BY DEF Charged
        <5>3. IsFiniteSet(Charged(journal, {"NODE_STARTED"}, s))
          BY <5>1, <5>2, FS_Subset
        <5> QED
          BY <5>3, FS_CardinalityType
      <4> DEFINE c == Cardinality(Charged(journal, {"NODE_STARTED"}, s))
                 u == Usage(journal, s)[d]
                 p == Spent(journal, s, d)
                 l == Limit[s][d]
      <4>4. u = p + c
        BY <3>2, <3>4
      <4> HIDE DEF c, u, p, l
      <4>5. u <= l /\ l \in Nat /\ c \in Nat /\ p \in Nat
        BY <3>2, <4>1, <4>2, <4>3 DEF c, u, p, l
      <4>6. ~ (u > l) /\ ~ (p > l)
        BY <4>4, <4>5
      <4> QED
        BY <3>1, <4>6 DEF u, p, l
    <3> QED
      BY <3>3, <3>4
  <2> QED
    BY <2>1 DEF OverLimit
<1>4. {{s} \X OverLimit(s, Usage(journal, s)) : s \in Scopes}
        = {{s} \X OverLimit(s, CommittedUsage(journal, s)) : s \in Scopes}
  BY <1>3
<1> QED
  BY <1>4 DEF ExceededDimensions, Over

\* The evidence of an excess says what the ledger has added up.
LEMMA OverrunFits ==
  ASSUME GraphInv, LedgerInv, DispatchInv, session.step = "overrun",
         Elapsed(journal, "execution") = 0
  PROVE  LedgerFits(journal, Overrun(journal, session.handle))
<1> DEFINE held == journal[session.handle]
           e == Overrun(journal, session.handle)
           blame == Blame(Over(journal), held.node)
<1>1. PICK k \in Of(journal, {"BUDGET_COMMITTED"}) :
        journal[k].reservation = session.handle /\ SameOperation(journal[k], held)
  BY DEF DispatchInv
<1>2. /\ e.type = "BUDGET_EXCEEDED" /\ e.node = held.node /\ e.attempt = held.attempt
      /\ e.kind = held.kind /\ e.reservation = session.handle
      /\ e.scope = blame.scope /\ e.dimensions = blame.dimensions
  BY OverIs DEF Overrun, Evidence
<1> HIDE DEF e, blame, held
<1>3. SameOperation(e, journal[k])
  BY <1>1, <1>2 DEF SameOperation
<1> QED
  BY <1>1, <1>2, <1>3 DEF LedgerFits, ToolEnds, e, blame, held

\* A call and its outcome fit the reservation that the session holds.
LEMMA ToolEventFits ==
  ASSUME GraphInv, LedgerInv, DispatchInv, NEW type,
         \/ type = "TOOL_CALLED" /\ session.step = "reserved"
         \/ /\ session.step = "outcome"
            /\ type = IF session.result = "completed" THEN "TOOL_COMPLETED" ELSE "TOOL_FAILED"
  PROVE  LedgerFits(journal, ToolEvent(type))
<1> DEFINE e == ToolEvent(type)
<1>1. /\ e.type = type /\ e.node = Node /\ e.attempt = Attempt
      /\ e.step = session.tools + 1
  BY DEF ToolEvent
<1> HIDE DEF e
<1>2. CASE type = "TOOL_CALLED" /\ session.step = "reserved"
  <2>1. /\ Active(journal) = {session.handle} /\ journal[session.handle].node = Node
        /\ journal[session.handle].kind = "tool"
    BY <1>2 DEF LedgerInv, HoldInv, Holding
  <2>2. /\ journal[session.handle].attempt = Attempt
        /\ \A k \in Of(journal, {"TOOL_CALLED"}) : k < session.handle
    BY <1>2 DEF DispatchInv, Holding
  <2> QED
    BY <1>1, <1>2, <2>1, <2>2 DEF LedgerFits, ToolEnds, e
<1>3. CASE /\ session.step = "outcome"
           /\ type = IF session.result = "completed" THEN "TOOL_COMPLETED" ELSE "TOOL_FAILED"
  <2>1. PICK c \in Of(journal, {"TOOL_CALLED"}) :
          /\ journal[c].node = Node /\ journal[c].attempt = Attempt
          /\ journal[c].step = session.tools + 1
          /\ session.handle \in Active(Before(journal, c))
    BY <1>3 DEF DispatchInv, Waiting
  <2>2. PICK k \in Of(journal, {"BUDGET_COMMITTED"}) :
          /\ journal[k].reservation = session.handle
          /\ journal[k].succeeded = (session.result = "completed")
    BY <1>3 DEF DispatchInv
  <2>3. (type = "TOOL_COMPLETED") = (session.result = "completed")
    BY <1>3
  <2>4. /\ journal[k].reservation \in Active(Before(journal, c))
        /\ journal[k].succeeded = (type = "TOOL_COMPLETED")
    BY <2>1, <2>2, <2>3
  <2>5. type \in ToolEnds /\ type \notin LedgerEvents /\ type # "TOOL_CALLED"
    BY <1>3 DEF ToolEnds, LedgerEvents, BudgetEvents, Outcomes
  <2> QED
    BY <1>1, <2>1, <2>4, <2>5 DEF LedgerFits, LedgerEvents, e
<1> QED
  BY <1>2, <1>3

\* Events that the ledger does not look at.
LEMMA OthersFit ==
  ASSUME NEW p, NEW e, e.type \in Outcomes \cup Approvals \cup {"STATE_TRANSITIONED"}
  PROVE  LedgerFits(p, e)
BY DEF LedgerFits, ToolEnds, Outcomes, Approvals

\* The ledger replays what any step leaves, but for evidence that counts more than its calls.
LEMMA LedgerStays ==
  ASSUME GraphInv, LedgerInv, LedgerInv', DispatchInv, LedgerReplays(journal), Next
  PROVE  \/ LedgerReplays(journal')
         \/ RecordOverrun /\ journal' # journal /\ Elapsed(journal, "execution") # 0
<1>1. /\ IsJournal(journal) /\ LedgerIsTyped(journal) /\ LedgerIsTyped(journal')
      /\ LedgerReplays(journal)
  BY DEF GraphInv, TypeInv, JournalIsTyped, IsJournal, LedgerInv
<1>2. ASSUME NEW j, IsJournal(j), NEW e, LedgerIsTyped(j), LedgerReplays(j),
             journal' = Append(j, e), LedgerFits(j, e)
      PROVE  LedgerReplays(journal')
  <2>1. /\ Len(j) + 1 \in DOMAIN journal' /\ journal'[Len(j) + 1] = e /\ Len(j) + 1 - 1 = Len(j)
    BY <1>2, Grown
  <2>2. EntryIsTyped(e, Len(j))
    BY <1>1, <2>1 DEF LedgerIsTyped
  <2> QED
    BY <1>2, <2>2, LedgerGrows
<1>3. CASE journal' = journal
  BY <1>1, <1>3
<1>4. CASE RecordCallFails
  <2> DEFINE call == ToolEvent("TOOL_CALLED")
             release == Released(journal, session.handle)
  <2>1. PICK k : /\ k = journal \/ k = Append(journal, call)
                 /\ IsJournal(k) /\ journal' = Append(k, release)
    BY <1>4, FailWrites
  <2>2. session.step = "reserved"
    BY <1>4 DEF RecordCallFails
  <2>3. LedgerFits(journal, call) /\ EntryIsTyped(call, Len(journal)) /\ call.type = "TOOL_CALLED"
    <3>1. call.type = "TOOL_CALLED" /\ call.type \in OtherEvents
      BY DEF ToolEvent, OtherEvents
    <3>2. LedgerFits(journal, call)
      BY <2>2, ToolEventFits
    <3> HIDE DEF call
    <3> QED
      BY <3>1, <3>2, OtherIsTyped
  <2>4. Active(journal) = {session.handle} /\ session.handle \in DOMAIN journal
    BY <2>2 DEF LedgerInv, HoldInv, Holding, Active, Of
  <2>5. release.type = "BUDGET_RELEASED" /\ release.reservation = session.handle
        /\ SameOperation(release, journal[session.handle])
    BY DEF Released, SameOperation
  <2> HIDE DEF call, release
  <2>6. /\ LedgerReplays(k) /\ LedgerIsTyped(k) /\ Active(k) = {session.handle}
        /\ k[session.handle] = journal[session.handle]
    <3>1. CASE k = journal
      BY <1>1, <2>4, <3>1
    <3>2. CASE k = Append(journal, call)
      <4>1. LedgerReplays(k) /\ LedgerIsTyped(k)
        BY <1>1, <2>3, <3>2, LedgerGrows
      <4>2. PICK S : journal \in Seq(S) /\ call \in S
        BY <1>1, Grown
      <4>3. call.type \in OtherEvents
        BY <2>3 DEF OtherEvents
      <4>4. Same(journal, k)
        BY <1>1, <2>3, <3>2, <4>2, <4>3, EntryIsSame
      <4> QED
        BY <2>4, <4>1, <4>4 DEF Same
    <3> QED
      BY <2>1, <3>1, <3>2
  <2>7. LedgerFits(k, release)
    BY <2>5, <2>6 DEF LedgerFits, ToolEnds
  <2> QED
    BY <1>2, <2>1, <2>6, <2>7
<1>5. CASE StartNode
  <2>1. PICK e : /\ journal' = Append(journal, e) /\ e.type = "NODE_STARTED"
                 /\ e.node = Node /\ e.attempt = Attempt
    BY <1>5, StartFacts
  <2> QED
    BY <1>1, <1>2, <1>5, <2>1, StartIsNew
<1>6. ASSUME NEW kind, journal' = Append(journal, Denial(journal, Node, Attempt, kind))
      PROVE  LedgerReplays(journal')
  <2> DEFINE e == Denial(journal, Node, Attempt, kind)
  <2>1. e.type = "BUDGET_EXCEEDED" /\ e.reservation = 0
    BY DEF Denial, Evidence
  <2> HIDE DEF e
  <2>2. LedgerFits(journal, e)
    BY <2>1 DEF LedgerFits, ToolEnds
  <2> QED
    BY <1>1, <1>2, <1>6, <2>2 DEF e
<1>7. CASE DenyAttempt
  BY <1>6, <1>7 DEF DenyAttempt, Write
<1>8. CASE ReserveModel \/ ReserveTool
  <2>1. session.step \in {"node", "tools"}
        /\ \E kind : \/ journal' = Append(journal, Denial(journal, Node, Attempt, kind))
                     \/ journal' = Append(journal, Reserved(Node, Attempt, kind))
    BY <1>8 DEF ReserveModel, ReserveTool, DenyCall, ReserveCall, Write
  <2>2. PICK kind : \/ journal' = Append(journal, Denial(journal, Node, Attempt, kind))
                    \/ journal' = Append(journal, Reserved(Node, Attempt, kind))
    BY <2>1
  <2>3. Active(journal) = {}
    BY <2>1 DEF LedgerInv, HoldInv, Holding
  <2>4. Reserved(Node, Attempt, kind).type = "BUDGET_RESERVED"
    BY DEF Reserved
  <2>5. LedgerFits(journal, Reserved(Node, Attempt, kind))
    BY <2>3, <2>4 DEF LedgerFits, ToolEnds
  <2> QED
    BY <1>1, <1>2, <1>6, <2>2, <2>5
<1>9. CASE CommitModel \/ CommitTool
  <2>1. session.step \in {"replied", "dispatched"}
    BY <1>9 DEF CommitModel, CommitTool
  <2>2. PICK succeeded, d : journal' = Append(journal, Committed(journal, session.handle, succeeded, d))
    BY <1>9 DEF CommitModel, CommitTool, Write
  <2> DEFINE e == Committed(journal, session.handle, succeeded, d)
  <2>3. /\ e.type = "BUDGET_COMMITTED" /\ e.reservation = session.handle
        /\ SameOperation(e, journal[session.handle])
    BY DEF Committed, SameOperation
  <2> HIDE DEF e
  <2>4. Active(journal) = {session.handle}
    BY <2>1 DEF LedgerInv, HoldInv, Holding
  <2>5. LedgerFits(journal, e)
    BY <2>3, <2>4 DEF LedgerFits, ToolEnds
  <2> QED
    BY <1>1, <1>2, <2>2, <2>5 DEF e
<1>10. CASE RecordOverrun
  <2>1. /\ session.step = "overrun"
        /\ \/ journal' = journal
           \/ journal' = Append(journal, Overrun(journal, session.handle))
    BY <1>10 DEF RecordOverrun, Write
  <2> QED
    BY <1>1, <1>2, <1>10, <2>1, OverrunFits
<1>11. CASE RecordCall
  <2>1. session.step = "reserved" /\ journal' = Append(journal, ToolEvent("TOOL_CALLED"))
    BY <1>11 DEF RecordCall, Write
  <2> QED
    BY <1>1, <1>2, <2>1, ToolEventFits
<1>12. CASE RecordOutcome
  <2> DEFINE type == IF session.result = "completed" THEN "TOOL_COMPLETED" ELSE "TOOL_FAILED"
  <2>1. session.step = "outcome" /\ journal' = Append(journal, ToolEvent(type))
    BY <1>12 DEF RecordOutcome, Write
  <2>2. LedgerFits(journal, ToolEvent(type))
    BY <2>1, ToolEventFits
  <2> HIDE DEF type
  <2> QED
    BY <1>1, <1>2, <2>1, <2>2
<1>13. CASE \E e : /\ journal' = Append(journal, e)
                   /\ e.type \in Outcomes \cup Approvals \cup {"STATE_TRANSITIONED"}
  BY <1>1, <1>2, <1>13, OthersFit
<1>14. ASSUME NEW e, Writes(e)
       PROVE  \/ StartNode \/ DenyAttempt \/ ReserveModel \/ ReserveTool \/ CommitModel
              \/ CommitTool \/ RecordOverrun \/ RecordCall \/ RecordOutcome
              \/ \E x : /\ journal' = Append(journal, x)
                        /\ x.type \in Outcomes \cup Approvals \cup {"STATE_TRANSITIONED"}
  BY <1>14 DEF Writes, Approvals
<1> QED
  BY <1>3, <1>4, <1>5, <1>7, <1>8, <1>9, <1>10, <1>11, <1>12, <1>13, <1>14, StepWrites

-----------------------------------------------------------------------------
(* The reservation that a session holds.                                   *)

\* What a session s with journal j knows of the call that it is in.
InHand(s, j, node, attempt) ==
  LET over == s.step = "overrun" /\ j[s.handle].kind = "tool"
  IN  /\ s.step \in Holding \cup {"overrun"} =>
           j[s.handle].node = node /\ j[s.handle].attempt = attempt
      /\ s.step = "overrun" =>
           \E k \in Of(j, {"BUDGET_COMMITTED"}) :
             j[k].reservation = s.handle /\ SameOperation(j[k], j[s.handle])
      /\ s.step = "reserved" => \A k \in Of(j, {"TOOL_CALLED"}) : k < s.handle
      /\ s.step \in {"called", "dispatched", "outcome"} \/ over =>
           \E c \in Of(j, {"TOOL_CALLED"}) :
             /\ j[c].node = node /\ j[c].attempt = attempt /\ j[c].step = s.tools + 1
             /\ s.handle \in Active(Before(j, c))
      /\ s.step = "outcome" \/ over =>
           \E k \in Of(j, {"BUDGET_COMMITTED"}) :
             j[k].reservation = s.handle /\ j[k].succeeded = (s.result = "completed")

\* It is what the invariant says of it.
LEMMA DispatchIs ==
  DispatchInv <=>
    /\ \A i \in Of(journal, {"NODE_STARTED"}) :
         journal[i].attempt <= VisitsIn(journal, journal[i].node)
    /\ InHand(session, journal, Node, Attempt)
BY DEF DispatchInv, InHand, Waiting, OverTool

\* A session keeps the call that it is in, or takes the next.
LEMMA InHandStays ==
  ASSUME GraphInv, LedgerInv, DispatchInv, Next
  PROVE  InHand(session', journal', Node', Attempt')
<1>1. IsJournal(journal) /\ session \in Session
  BY DEF GraphInv, TypeInv, JournalIsTyped, IsJournal
<1>2. InHand(session, journal, Node, Attempt)
  BY DispatchIs
<1>3. ASSUME session'.step \notin {"model", "replied", "reserved", "called", "dispatched",
                                   "overrun", "outcome"}
      PROVE  InHand(session', journal', Node', Attempt')
  BY <1>3 DEF InHand, Holding
<1>4. {"model", "replied", "reserved", "called", "dispatched", "overrun", "outcome"}
        \subseteq Inside
  BY InsideSteps
<1>5. CASE session'.step \notin Inside
  BY <1>3, <1>4, <1>5
<1>6. CASE StartNode
  BY <1>3, <1>6, StartFacts
<1>7. CASE session'.step \in Inside /\ session.step \in Inside
  <2>1. Node' = Node /\ Attempt' = Attempt
    <3>1. session'.step # "idle" /\ session'.step # "loop" /\ ~ Begins /\ ~ StartNode
      BY <1>7, InsideSteps, StartFacts DEF Begins
    <3>2. ~ FinishNode
      BY <3>1, FinishFacts DEF Idle, At
    <3>3. GoesOn
      BY <3>1, <3>2, SessionMoves
    <3> QED
      BY <3>3 DEF GoesOn, Node, Attempt
  <2>2. session.step \in Holding => Active(journal) = {session.handle}
    BY DEF LedgerInv, HoldInv
  <2>3. session.step \in Holding \cup {"overrun"} => session.handle \in DOMAIN journal
    BY HandleIsThere DEF Holding
  <2>4. ASSUME NEW e, journal' = Append(journal, e)
        PROVE  /\ \A i \in DOMAIN journal : journal'[i] = journal[i]
                                            /\ Before(journal', i) = Before(journal, i)
               /\ journal'[Len(journal) + 1] = e /\ Before(journal', Len(journal) + 1) = journal
               /\ Len(journal) \in Nat /\ DOMAIN journal = 1 .. Len(journal)
    BY <1>1, <2>4, Grown
  <2>5. ASSUME NEW e, NEW type, journal' = Append(journal, e)
        PROVE  /\ Of(journal, {type}) \subseteq DOMAIN journal
               /\ Of(journal, {type}) \subseteq Of(journal', {type})
               /\ e.type # type => Of(journal', {type}) = Of(journal, {type})
               /\ e.type = type => Len(journal) + 1 \in Of(journal', {type})
    <3> DEFINE T == {type}
    <3>1. e.type \in T <=> e.type = type
      OBVIOUS
    <3> HIDE DEF T
    <3>2. /\ Of(journal', T) = IF e.type \in T THEN Of(journal, T) \cup {Len(journal) + 1}
                               ELSE Of(journal, T)
          /\ Of(journal, T) \subseteq DOMAIN journal
      BY <1>1, <2>5, OfGrown
    <3> QED
      BY <3>1, <3>2 DEF T
  <2>6. CASE Works
    <3>1. journal' = journal /\ session'.tools = session.tools /\ session'.handle = session.handle
      BY <2>6 DEF Works, Kept
    <3>2. \/ session'.step = "result"
          \/ session.step = "model" /\ session'.step = "replied"
          \/ session.step = "called" /\ session'.step = "dispatched"
      BY <2>6 DEF Works, To
    <3> QED
      BY <1>2, <1>3, <2>1, <3>1, <3>2 DEF InHand, Holding
  <2>7. CASE Reserves
    <3>1. CASE session'.step = "result"
      BY <1>3, <3>1
    <3>2. CASE session'.step # "result"
      <4>1. PICK kind \in Kinds :
              /\ journal' = Append(journal, Reserved(Node, Attempt, kind))
              /\ session'.handle = Len(journal) + 1
              /\ session'.step \in {"model", "reserved"}
        BY <2>7, <3>2 DEF Reserves, To
      <4> DEFINE e == Reserved(Node, Attempt, kind)
      <4>2. e.node = Node /\ e.attempt = Attempt /\ e.type = "BUDGET_RESERVED"
        BY DEF Reserved
      <4> HIDE DEF e
      <4>3. journal'[session'.handle] = e
        BY <2>4, <4>1 DEF e
      <4>4. Of(journal', {"TOOL_CALLED"}) = Of(journal, {"TOOL_CALLED"})
            /\ Of(journal, {"TOOL_CALLED"}) \subseteq DOMAIN journal
        BY <2>5, <4>1, <4>2 DEF e
      <4>5. \A k \in Of(journal', {"TOOL_CALLED"}) : k < session'.handle
        BY <2>4, <4>1, <4>4
      <4> QED
        BY <2>1, <4>1, <4>2, <4>3, <4>5 DEF InHand
    <3> QED
      BY <3>1, <3>2
  <2>8. CASE Commits
    <3>1. PICK succeeded \in BOOLEAN, d \in Durations :
            /\ journal' = Append(journal, Committed(journal, session.handle, succeeded, d))
            /\ session'.tools = session.tools /\ session'.handle = session.handle
            /\ \/ /\ session.step = "replied"
                  /\ session'.step \in {"overrun", "node", "tools", "result"}
               \/ /\ session.step = "dispatched" /\ session'.step \in {"overrun", "outcome"}
                  /\ session'.result = session.result
                  /\ succeeded <=> session.result = "completed"
      BY <2>8 DEF Commits, Kept
    <3> DEFINE e == Committed(journal, session.handle, succeeded, d)
               held == journal[session.handle]
    <3>2. /\ e.type = "BUDGET_COMMITTED" /\ e.reservation = session.handle
          /\ e.succeeded = succeeded /\ SameOperation(e, held)
      BY DEF Committed, SameOperation
    <3> HIDE DEF e
    <3>3. session.step \in Holding
      BY <3>1 DEF Holding
    <3>4. /\ session.handle \in DOMAIN journal
          /\ held.node = Node /\ held.attempt = Attempt
          /\ session.step = "replied" => held.kind = "model"
      BY <1>2, <2>3, <3>3 DEF InHand, LedgerInv, HoldInv
    <3>5. journal'[session'.handle] = held /\ journal'[Len(journal) + 1] = e
          /\ Len(journal) + 1 \in Of(journal', {"BUDGET_COMMITTED"})
      BY <2>4, <2>5, <3>1, <3>2, <3>4 DEF e
    <3> HIDE DEF held
    <3>6. \E k \in Of(journal', {"BUDGET_COMMITTED"}) :
            /\ journal'[k].reservation = session'.handle
            /\ SameOperation(journal'[k], journal'[session'.handle])
            /\ journal'[k].succeeded = succeeded
      BY <3>1, <3>2, <3>5
    <3>7. ASSUME session.step = "dispatched"
          PROVE  \E c \in Of(journal', {"TOOL_CALLED"}) :
                   /\ journal'[c].node = Node /\ journal'[c].attempt = Attempt
                   /\ journal'[c].step = session'.tools + 1
                   /\ session'.handle \in Active(Before(journal', c))
      <4>1. PICK c \in Of(journal, {"TOOL_CALLED"}) :
              /\ journal[c].node = Node /\ journal[c].attempt = Attempt
              /\ journal[c].step = session.tools + 1
              /\ session.handle \in Active(Before(journal, c))
        BY <1>2, <3>7 DEF InHand
      <4>2. c \in Of(journal', {"TOOL_CALLED"}) /\ c \in DOMAIN journal
        BY <2>5, <3>1
      <4> QED
        BY <2>4, <3>1, <4>1, <4>2
    <3>8. session.step = "dispatched" => succeeded = (session'.result = "completed")
      BY <3>1
    <3>9. session.step = "replied" => journal'[session'.handle].kind # "tool"
      BY <3>4, <3>5
    <3>10. journal'[session'.handle].node = Node /\ journal'[session'.handle].attempt = Attempt
      BY <3>4, <3>5
    <3>11. ASSUME session.step = "replied" PROVE InHand(session', journal', Node, Attempt)
      BY <3>1, <3>6, <3>9, <3>10, <3>11 DEF InHand, Holding
    <3>12. ASSUME session.step = "dispatched" PROVE InHand(session', journal', Node, Attempt)
      <4>1. session'.step \in {"overrun", "outcome"}
        BY <3>1, <3>12
      <4>2. \E k \in Of(journal', {"BUDGET_COMMITTED"}) :
              /\ journal'[k].reservation = session'.handle
              /\ journal'[k].succeeded = (session'.result = "completed")
        BY <3>6, <3>8, <3>12
      <4> QED
        BY <3>6, <3>7, <3>10, <3>12, <4>1, <4>2 DEF InHand, Holding
    <3> QED
      BY <2>1, <3>1, <3>11, <3>12
  <2>9. CASE Blames
    <3>1. CASE session'.step = "result"
      BY <1>3, <3>1
    <3>2. CASE session'.step # "result"
      <4>1. /\ journal' = Append(journal, Overrun(journal, session.handle))
            /\ session'.tools = session.tools /\ session'.handle = session.handle
            /\ session.step = "overrun" /\ session'.step = "outcome"
            /\ journal[session.handle].kind = "tool" /\ session'.result = session.result
        BY <2>9, <3>2 DEF Blames, Kept, To
      <4>2. PICK c \in Of(journal, {"TOOL_CALLED"}) :
              /\ journal[c].node = Node /\ journal[c].attempt = Attempt
              /\ journal[c].step = session.tools + 1
              /\ session.handle \in Active(Before(journal, c))
        BY <1>2, <4>1 DEF InHand
      <4>3. PICK k \in Of(journal, {"BUDGET_COMMITTED"}) :
              /\ journal[k].reservation = session.handle
              /\ journal[k].succeeded = (session.result = "completed")
        BY <1>2, <4>1 DEF InHand
      <4>4. /\ c \in Of(journal', {"TOOL_CALLED"}) /\ c \in DOMAIN journal
            /\ k \in Of(journal', {"BUDGET_COMMITTED"}) /\ k \in DOMAIN journal
        BY <2>5, <4>1
      <4>5. /\ journal'[c] = journal[c] /\ journal'[k] = journal[k]
            /\ Before(journal', c) = Before(journal, c)
        BY <2>4, <4>1, <4>4
      <4>6. session'.step \notin Holding \cup {"overrun"} /\ session'.step # "reserved"
        BY <4>1 DEF Holding
      <4> QED
        BY <2>1, <4>1, <4>2, <4>3, <4>4, <4>5, <4>6 DEF InHand
    <3> QED
      BY <3>1, <3>2
  <2>10. CASE Dispatches
    <3>1. CASE session'.step \in {"result", "tools", "node"}
      BY <1>3, <3>1
    <3>2. CASE session'.step \notin {"result", "tools", "node"}
      <4>1. /\ journal' = Append(journal, ToolEvent("TOOL_CALLED"))
            /\ session'.tools = session.tools /\ session'.handle = session.handle
            /\ session.step = "reserved" /\ session'.step = "called"
        BY <2>10, <3>2 DEF Dispatches, Kept, To
      <4> DEFINE e == ToolEvent("TOOL_CALLED")
      <4>2. /\ e.type = "TOOL_CALLED" /\ e.node = Node /\ e.attempt = Attempt
            /\ e.step = session.tools + 1
        BY DEF ToolEvent
      <4> HIDE DEF e
      <4>3. Active(journal) = {session.handle} /\ session.handle \in DOMAIN journal
            /\ journal[session.handle].node = Node /\ journal[session.handle].attempt = Attempt
        BY <1>2, <2>2, <2>3, <4>1 DEF InHand, Holding
      <4>4. /\ Len(journal) + 1 \in Of(journal', {"TOOL_CALLED"})
            /\ journal'[Len(journal) + 1] = e
            /\ Before(journal', Len(journal) + 1) = journal
            /\ journal'[session.handle] = journal[session.handle]
        BY <2>4, <2>5, <4>1, <4>2, <4>3 DEF e
      <4> QED
        BY <2>1, <4>1, <4>2, <4>3, <4>4 DEF InHand
    <3> QED
      BY <3>1, <3>2
  <2>11. CASE session'.step \in {"raised", "loop"}
    BY <1>3, <2>11
  <2> QED
    BY <1>7, <2>6, <2>7, <2>8, <2>9, <2>10, <2>11, VisitMoves, InsideSteps DEF To
<1> QED
  BY <1>5, <1>6, <1>7, InsideComes

\* Calls are dispatched and settled under the reservation of their session.
LEMMA DispatchKeeps ==
  ASSUME GraphInv, LedgerInv, DispatchInv, Next
  PROVE  DispatchInv'
<1>1. \A i \in Of(journal', {"NODE_STARTED"}) :
        journal'[i].attempt <= VisitsIn(journal', journal'[i].node)
  BY AttemptsStay
<1>2. InHand(session', journal', Node', Attempt')
  BY InHandStays
<1> QED
  BY <1>1, <1>2 DEF DispatchInv, InHand, Waiting, OverTool

-----------------------------------------------------------------------------
(* Revisions: the place of an event among those that move the record.      *)

\* One such event more.
LEMMA MutatedGrows ==
  ASSUME NEW j, IsJournal(j), NEW e
  PROVE  /\ Mutated(j) \in Nat
         /\ Mutated(Append(j, e)) =
              IF e.type \in Mutations THEN Mutated(j) + 1 ELSE Mutated(j)
<1>1. /\ Of(Append(j, e), Mutations) =
           IF e.type \in Mutations THEN Of(j, Mutations) \cup {Len(j) + 1} ELSE Of(j, Mutations)
      /\ Of(j, Mutations) \subseteq 1 .. Len(j) /\ IsFiniteSet(Of(j, Mutations))
  BY OfGrown
<1>2. Len(j) + 1 \notin Of(j, Mutations)
  <2>1. Len(j) \in Nat
    BY Grown
  <2> QED
    BY <1>1, <2>1
<1>3. /\ Cardinality(Of(j, Mutations)) \in Nat
      /\ Cardinality(Of(j, Mutations) \cup {Len(j) + 1}) = Cardinality(Of(j, Mutations)) + 1
  BY <1>1, <1>2, FS_AddElement, FS_CardinalityType
<1> QED
  BY <1>1, <1>3 DEF Mutated

\* Ranks stay, and the new event has the next.
LEMMA RankedGrows ==
  ASSUME NEW j, IsJournal(j), NEW e, Ranked(j),
         e.type \in Mutations => e.revision = Mutated(j) + 1
  PROVE  Ranked(Append(j, e))
<1> DEFINE k == Append(j, e)
           Until(l, i) == {m \in Of(l, Mutations) : m <= i}
<1>1. /\ Of(k, Mutations) =
           IF e.type \in Mutations THEN Of(j, Mutations) \cup {Len(j) + 1} ELSE Of(j, Mutations)
      /\ Of(j, Mutations) \subseteq 1 .. Len(j)
      /\ Len(j) \in Nat
  BY OfGrown, Grown
<1>2. Mutated(k) = IF e.type \in Mutations THEN Mutated(j) + 1 ELSE Mutated(j)
  BY MutatedGrows
<1>3. \A i \in Of(k, Mutations) : \/ i \in Of(j, Mutations) /\ i \in DOMAIN j /\ k[i] = j[i]
                                  \/ i = Len(j) + 1 /\ e.type \in Mutations /\ k[i] = e
  BY NewPosition
<1> HIDE DEF k
<1>4. ASSUME NEW i \in Of(k, Mutations)
      PROVE  k[i].revision = Cardinality(Until(k, i))
  <2>1. CASE i \in Of(j, Mutations) /\ k[i] = j[i]
    <3>1. i \in 1 .. Len(j)
      BY <1>1, <2>1
    <3>2. \A m : m \in Until(k, i) <=> m \in Until(j, i)
      BY <1>1, <3>1
    <3>3. Until(k, i) = Until(j, i)
      BY <3>2
    <3> QED
      BY <2>1, <3>3 DEF Ranked
  <2>2. CASE i = Len(j) + 1 /\ e.type \in Mutations /\ k[i] = e
    <3>1. \A m \in Of(k, Mutations) : m <= i
      BY <1>1, <2>2
    <3>2. Until(k, i) = Of(k, Mutations)
      BY <3>1
    <3> QED
      BY <1>2, <2>2, <3>2 DEF Mutated
  <2> QED
    BY <1>3, <2>1, <2>2
<1> QED
  BY <1>4 DEF Ranked, k

\* Only the last event has the highest rank.
LEMMA RanksAre ==
  ASSUME NEW j, IsJournal(j), Ranked(j), NEW i \in Of(j, Mutations)
  PROVE  /\ j[i].revision \in Nat /\ j[i].revision <= Mutated(j) /\ Mutated(j) \in Nat
         /\ j[i].revision = Mutated(j) <=> \A k \in Of(j, Mutations) : k <= i
<1> DEFINE M == Of(j, Mutations)
           U == {k \in M : k <= i}
<1>1. IsFiniteSet(M) /\ M \subseteq 1 .. Len(j)
  BY OfGrown
<1>2. j[i].revision = Cardinality(U) /\ Mutated(j) = Cardinality(M)
  BY DEF Ranked, Mutated
<1>3. i \in M
  OBVIOUS
<1> HIDE DEF M
<1>4. /\ IsFiniteSet(U) /\ U \subseteq M
      /\ Cardinality(U) \in Nat /\ Cardinality(M) \in Nat /\ Cardinality(U) <= Cardinality(M)
  <2>1. U \subseteq M
    OBVIOUS
  <2>2. IsFiniteSet(U) /\ Cardinality(U) <= Cardinality(M)
    BY <1>1, <2>1, FS_Subset
  <2> QED
    BY <1>1, <2>1, <2>2, FS_CardinalityType
<1>5. Cardinality(U) = Cardinality(M) => U = M
  BY <1>1, <1>4, FS_Subset
<1>6. U = M <=> \A k \in M : k <= i
  OBVIOUS
<1> HIDE DEF U
<1> QED
  BY <1>2, <1>4, <1>5, <1>6 DEF M

\* What a record of revision r does not show yet.
Lacks(j, r, types) == {i \in Of(j, types) : j[i].revision = r + 1}

\* Of a type of event that does not move the record nothing is asked.
LEMMA NothingLacks ==
  ASSUME NEW j, IsJournal(j), Ranked(j), NEW types \in SUBSET Mutations
  PROVE  Lacks(j, Mutated(j), types) = {}
<1>1. Of(j, types) \subseteq Of(j, Mutations)
  BY DEF Of
<1> SUFFICES ASSUME NEW i \in Of(j, types), j[i].revision = Mutated(j) + 1 PROVE FALSE
  BY DEF Lacks
<1>2. j[i].revision <= Mutated(j) /\ Mutated(j) \in Nat
  BY <1>1, RanksAre
<1> QED
  BY <1>2

\* A record that is one revision behind lacks the last of them.
LEMMA OneLacks ==
  ASSUME NEW j, IsJournal(j), Ranked(j), NEW r \in Nat, Mutated(j) = r + 1,
         NEW k \in Of(j, Mutations), \A i \in Of(j, Mutations) : i <= k,
         NEW types \in SUBSET Mutations
  PROVE  /\ Lacks(j, r, types) = IF j[k].type \in types THEN {k} ELSE {}
         /\ j[k].revision = r + 1
<1>1. /\ Of(j, types) \subseteq Of(j, Mutations)
      /\ k \in Of(j, types) <=> j[k].type \in types
      /\ \A i \in Of(j, Mutations) : i \in Nat
  BY DEF Of, IsJournal
<1>2. ASSUME NEW i \in Of(j, Mutations) PROVE j[i].revision = r + 1 <=> i = k
  <2>1. j[i].revision = Mutated(j) <=> \A m \in Of(j, Mutations) : m <= i
    BY RanksAre
  <2>2. (\A m \in Of(j, Mutations) : m <= i) <=> i = k
    BY <1>1
  <2> QED
    BY <2>1, <2>2
<1> QED
  BY <1>1, <1>2 DEF Lacks

\* What is pending, and where.
LEMMA PendingIs ==
  /\ PendingTransition = Lacks(journal, record.revision, {"STATE_TRANSITIONED"})
  /\ PendingApproval = Lacks(journal, record.revision, Approvals)
BY DEF PendingTransition, PendingApproval, Lacks

\* A record that has shown everything has nothing pending.
LEMMA SettledFacts ==
  ASSUME GraphInv, Ranked(journal), Settled
  PROVE  PendingTransition = {} /\ PendingApproval = {} /\ ~ IsPending(journal)
<1>1. IsJournal(journal)
  BY DEF GraphInv, TypeInv, JournalIsTyped, IsJournal
<1>2. {"STATE_TRANSITIONED"} \subseteq Mutations /\ Approvals \subseteq Mutations
      /\ Outcomes \subseteq Mutations
  BY DEF Mutations
<1>3. ASSUME NEW types \in SUBSET Mutations PROVE Lacks(journal, record.revision, types) = {}
  BY <1>1, NothingLacks DEF Settled
<1>4. PendingTransition = {} /\ PendingApproval = {}
  BY <1>2, <1>3, PendingIs
<1>5. ~ IsPending(journal)
  <2> SUFFICES ASSUME IsPending(journal) PROVE FALSE
    OBVIOUS
  <2>1. LastOutcome(journal) \in Of(journal, Outcomes)
    BY <1>1, LastOutcomeIs DEF IsPending, IsJournal
  <2>2. LastOutcome(journal) \in Lacks(journal, record.revision, Outcomes)
    BY <2>1 DEF IsPending, Lacks
  <2> QED
    BY <1>2, <1>3, <2>2
<1> QED
  BY <1>4, <1>5

\* Evidence that the ledger refuses closes the journal.
LEMMA RefusedIsClosed ==
  ASSUME GraphInv, GraphInv', LedgerInv, LoopInv, RevisionInv, LedgerReplays(journal),
         RecordOverrun, journal' # journal, Elapsed(journal, "execution") # 0,
         ~ LedgerReplays(journal')
  PROVE  Closed'
<1> DEFINE e == Overrun(journal, session.handle)
           T == {"BUDGET_EXCEEDED"}
<1>1. /\ session.step = "overrun" /\ journal' = Append(journal, e) /\ record' = record
      /\ Fail \/ session' = Idle
  BY DEF RecordOverrun, Write
<1>2. e.type = "BUDGET_EXCEEDED" /\ e.type \in T
  BY DEF Overrun, Evidence
<1> HIDE DEF e, T
<1>3. PICK S : journal \in Seq(S) /\ e \in S
  BY Grown DEF GraphInv, TypeInv, JournalIsTyped, IsJournal
<1>4. IsJournal(journal)
  BY <1>3 DEF IsJournal
<1>5. /\ Len(journal) \in Nat /\ Len(journal') = Len(journal) + 1
      /\ Before(journal', Len(journal')) = journal
      /\ \A i \in DOMAIN journal : journal'[i] = journal[i]
  BY <1>1, <1>4, Grown
<1>6. Len(journal') \in Of(journal', T)
  BY <1>1, <1>2, <1>4, <1>5, OfGrown
<1>7. session'.step \in {"result", "idle"}
  <2>1. Fail => session'.step = "result"
    BY DEF Fail, GraphInv, TypeInv, Session
  <2>2. Idle.step = "idle"
    BY DEF Idle, At
  <2> QED
    BY <1>1, <2>1, <2>2
<1>8. session.step \in Inside /\ session.step \in Calling /\ session.step \notin {"idle", "loop"}
  BY <1>1, InsideSteps
<1>9. OpenStart(journal')
  <2>1. OpenStart(journal) /\ e.type \notin Outcomes
    BY <1>2, <1>8 DEF GraphInv, PlaceInv, Outcomes
  <2> QED
    BY <1>1, <1>3, <2>1, WalkGrows
<1>10. Elapsed(journal', "execution") > 0
  <2>1. EntryIsTyped(e, Len(journal)) /\ LedgerIsTyped(journal) /\ e.type \notin Outcomes
    BY <1>2 DEF EntryIsTyped, LedgerInv, LedgerEvents, BudgetEvents, Outcomes
  <2>2. Took(journal, e, "execution") = 0
    BY <2>1 DEF Took
  <2>3. /\ Elapsed(journal, "execution") \in Nat
        /\ Elapsed(journal', "execution") = Elapsed(journal, "execution") + 0
    BY <1>1, <1>3, <2>1, <2>2, ElapsedGrows
  <2> QED
    BY <2>3
<1>11. EvidenceRefused'
  BY <1>5, <1>6, <1>7, <1>9, <1>10 DEF EvidenceRefused, T
<1>12. record'.state = "EXECUTING" /\ Node' \in Agents
  BY <1>1, <1>8 DEF LoopInv, GraphInv, EffectInv, SessionFits, Node
<1>13. PendingTransition = {} /\ PendingApproval = {}
  BY <1>8, SettledFacts DEF RevisionInv
<1>14. PendingTransition' = {} /\ PendingApproval' = {}
  <2>1. ASSUME NEW types, e.type \notin types
        PROVE  /\ Of(journal', types) = Of(journal, types)
               /\ \A i \in Of(journal, types) : journal'[i] = journal[i]
    BY <1>1, <1>4, <1>5, <2>1, OfGrown
  <2>2. e.type \notin {"STATE_TRANSITIONED"} /\ e.type \notin Approvals
    BY <1>2 DEF Approvals
  <2> DEFINE M == {"STATE_TRANSITIONED"}
  <2> HIDE DEF M
  <2>3. /\ Of(journal', M) = Of(journal, M) /\ Of(journal', Approvals) = Of(journal, Approvals)
        /\ \A i \in Of(journal, M) \cup Of(journal, Approvals) : journal'[i] = journal[i]
    BY <2>1, <2>2 DEF M
  <2> QED
    BY <1>1, <1>13, <2>3 DEF PendingTransition, PendingApproval, M
<1> QED
  BY <1>11, <1>12, <1>14 DEF Closed

\* Nothing is written in a journal that is closed.
LEMMA ClosedStays ==
  ASSUME GraphInv, Closed, ~ LedgerReplays(journal), Next
  PROVE  journal' = journal /\ record' = record /\ session'.step \in {"result", "idle"}
<1>1. /\ session.step \in {"result", "idle"} /\ OpenStart(journal)
      /\ record.state = "EXECUTING" /\ Node \in Agents \ Humans
      /\ PendingTransition = {} /\ PendingApproval = {}
  BY GraphIsCompiled DEF Closed, EvidenceRefused
<1>2. ~ (RecoverState \/ RecoverApproval \/ Execute \/ PrepareResume \/ Resume \/ Approve)
  BY <1>1 DEF RecoverState, RecoverApproval, Execute, PrepareResume, Resume, Approve, Node
<1>3. ~ (\/ RefuseVisit \/ ExhaustRetries \/ RequestApproval \/ PauseForApproval
         \/ DenyAttempt \/ StartNode \/ ResolveTerminal \/ RunPolicy \/ PassGate
         \/ ReserveModel \/ CallModel \/ CommitModel \/ RecordOverrun \/ ReserveTool
         \/ RecordCall \/ DispatchTool \/ CommitTool \/ RecordOutcome \/ RecordCallFails)
  BY <1>1 DEF RefuseVisit, ExhaustRetries, RequestApproval, PauseForApproval, DenyAttempt,
     StartNode, ResolveTerminal, RunPolicy, PassGate, ReserveModel, CallModel, CommitModel,
     RecordOverrun, ReserveTool, RecordCall, DispatchTool, CommitTool, RecordOutcome,
     RecordCallFails, Visiting, InLoop
<1>4. ~ (FinishNode \/ ExceedBudget)
  BY <1>1 DEF FinishNode, ExceedBudget
<1>5. CASE Raise \/ Abort
  BY <1>5 DEF Raise, Abort, Idle, At
<1> QED
  BY <1>2, <1>3, <1>4, <1>5 DEF Next, Proceed, Traverse

\* The ledger replays the journal, or it is closed.
LEMMA ReplayKeeps ==
  ASSUME GraphInv, GraphInv', LedgerInv, LedgerInv', LoopInv, DispatchInv, RevisionInv,
         ReplayInv, Next
  PROVE  ReplayInv'
<1>1. CASE LedgerReplays(journal)
  BY <1>1, LedgerStays, RefusedIsClosed DEF ReplayInv
<1>2. CASE ~ LedgerReplays(journal)
  <2>1. Closed
    BY <1>2 DEF ReplayInv
  <2>2. journal' = journal /\ record' = record /\ session'.step \in {"result", "idle"}
    BY <1>2, <2>1, ClosedStays
  <2>3. EvidenceRefused'
    BY <2>1, <2>2 DEF Closed, EvidenceRefused
  <2>4. /\ record'.state = "EXECUTING" /\ Node' \in Agents
        /\ PendingTransition' = {} /\ PendingApproval' = {}
    BY <2>1, <2>2 DEF Closed, Node, PendingTransition, PendingApproval
  <2> QED
    BY <2>3, <2>4 DEF ReplayInv, Closed
<1> QED
  BY <1>1, <1>2

\* A record that has not, has one event pending.
LEMMA AheadFacts ==
  ASSUME GraphInv, Ranked(journal), NEW k, Ahead(k)
  PROVE  /\ ~ Settled /\ k \in DOMAIN journal /\ journal[k].type \in Mutations
         /\ journal[k].revision = record.revision + 1
         /\ PendingTransition = IF journal[k].type = "STATE_TRANSITIONED" THEN {k} ELSE {}
         /\ PendingApproval = IF journal[k].type \in Approvals THEN {k} ELSE {}
         /\ IsPending(journal) <=> journal[k].type \in Outcomes
         /\ journal[k].type \in Outcomes => LastOutcome(journal) = k
<1>1. PICK S : journal \in Seq(S)
  BY DEF GraphInv, TypeInv, JournalIsTyped
<1>2. IsJournal(journal) /\ record.revision \in Nat
  BY <1>1 DEF GraphInv, TypeInv, Record, IsJournal
<1>3. /\ k \in Of(journal, Mutations) /\ \A i \in Of(journal, Mutations) : i <= k
      /\ Mutated(journal) = record.revision + 1
  BY DEF Ahead
<1>4. k \in DOMAIN journal /\ journal[k].type \in Mutations /\ k \in Nat /\ k # 0
  BY <1>1, <1>3 DEF Of
<1>5. {"STATE_TRANSITIONED"} \subseteq Mutations /\ Approvals \subseteq Mutations
      /\ Outcomes \subseteq Mutations
  BY DEF Mutations
<1>6. ASSUME NEW types \in SUBSET Mutations
      PROVE  /\ Lacks(journal, record.revision, types) =
                  IF journal[k].type \in types THEN {k} ELSE {}
             /\ journal[k].revision = record.revision + 1
  BY <1>2, <1>3, OneLacks
<1>7. /\ PendingTransition = IF journal[k].type = "STATE_TRANSITIONED" THEN {k} ELSE {}
      /\ PendingApproval = IF journal[k].type \in Approvals THEN {k} ELSE {}
      /\ journal[k].revision = record.revision + 1
  <2> DEFINE T == {"STATE_TRANSITIONED"}
  <2>1. journal[k].type \in T <=> journal[k].type = "STATE_TRANSITIONED"
    OBVIOUS
  <2>2. T \in SUBSET Mutations
    BY <1>5
  <2> HIDE DEF T
  <2>3. Lacks(journal, record.revision, T) = IF journal[k].type \in T THEN {k} ELSE {}
    BY <1>6, <2>2
  <2>4. PendingTransition = Lacks(journal, record.revision, T)
    BY PendingIs DEF T
  <2> QED
    BY <1>5, <1>6, <2>1, <2>3, <2>4, PendingIs
<1>8. IsPending(journal) => journal[k].type \in Outcomes
  <2> SUFFICES ASSUME IsPending(journal) PROVE journal[k].type \in Outcomes
    OBVIOUS
  <2>1. LastOutcome(journal) \in Of(journal, Outcomes)
    BY <1>1, LastOutcomeIs DEF IsPending
  <2>2. LastOutcome(journal) \in Lacks(journal, record.revision, Outcomes)
    BY <2>1 DEF IsPending, Lacks
  <2> QED
    BY <1>5, <1>6, <2>2
<1>9. ASSUME journal[k].type \in Outcomes
      PROVE  LastOutcome(journal) = k /\ IsPending(journal)
  <2>1. k \in Of(journal, Outcomes) /\ Of(journal, Outcomes) \subseteq Of(journal, Mutations)
    BY <1>4, <1>5, <1>9 DEF Of
  <2>2. LastOutcome(journal) = k
    BY <1>1, <1>3, <1>4, <2>1, LastOutcomeOnly
  <2> QED
    BY <1>4, <1>7, <2>2 DEF IsPending
<1>10. ~ Settled
  BY <1>2, <1>3 DEF Settled
<1> QED
  BY <1>4, <1>7, <1>8, <1>9, <1>10

-----------------------------------------------------------------------------
(* Which steps move the record.                                            *)

\* The latest event of some types is the last of their positions.
LEMMA LatestIs ==
  ASSUME NEW j, IsJournal(j), NEW types
  PROVE  /\ Of(j, types) # {} => /\ Max(Of(j, types)) \in Of(j, types)
                                 /\ \A k \in Of(j, types) : k <= Max(Of(j, types))
         /\ \A m \in Of(j, types) : (\A k \in Of(j, types) : k <= m) => Max(Of(j, types)) = m
<1>1. Of(j, types) \subseteq 1 .. Len(j) /\ Len(j) \in Nat
  BY OfGrown, Grown
<1> DEFINE M == Of(j, types)
<1> HIDE DEF M
<1>2. M \in SUBSET (0 .. Len(j)) /\ \A k \in M : k \in Nat
  BY <1>1 DEF M
<1>3. M # {} => Max(M) \in M /\ \A k \in M : k <= Max(M)
  BY <1>1, <1>2, MaxIsLast
<1>4. ASSUME NEW m \in M, \A k \in M : k <= m PROVE Max(M) = m
  <2> DEFINE x == Max(M)
  <2>1. x \in M /\ \A k \in M : k <= x
    BY <1>3
  <2> HIDE DEF x
  <2>2. x <= m /\ m <= x /\ x \in Nat /\ m \in Nat
    BY <1>2, <1>4, <2>1
  <2>3. x = m
    BY <2>2
  <2> QED
    BY <2>3 DEF x
<1> QED
  BY <1>3, <1>4 DEF M

\* The process dies, or the write of the record is refused.
Crashes == faults < MaxFaults /\ faults' = faults + 1 /\ session' = Idle /\ record' = record

\* What a session that asks for an approval writes, and when.
Asks(e) ==
  /\ e.type = "APPROVAL_REQUESTED" /\ e.node = Node
  /\ e.subject = Subject(Node, session.payload)
  /\ Visiting /\ ~ MayEnter /\ ApprovalHistoryHolds /\ PendingApproval = {}
  /\ Crashes \/ session' = [session EXCEPT !.step = "asked"]

\* What an approver writes.
Grants(e) ==
  /\ e.type = "EXECUTION_APPROVED"
  /\ Recovered /\ record.state = "PAUSED_AWAITING_APPROVAL" /\ record.approval = "PENDING"
  /\ LatestOf({"APPROVAL_REQUESTED"}).type = "APPROVAL_REQUESTED"
  /\ e.subject = LatestOf({"APPROVAL_REQUESTED"}).subject
  /\ session' = Idle

\* What a transition writes, and whose it is.
Moves(e) ==
  /\ e.type = "STATE_TRANSITIONED" /\ e.to \in State \ Fresh
  /\ \/ Execute /\ e.to = "EXECUTING" /\ session' \in {Idle, At("loop", 0, None)}
     \/ /\ PrepareResume /\ session' = Idle
        /\ e.to = "PAUSED_AWAITING_APPROVAL"
             \/ (e.to = "EXECUTING" /\ record.approval = "APPROVED")
     \/ ExhaustRetries /\ session' = Idle /\ e.to = "FAILED_RETRY_EXHAUSTED"
     \/ PauseForApproval /\ session' = Idle /\ e.to = "PAUSED_AWAITING_APPROVAL"
     \/ ExceedBudget /\ session' = Idle /\ e.to = "FAILED_BUDGET_EXCEEDED"
     \/ /\ ResolveTerminal /\ session' = Idle
        /\ e.to = IF Outcome[Node] = "success" THEN "VERIFYING" ELSE "FAILED"

\* The record with an event shown.
Updated(e) ==
  CASE e.type \in Outcomes -> NextRecord(e)
    [] e.type \in Approvals -> [record EXCEPT !.revision = @ + 1, !.approval = Status(e)]
    [] OTHER -> [record EXCEPT !.state = e.to, !.revision = @ + 1]

\* An event that moves the record is written ahead of it.
Saves(e) == faults' = faults /\ record' = Updated(e)

Posts(e) ==
  /\ journal' = Append(journal, e) /\ e.revision = record.revision + 1
  /\ Crashes \/ Saves(e)
  /\ (FinishNode /\ EndOfVisit(e)) \/ Asks(e) \/ Grants(e) \/ Moves(e)

\* The record is moved by what was written before.
Shows ==
  /\ journal' = journal /\ faults' = faults
  /\ \/ RecoverState
     \/ Resume /\ IsPending(journal)
     \/ /\ RecoverApproval \/ RequestApproval
        /\ PendingApproval # {} /\ record' = ApprovalShown /\ session' = Idle

\* The record stays, and nothing is written that would move it.
Steady ==
  /\ record' = record /\ faults' \in {faults, faults + 1}
  /\ Of(journal', Mutations) = Of(journal, Mutations)
  /\ \A i \in DOMAIN journal : i \in DOMAIN journal' /\ journal'[i] = journal[i]

\* A transition is written ahead.
LEMMA TransitPosts ==
  ASSUME GraphInv, Transit PROVE \E e : Posts(e)
<1>1. ASSUME NEW to \in State \ Fresh, NEW node, NEW attempt, NEW next,
             TransitionTo(to, node, attempt, next)
      PROVE  \E e : /\ journal' = Append(journal, e) /\ e.revision = record.revision + 1
                    /\ e.type = "STATE_TRANSITIONED" /\ e.to = to
                    /\ Crashes \/ (Saves(e) /\ session' = next)
  <2> DEFINE e == Transitioned(to, node, attempt)
  <2>1. WriteAhead(e, [record EXCEPT !.state = to, !.revision = @ + 1], next)
    BY <1>1 DEF TransitionTo
  <2>2. e.type = "STATE_TRANSITIONED" /\ e.to = to /\ e.revision = record.revision + 1
    BY DEF Transitioned
  <2> HIDE DEF e
  <2>3. Updated(e) = [record EXCEPT !.state = to, !.revision = @ + 1]
    BY <2>2 DEF Updated, Outcomes, Approvals
  <2> QED
    BY <2>1, <2>2, <2>3 DEF WriteAhead, Crashes, Saves
<1>2. CASE Execute
  <2>1. TransitionTo("EXECUTING", Entry, record.attempts[Entry] + 1, At("loop", 0, None))
    BY <1>2 DEF Execute
  <2>2. "EXECUTING" \in State \ Fresh
    BY LaterStates
  <2>3. PICK e : /\ journal' = Append(journal, e) /\ e.revision = record.revision + 1
                 /\ e.type = "STATE_TRANSITIONED" /\ e.to = "EXECUTING"
                 /\ Crashes \/ (Saves(e) /\ session' = At("loop", 0, None))
    BY <1>1, <2>1, <2>2
  <2>4. session' \in {Idle, At("loop", 0, None)} /\ (Crashes \/ Saves(e))
    BY <2>3 DEF Crashes
  <2> QED
    BY <1>2, <2>2, <2>3, <2>4 DEF Posts, Moves
<1>3. CASE PrepareResume \/ ExhaustRetries \/ PauseForApproval \/ ExceedBudget \/ ResolveTerminal
  <2>1. \E to \in State \ Fresh : \E node, attempt :
          /\ TransitionTo(to, node, attempt, Idle)
          /\ \/ PrepareResume /\ (to = "PAUSED_AWAITING_APPROVAL"
                                  \/ (to = "EXECUTING" /\ record.approval = "APPROVED"))
             \/ ExhaustRetries /\ to = "FAILED_RETRY_EXHAUSTED"
             \/ PauseForApproval /\ to = "PAUSED_AWAITING_APPROVAL"
             \/ ExceedBudget /\ to = "FAILED_BUDGET_EXCEEDED"
             \/ /\ ResolveTerminal
                /\ to = IF Outcome[Node] = "success" THEN "VERIFYING" ELSE "FAILED"
    <3>1. CASE PrepareResume
      <4>1. \E to : /\ TransitionTo(to, record.node, record.attempts[record.node] + 1, Idle)
                    /\ \/ to = "PAUSED_AWAITING_APPROVAL"
                       \/ to = "EXECUTING" /\ record.approval = "APPROVED"
        BY <3>1 DEF PrepareResume
      <4> QED
        BY <3>1, <4>1, LaterStates
    <3>2. CASE ExhaustRetries
      BY <3>2, LaterStates DEF ExhaustRetries
    <3>3. CASE PauseForApproval
      BY <3>3, LaterStates DEF PauseForApproval
    <3>4. CASE ExceedBudget
      BY <3>4, LaterStates DEF ExceedBudget
    <3>5. CASE ResolveTerminal
      <4> DEFINE to == IF Outcome[Node] = "success" THEN "VERIFYING" ELSE "FAILED"
      <4>1. TransitionTo(to, Node, 0, Idle) /\ to \in State \ Fresh
        BY <3>5, LaterStates DEF ResolveTerminal
      <4> HIDE DEF to
      <4>2. to = IF Outcome[Node] = "success" THEN "VERIFYING" ELSE "FAILED"
        BY DEF to
      <4> QED
        BY <3>5, <4>1, <4>2
    <3> QED
      BY <1>3, <3>1, <3>2, <3>3, <3>4, <3>5
  <2>2. PICK to, node, attempt :
          /\ to \in State \ Fresh /\ TransitionTo(to, node, attempt, Idle)
          /\ \/ PrepareResume /\ (to = "PAUSED_AWAITING_APPROVAL"
                                  \/ (to = "EXECUTING" /\ record.approval = "APPROVED"))
             \/ ExhaustRetries /\ to = "FAILED_RETRY_EXHAUSTED"
             \/ PauseForApproval /\ to = "PAUSED_AWAITING_APPROVAL"
             \/ ExceedBudget /\ to = "FAILED_BUDGET_EXCEEDED"
             \/ /\ ResolveTerminal
                /\ to = IF Outcome[Node] = "success" THEN "VERIFYING" ELSE "FAILED"
    BY <2>1
  <2>3. PICK e : /\ journal' = Append(journal, e) /\ e.revision = record.revision + 1
                 /\ e.type = "STATE_TRANSITIONED" /\ e.to = to
                 /\ Crashes \/ (Saves(e) /\ session' = Idle)
    BY <1>1, <2>2
  <2>4. session' = Idle /\ (Crashes \/ Saves(e))
    BY <2>3 DEF Crashes
  <2>5. Moves(e)
    BY <2>2, <2>3, <2>4, Zenon DEF Moves
  <2> QED
    BY <2>3, <2>4, <2>5 DEF Posts
<1> QED
  BY <1>2, <1>3 DEF Transit

\* A request for an approval, or what it finds pending.
LEMMA RequestPosts ==
  ASSUME GraphInv, RequestApproval
  PROVE  (Steady /\ session' = Idle /\ journal' = journal) \/ Shows \/ \E e : Posts(e)
<1>1. Visiting /\ ~ MayEnter
  BY DEF RequestApproval
<1>2. CASE session' = Idle /\ UNCHANGED <<record, journal, effects, faults>>
  BY <1>2 DEF Steady
<1>3. CASE /\ PendingApproval # {} /\ record' = ApprovalShown
           /\ session' = Idle /\ UNCHANGED <<journal, effects, faults>>
  BY <1>3 DEF Shows
<1>4. CASE /\ ApprovalHistoryHolds /\ PendingApproval = {}
           /\ WriteAhead([type |-> "APPROVAL_REQUESTED", node |-> Node,
                          subject |-> Subject(Node, session.payload),
                          revision |-> record.revision + 1],
                         [record EXCEPT !.revision = @ + 1, !.approval = "PENDING"],
                         [session EXCEPT !.step = "asked"])
  <2> DEFINE e == [type |-> "APPROVAL_REQUESTED", node |-> Node,
                   subject |-> Subject(Node, session.payload),
                   revision |-> record.revision + 1]
  <2>1. /\ e.type = "APPROVAL_REQUESTED" /\ e.node = Node
        /\ e.subject = Subject(Node, session.payload) /\ e.revision = record.revision + 1
    OBVIOUS
  <2>2. WriteAhead(e, [record EXCEPT !.revision = @ + 1, !.approval = "PENDING"],
                   [session EXCEPT !.step = "asked"])
    BY <1>4
  <2> HIDE DEF e
  <2>3. Status(e) = "PENDING" /\ e.type \in Approvals /\ e.type \notin Outcomes
    BY <2>1 DEF Status, Approvals, Outcomes
  <2>4. Updated(e) = [record EXCEPT !.revision = @ + 1, !.approval = "PENDING"]
    BY <2>3 DEF Updated
  <2>5. /\ journal' = Append(journal, e)
        /\ Crashes \/ (Saves(e) /\ session' = [session EXCEPT !.step = "asked"])
    BY <2>2, <2>4 DEF WriteAhead, Crashes, Saves
  <2>6. Asks(e)
    BY <1>1, <1>4, <2>1, <2>5 DEF Asks, Crashes
  <2> QED
    BY <2>1, <2>5, <2>6 DEF Posts
<1> QED
  BY <1>2, <1>3, <1>4 DEF RequestApproval

\* A grant.
LEMMA ApprovePosts ==
  ASSUME GraphInv, Approve PROVE \E e : Posts(e)
<1>1. IsJournal(journal)
  BY DEF GraphInv, TypeInv, JournalIsTyped, IsJournal
<1> DEFINE A == Approvals
           R == {"APPROVAL_REQUESTED"}
<1>2. /\ record.state = "PAUSED_AWAITING_APPROVAL" /\ record.approval = "PENDING"
      /\ Recovered /\ PendingApproval = {} /\ ApprovalHistoryHolds
  BY DEF Approve, Recovered
<1>3. Of(journal, A) # {} /\ Status(journal[Max(Of(journal, A))]) = "PENDING"
  BY <1>2 DEF ApprovalHistoryHolds
<1>4. Max(Of(journal, A)) \in Of(journal, A) /\ Max(Of(journal, A)) \in DOMAIN journal
  BY <1>1, <1>3, LatestIs DEF Of
<1>5. Of(journal, R) # {}
  BY <1>3, <1>4 DEF Status, Of
<1>6. Max(Of(journal, R)) \in Of(journal, R)
  BY <1>1, <1>5, LatestIs
<1> DEFINE request == LatestOf({"APPROVAL_REQUESTED"})
<1>7. EventIsTyped(request) /\ request.type = "APPROVAL_REQUESTED"
  BY <1>6 DEF LatestOf, Of, GraphInv, TypeInv, JournalIsTyped
<1> DEFINE event == [request EXCEPT !.type = "EXECUTION_APPROVED",
                                    !.revision = record.revision + 1]
           r == [record EXCEPT !.revision = @ + 1, !.approval = "APPROVED"]
<1>8. WriteAhead(event, r, Idle)
  BY DEF Approve
<1> HIDE DEF request, R, A
<1>9. DOMAIN request = {"type", "node", "subject", "revision"}
  BY <1>7 DEF EventIsTyped, Approvals
<1>10. /\ event.type = "EXECUTION_APPROVED" /\ event.subject = request.subject
       /\ event.revision = record.revision + 1
  BY <1>9
<1> HIDE DEF event
<1>11. /\ Status(event) = "APPROVED" /\ event.type \in Approvals /\ event.type \notin Outcomes
  BY <1>10 DEF Status, Approvals, Outcomes
<1>12. Updated(event) = r
  BY <1>11 DEF Updated
<1>13. journal' = Append(journal, event) /\ session' = Idle /\ (Crashes \/ Saves(event))
  BY <1>8, <1>12 DEF WriteAhead, Crashes, Saves
<1>14. Grants(event)
  BY <1>2, <1>7, <1>10, <1>13 DEF Grants, request
<1> QED
  BY <1>10, <1>13, <1>14 DEF Posts

\* An outcome.
LEMMA FinishPosts ==
  ASSUME GraphInv, FinishNode PROVE \E e : Posts(e)
<1>1. PICK e : /\ journal' = Append(journal, e) /\ EndOfVisit(e)
               /\ \/ /\ faults < MaxFaults /\ faults' = faults + 1
                     /\ session' = Idle /\ record' = record
                  \/ record' = NextRecord(e) /\ faults' = faults
  BY FinishFacts
<1>2. e.type \in Outcomes /\ e.type \notin Approvals /\ e.revision = record.revision + 1
  BY <1>1 DEF EndOfVisit, Outcomes, Approvals
<1>3. Updated(e) = NextRecord(e)
  BY <1>2 DEF Updated
<1> QED
  BY <1>1, <1>2, <1>3 DEF Posts, Crashes, Saves

\* The other steps leave the record alone.
LEMMA OthersAreSteady ==
  ASSUME GraphInv, Next,
         ~ (Transit \/ RequestApproval \/ Approve \/ FinishNode \/ RecoverState
            \/ RecoverApproval \/ (Resume /\ IsPending(journal)))
  PROVE  Steady
<1>1. IsJournal(journal)
  BY DEF GraphInv, TypeInv, JournalIsTyped, IsJournal
<1>2. record' = record /\ faults' \in {faults, faults + 1}
  <2>1. \/ RefuseVisit \/ DenyAttempt \/ StartNode \/ RunPolicy \/ PassGate \/ ReserveModel
        \/ CallModel \/ CommitModel \/ RecordOverrun \/ ReserveTool \/ RecordCall
        \/ DispatchTool \/ CommitTool \/ RecordOutcome \/ Raise \/ Abort \/ RecordCallFails
        \/ (Resume /\ ~ IsPending(journal))
    BY DEF Next, Proceed, Traverse, Transit
  <2>2. CASE Resume /\ ~ IsPending(journal)
    BY <2>2 DEF Resume
  <2>3. CASE ReserveModel \/ ReserveTool
    BY <2>3 DEF ReserveModel, ReserveTool, DenyCall, ReserveCall, Write
  <2>4. CASE \/ RefuseVisit \/ DenyAttempt \/ StartNode \/ RunPolicy \/ PassGate
             \/ CallModel \/ CommitModel \/ RecordOverrun \/ RecordCall
             \/ DispatchTool \/ CommitTool \/ RecordOutcome \/ Raise \/ Abort \/ RecordCallFails
    BY <2>4 DEF RefuseVisit, DenyAttempt, StartNode, RunPolicy, PassGate, CallModel,
       CommitModel, RecordOverrun, RecordCall, DispatchTool, CommitTool, RecordOutcome, Raise,
       Abort, RecordCallFails, Write, Perform
  <2> QED
    BY <2>1, <2>2, <2>3, <2>4
<1> DEFINE Same2(k) == /\ Of(k, Mutations) = Of(journal, Mutations)
                       /\ \A i \in DOMAIN journal : i \in DOMAIN k /\ k[i] = journal[i]
<1>3. ASSUME NEW k, IsJournal(k), NEW e, e.type \notin Mutations, Same2(k)
      PROVE  Same2(Append(k, e))
  <2>1. Of(Append(k, e), Mutations) = Of(k, Mutations)
    BY <1>3, OfGrown
  <2>2. \A i \in DOMAIN k : i \in DOMAIN Append(k, e) /\ Append(k, e)[i] = k[i]
    BY <1>3, Grown
  <2> QED
    BY <1>3, <2>1, <2>2
<1>4. Same2(journal)
  OBVIOUS
<1> HIDE DEF Same2
<1>5. Same2(journal')
  <2>1. CASE journal' = journal
    BY <1>4, <2>1
  <2>2. CASE RecordCallFails
    <3>1. PICK k : /\ k = journal \/ k = Append(journal, ToolEvent("TOOL_CALLED"))
                   /\ IsJournal(k) /\ journal' = Append(k, Released(journal, session.handle))
      BY <2>2, FailWrites
    <3>2. /\ ToolEvent("TOOL_CALLED").type \notin Mutations
          /\ Released(journal, session.handle).type \notin Mutations
      BY DEF ToolEvent, Released, Mutations, Outcomes, Approvals
    <3>3. Same2(k)
      BY <1>1, <1>3, <1>4, <3>1, <3>2
    <3> QED
      BY <1>3, <3>1, <3>2, <3>3
  <2>3. CASE \E e : Writes(e)
    <3>1. PICK e : journal' = Append(journal, e) /\ e.type \notin Mutations
      BY <2>3 DEF Writes, Mutations, Outcomes, Approvals, ToolEnds
    <3> QED
      BY <1>1, <1>3, <1>4, <3>1
  <2> QED
    BY <2>1, <2>2, <2>3, StepWrites
<1> QED
  BY <1>2, <1>5 DEF Steady, Same2

\* A session that begins goes on from what the journal shows, one between two visits ends,
\* unless it goes into the next, and one that has asked for an approval ends by a fault.
Others ==
  /\ session.step = "idle" => Resume /\ ~ IsPending(journal)
  /\ session.step = "loop" =>
       (session' = Idle /\ journal' = journal) \/ DenyAttempt \/ StartNode
  /\ session.step = "asked" => faults' = faults + 1

\* Every step leaves the record alone, shows what was written, or writes ahead.
LEMMA StepRevises ==
  ASSUME GraphInv, Next PROVE (Steady /\ Others) \/ Shows \/ \E e : Posts(e)
<1>1. CASE RecoverState \/ RecoverApproval \/ (Resume /\ IsPending(journal))
  <2>1. RecoverApproval => session' = Idle
    BY DEF RecoverApproval, GraphInv, PlaceInv
  <2> QED
    BY <1>1, <2>1 DEF Shows, RecoverState, RecoverApproval, Resume
<1>2. CASE RequestApproval
  <2>1. session.step = "loop"
    BY <1>2 DEF RequestApproval, Visiting, InLoop
  <2> QED
    BY <1>2, <2>1, RequestPosts DEF Others
<1>3. CASE Transit \/ Approve \/ FinishNode
  BY <1>3, TransitPosts, ApprovePosts, FinishPosts
<1>4. CASE ~ (Transit \/ RequestApproval \/ Approve \/ FinishNode \/ RecoverState
              \/ RecoverApproval \/ (Resume /\ IsPending(journal)))
  <2>1. Steady
    BY <1>4, OthersAreSteady
  <2>2. \/ RefuseVisit \/ DenyAttempt \/ StartNode \/ RunPolicy \/ PassGate \/ ReserveModel
        \/ CallModel \/ CommitModel \/ RecordOverrun \/ ReserveTool \/ RecordCall
        \/ DispatchTool \/ CommitTool \/ RecordOutcome \/ Raise \/ Abort \/ RecordCallFails
        \/ (Resume /\ ~ IsPending(journal))
    BY <1>4 DEF Next, Proceed, Traverse, Transit
  <2>3. CASE Resume /\ ~ IsPending(journal)
    BY <2>1, <2>3 DEF Others, Resume
  <2>4. CASE \/ RunPolicy \/ PassGate \/ ReserveModel \/ CallModel \/ CommitModel
             \/ RecordOverrun \/ ReserveTool \/ RecordCall \/ DispatchTool \/ CommitTool
             \/ RecordOutcome \/ Raise \/ RecordCallFails
    <3>1. session.step \notin {"idle", "loop", "asked"}
      BY <2>4 DEF RunPolicy, PassGate, ReserveModel, CallModel, CommitModel, RecordOverrun,
         ReserveTool, RecordCall, DispatchTool, CommitTool, RecordOutcome, Raise,
         RecordCallFails
    <3> QED
      BY <2>1, <3>1 DEF Others
  <2>5. CASE RefuseVisit \/ DenyAttempt \/ StartNode \/ Abort
    <3>1. session.step # "idle"
      BY <2>5 DEF RefuseVisit, DenyAttempt, StartNode, Abort, Visiting, InLoop
    <3>2. \/ Abort /\ session' = Idle /\ journal' = journal /\ faults' = faults + 1
          \/ /\ session.step = "loop"
             /\ (session' = Idle /\ journal' = journal) \/ DenyAttempt \/ StartNode
      BY <2>5 DEF RefuseVisit, DenyAttempt, StartNode, Abort, Visiting, InLoop
    <3> QED
      BY <2>1, <3>1, <3>2 DEF Others
  <2> QED
    BY <2>2, <2>3, <2>4, <2>5
<1> QED
  BY <1>1, <1>2, <1>3, <1>4

-----------------------------------------------------------------------------
(* The record is one revision behind at most.                              *)

\* An event that is no outcome leaves the traversal where it is.
LEMMA WalkStays ==
  ASSUME NEW j, IsJournal(j), NEW e, e.type \notin Outcomes
  PROVE  /\ LastOutcome(Append(j, e)) = LastOutcome(j)
         /\ ExpectedNode(Append(j, e)) = ExpectedNode(j)
         /\ ExpectedContext(Append(j, e)) = ExpectedContext(j)
         /\ \A n : Concluded(Append(j, e), n) = Concluded(j, n)
<1>1. PICK S : j \in Seq(S) /\ e \in S
  BY Grown
<1>2. \A n : Concluded(Append(j, e), n) = Concluded(j, n)
  BY <1>1, CountGrows, CountsArePicked
<1> QED
  BY <1>1, <1>2, WalkGrows

\* The journal k has the events of j, and none more that would move the record.
MovesAgree(j, k) ==
  /\ Of(k, Mutations) = Of(j, Mutations)
  /\ \A i \in DOMAIN j : i \in DOMAIN k /\ k[i] = j[i]

\* Such a journal leads where j does.
LEMMA WalkAgrees ==
  ASSUME NEW j, IsJournal(j), NEW k, MovesAgree(j, k)
  PROVE  /\ \A types \in SUBSET Mutations : Of(k, types) = Of(j, types)
         /\ Mutated(k) = Mutated(j) /\ (Ranked(j) => Ranked(k))
         /\ LastOutcome(k) = LastOutcome(j)
         /\ ExpectedNode(k) = ExpectedNode(j) /\ ExpectedContext(k) = ExpectedContext(j)
         /\ \A n : Concluded(k, n) = Concluded(j, n)
<1>1. PICK S : j \in Seq(S)
  BY DEF IsJournal
<1>2. \A i \in Of(j, Mutations) : i \in DOMAIN j /\ k[i] = j[i]
  BY DEF MovesAgree, Of
<1>3. ASSUME NEW types \in SUBSET Mutations PROVE Of(k, types) = Of(j, types)
  <2>1. /\ Of(k, types) = {i \in Of(k, Mutations) : k[i].type \in types}
        /\ Of(j, types) = {i \in Of(j, Mutations) : j[i].type \in types}
    BY DEF Of
  <2> QED
    BY <1>2, <2>1 DEF MovesAgree
<1>4. Mutated(k) = Mutated(j)
  BY DEF Mutated, MovesAgree
<1>5. Ranked(j) => Ranked(k)
  BY <1>2 DEF Ranked, MovesAgree
<1>6. Of(k, Outcomes) = Of(j, Outcomes) /\ Of(j, Outcomes) \subseteq Of(j, Mutations)
  BY <1>3 DEF Mutations, Of
<1>7. LastOutcome(k) = LastOutcome(j)
  BY <1>6 DEF LastOutcome
<1>8. LastOutcome(j) = 0 \/ LastOutcome(j) \in Of(j, Outcomes)
  BY <1>1, LastOutcomeIs
<1>9. LastOutcome(j) # 0 => k[LastOutcome(j)] = j[LastOutcome(j)]
  BY <1>2, <1>6, <1>8
<1>10. ExpectedNode(k) = ExpectedNode(j) /\ ExpectedContext(k) = ExpectedContext(j)
  BY <1>7, <1>9 DEF ExpectedNode, ExpectedContext
<1>11. ASSUME NEW n PROVE Concluded(k, n) = Concluded(j, n)
  <2>1. {i \in Of(k, Outcomes) : k[i].node = n} = {i \in Of(j, Outcomes) : j[i].node = n}
    BY <1>2, <1>6
  <2> QED
    BY <2>1 DEF Concluded
<1> QED
  BY <1>3, <1>4, <1>5, <1>7, <1>10, <1>11

\* The record that does not change stays up to date.
LEMMA UpToDateStays ==
  ASSUME UpToDate, record'.node = record.node, record'.attempts = record.attempts,
         ExpectedNode(journal') = ExpectedNode(journal),
         \A n : Concluded(journal', n) = Concluded(journal, n)
  PROVE  UpToDate'
BY DEF UpToDate

\* What is asked for is the same in a journal that goes on.
LEMMA SubjectStays ==
  ASSUME GraphInv, \A i \in DOMAIN journal : i \in DOMAIN journal' /\ journal'[i] = journal[i],
         NEW node, NEW p \in 0 .. Len(journal)
  PROVE  Subject(node, p)' = Subject(node, p)
<1>1. Len(journal) \in Nat /\ DOMAIN journal = 1 .. Len(journal)
  BY DEF GraphInv, TypeInv, JournalIsTyped
<1>2. p = 0 \/ p \in DOMAIN journal
  BY <1>1
<1> QED
  BY <1>2 DEF Subject, Digest

\* The record shows an approval only if that is the last.
LEMMA LastIsGrant ==
  ASSUME GraphInv, ApprovalIsShown, PendingApproval = {}, record.approval = "APPROVED"
  PROVE  /\ Max(Of(journal, {"EXECUTION_APPROVED"})) \in Of(journal, {"EXECUTION_APPROVED"})
         /\ \A i \in Of(journal, Approvals) : i <= Max(Of(journal, {"EXECUTION_APPROVED"}))
<1>1. IsJournal(journal)
  BY DEF GraphInv, TypeInv, JournalIsTyped, IsJournal
<1> DEFINE A == Approvals
           G == {"EXECUTION_APPROVED"}
           m == Max(Of(journal, A))
<1>2. Of(journal, A) # {} /\ Status(journal[m]) = "APPROVED"
  BY DEF ApprovalIsShown
<1> HIDE DEF A, G
<1>3. m \in Of(journal, A) /\ \A k \in Of(journal, A) : k <= m
  BY <1>1, <1>2, LatestIs
<1> HIDE DEF m
<1>4. m \in Of(journal, G) /\ Of(journal, G) \subseteq Of(journal, A)
  BY <1>2, <1>3 DEF Of, A, G, Approvals, Status
<1>5. Max(Of(journal, G)) = m
  BY <1>1, <1>3, <1>4, LatestIs
<1> QED
  BY <1>3, <1>4, <1>5 DEF A, G

\* What comes before an approval, and the last of it.
LEMMA EarlierIs ==
  ASSUME NEW j, IsJournal(j), NEW i, {k \in Of(j, Approvals) : k < i} # {}
  PROVE  LET past == {k \in Of(j, Approvals) : k < i}
         IN  Max(past) \in past /\ \A k \in past : k <= Max(past)
<1> DEFINE past == {k \in Of(j, Approvals) : k < i}
<1>1. Of(j, Approvals) \subseteq 1 .. Len(j) /\ Len(j) \in Nat
  BY OfGrown, Grown
<1>2. past \in SUBSET (0 .. Len(j)) /\ past # {}
  BY <1>1
<1> HIDE DEF past
<1>3. Max(past) \in past /\ \A k \in past : k <= Max(past)
  BY <1>1, <1>2, MaxIsLast
<1> QED
  BY <1>3 DEF past

\* A grant that is shown is for what was requested last.
LEMMA GrantAnswers ==
  ASSUME GraphInv, Turns(journal), ApprovalIsShown, PendingApproval = {},
         record.approval = "APPROVED"
  PROVE  LatestOf({"APPROVAL_REQUESTED"}).subject = LatestOf({"EXECUTION_APPROVED"}).subject
<1>1. IsJournal(journal)
  BY DEF GraphInv, TypeInv, JournalIsTyped, IsJournal
<1> DEFINE R == {"APPROVAL_REQUESTED"}
           G == {"EXECUTION_APPROVED"}
<1>2. PICK g \in Of(journal, G) : /\ g = Max(Of(journal, G))
                                 /\ \A i \in Of(journal, Approvals) : i <= g
  BY LastIsGrant
<1> DEFINE past == {k \in Of(journal, Approvals) : k < g}
<1>3. g \in Of(journal, Approvals) /\ journal[g].type = "EXECUTION_APPROVED"
  BY <1>2 DEF Of, Approvals
<1>4. /\ past # {} /\ Status(journal[Max(past)]) = "PENDING"
      /\ journal[Max(past)].subject = journal[g].subject
  BY <1>3 DEF Turns
<1>5. PICK r \in past : r = Max(past) /\ \A k \in past : k <= r
  BY <1>1, <1>4, EarlierIs
<1>6. journal[r].type = "APPROVAL_REQUESTED" /\ journal[r].subject = journal[g].subject
  BY <1>4, <1>5 DEF Status
<1>7. r \in Of(journal, R)
  BY <1>5, <1>6 DEF Of
<1>8. ASSUME NEW k \in Of(journal, R) PROVE k <= r
  <2>1. k \in Of(journal, Approvals) /\ k # g /\ k \in Nat
    BY <1>1, <1>3 DEF Of, Approvals, IsJournal
  <2>2. k <= g /\ g \in Nat
    BY <1>1, <1>2, <2>1 DEF Of, IsJournal
  <2> QED
    BY <1>5, <2>1, <2>2
<1> HIDE DEF R, G, past
<1>9. Max(Of(journal, R)) = r
  BY <1>1, <1>7, <1>8, LatestIs
<1> QED
  BY <1>2, <1>6, <1>9 DEF LatestOf, R, G

\* What every command demands of the approvals.
LEMMA HistoryIs == ApprovalHistoryHolds <=> Turns(journal) /\ ApprovalIsShown
BY DEF ApprovalHistoryHolds, Turns, ApprovalIsShown

\* What a session finds that has not brought the record up to date.
LEMMA AheadAwaits ==
  ASSUME GraphInv, RevisionInv, ~ Settled
  PROVE  \E k : /\ Ahead(k) /\ Awaits(journal[k]) /\ session.step \in {"idle", "loop"}
                /\ journal[k].type \in Mutations
BY AheadFacts DEF RevisionInv, Ahead

\* Nothing is written ahead of a record that is behind.
LEMMA WritesSettled ==
  ASSUME GraphInv, LoopInv, RevisionInv, NEW e, Posts(e)
  PROVE  Settled
<1> SUFFICES ASSUME ~ Settled PROVE FALSE
  OBVIOUS
<1>1. PICK k : /\ Ahead(k) /\ Awaits(journal[k]) /\ session.step \in {"idle", "loop"}
               /\ journal[k].type \in Mutations
  BY AheadAwaits
<1>2. /\ PendingTransition = IF journal[k].type = "STATE_TRANSITIONED" THEN {k} ELSE {}
      /\ PendingApproval = IF journal[k].type \in Approvals THEN {k} ELSE {}
  BY <1>1, AheadFacts DEF RevisionInv
<1>3. journal[k].type \in Outcomes \cup Approvals \cup {"STATE_TRANSITIONED"}
  BY <1>1 DEF Mutations
<1>4. /\ journal[k].type \in Outcomes =>
           /\ session.step = "idle" /\ record.state = "EXECUTING"
           /\ record.node = journal[k].node
           /\ journal[k].node \in Humans => record.approval = "APPROVED"
      /\ journal[k].type = "APPROVAL_REQUESTED" =>
           /\ record.state = "EXECUTING" /\ Node \in Humans
           /\ ExpectedContext(journal) # None /\ Policy > 0 => Attempt <= Policy
      /\ journal[k].type = "EXECUTION_APPROVED" =>
           session.step = "idle" /\ record.state = "PAUSED_AWAITING_APPROVAL"
      /\ journal[k].type = "STATE_TRANSITIONED" => session.step = "idle"
  BY <1>1 DEF Awaits
<1>5. CASE FinishNode
  BY <1>1, <1>5, FinishFacts
<1>6. CASE Asks(e)
  <2>1. PendingApproval = {} /\ session.step = "loop"
    BY <1>6 DEF Asks, Visiting, InLoop
  <2> QED
    BY <1>2, <1>3, <1>4, <2>1
<1>7. CASE Grants(e)
  <2>1. /\ PendingApproval = {} /\ PendingTransition = {}
        /\ record.state = "PAUSED_AWAITING_APPROVAL"
    BY <1>7 DEF Grants, Recovered
  <2> QED
    BY <1>2, <1>3, <1>4, <2>1
<1>8. CASE Execute
  <2>1. PendingTransition = {} /\ record.state \in {"INITIATED", "PLANNING"}
    BY <1>8 DEF Execute
  <2> QED
    BY <1>2, <1>3, <1>4, <2>1 DEF Approvals
<1>9. CASE PrepareResume
  <2>1. /\ PendingApproval = {} /\ PendingTransition = {}
        /\ \/ record.state = "EXECUTING" /\ record.approval = "PENDING" /\ record.node \in Humans
           \/ record.state = "PAUSED_AWAITING_APPROVAL"
    BY <1>9 DEF PrepareResume, Recovered
  <2> QED
    BY <1>2, <1>3, <1>4, <2>1
<1>10. CASE ExhaustRetries \/ ResolveTerminal
  <2>1. session.step = "loop"
    BY <1>10 DEF ExhaustRetries, ResolveTerminal, InLoop
  <2>2. /\ Node \in Humans
        /\ ExpectedContext(journal) # None /\ Policy > 0 => Attempt <= Policy
    BY <1>3, <1>4, <2>1 DEF Approvals
  <2>3. CASE ResolveTerminal
    BY <2>2, <2>3, GraphIsCompiled DEF ResolveTerminal
  <2>4. CASE ExhaustRetries
    <3>1. /\ Node \in Nodes /\ session.context # None /\ Policy > 0 /\ Attempt > Policy
      BY <2>4 DEF ExhaustRetries, InLoop, Exhausted, Retrying
    <3>2. session.context = ExpectedContext(journal)
      BY <2>1 DEF LoopInv
    <3>3. Attempt \in Nat /\ Policy \in Nat
      BY <2>1, <3>1, SessionFacts, GraphIsCompiled DEF Policy
    <3> QED
      BY <2>2, <3>1, <3>2, <3>3
  <2> QED
    BY <1>10, <2>3, <2>4
<1>11. CASE PauseForApproval \/ ExceedBudget
  BY <1>1, <1>11 DEF PauseForApproval, ExceedBudget
<1> QED
  BY <1>5, <1>6, <1>7, <1>8, <1>9, <1>10, <1>11 DEF Posts, Moves

\* A session that dies before it has moved the record leaves it known what is missing.
LEMMA CrashAwaits ==
  ASSUME GraphInv, LoopInv, RevisionInv, GateInv, Settled, NEW e, Posts(e), Crashes
  PROVE  Awaits(e)'
<1>1. IsJournal(journal)
  BY DEF GraphInv, TypeInv, JournalIsTyped, IsJournal
<1>2. journal' = Append(journal, e) /\ record' = record /\ session' = Idle
  BY DEF Posts, Crashes
<1>3. session'.step = "idle" /\ Node' = Node /\ Attempt' = Attempt /\ Policy' = Policy
  BY <1>2 DEF Idle, At, Node, Attempt, Policy
<1>4. UpToDate
  BY DEF RevisionInv
<1>5. e.type \notin Outcomes => /\ UpToDate'
                                /\ LastOutcome(journal') = LastOutcome(journal)
                                /\ ExpectedContext(journal') = ExpectedContext(journal)
  BY <1>1, <1>2, <1>4, WalkStays, UpToDateStays
<1>6. CASE FinishNode /\ EndOfVisit(e)
  <2>1. /\ e.type \in Outcomes /\ e.node = Node
    BY <1>6 DEF EndOfVisit
  <2>2. session.step = "result" /\ session.step \in Inside /\ record.state = "EXECUTING"
    BY <1>6, FinishFacts DEF LoopInv
  <2>3. Node \in Humans => record.approval = "APPROVED"
    BY <2>2 DEF GateInv
  <2>4. ASSUME NEW n \in Nodes
        PROVE  record.attempts[n] = IF n = e.node THEN Concluded(journal', n) - 1
                                    ELSE Concluded(journal', n)
    <3>1. PICK S : journal \in Seq(S) /\ e \in S
      BY <1>1, Grown
    <3>2. /\ Concluded(journal, n) \in Nat
          /\ Concluded(journal', n) = IF e.node = n THEN Concluded(journal, n) + 1
                                      ELSE Concluded(journal, n)
      BY <1>2, <2>1, <3>1, CountGrows, CountsArePicked
    <3>3. record.attempts[n] = Concluded(journal, n)
      BY <1>4 DEF UpToDate
    <3> QED
      BY <3>2, <3>3
  <2>5. e.type \notin Approvals \cup {"STATE_TRANSITIONED"}
    BY <2>1 DEF Outcomes, Approvals
  <2> QED
    BY <1>2, <1>3, <2>1, <2>2, <2>3, <2>4, <2>5 DEF Awaits, Node, Approvals
<1>7. CASE Asks(e)
  <2>1. /\ e.type = "APPROVAL_REQUESTED" /\ e.subject = Subject(Node, session.payload)
        /\ Visiting /\ ~ MayEnter /\ ApprovalHistoryHolds /\ PendingApproval = {}
    BY <1>7 DEF Asks
  <2>2. session.step = "loop" /\ Node \in Nodes /\ Node \in Humans /\ ~ Granted /\ ~ Exhausted
    BY <2>1 DEF Visiting, InLoop, MayEnter
  <2>3. /\ record.state = "EXECUTING" /\ session.payload = LastOutcome(journal)
        /\ session.context = ExpectedContext(journal)
    BY <2>2 DEF LoopInv
  <2>4. Attempt \in Nat /\ Policy \in Nat
    BY <2>2, SessionFacts, GraphIsCompiled DEF Policy
  <2>5. ExpectedContext(journal) # None /\ Policy > 0 => Attempt <= Policy
    BY <2>2, <2>3, <2>4 DEF Exhausted, Retrying
  <2>6. e.type \notin Outcomes /\ e.type # "EXECUTION_APPROVED" /\ e.type # "STATE_TRANSITIONED"
    BY <2>1 DEF Outcomes
  <2>7. \A i \in DOMAIN journal : i \in DOMAIN journal' /\ journal'[i] = journal[i]
    BY <1>1, <1>2, Grown
  <2>8. PICK p, n : p = LastOutcome(journal) /\ n = Node
    OBVIOUS
  <2>9. Subject(n, p)' = Subject(n, p)
    <3>1. p \in 0 .. Len(journal)
      BY <1>1, <2>8, SinceGrown
    <3> QED
      BY <2>7, <3>1, SubjectStays
  <2>10. e.subject = Subject(Node, LastOutcome(journal))'
    BY <1>3, <1>5, <2>1, <2>3, <2>6, <2>8, <2>9 DEF Subject, Digest
  <2>11. ASSUME record.approval = "APPROVED"
         PROVE  LatestOf({"EXECUTION_APPROVED"})'.subject # e.subject
    <3> DEFINE G == {"EXECUTION_APPROVED"}
               R == {"APPROVAL_REQUESTED"}
    <3>1. LatestOf(R).subject = LatestOf(G).subject
      BY <2>1, <2>11, GrantAnswers, HistoryIs
    <3>2. \E type \in Approvals : LatestOf({type}).subject # Subject(Node, session.payload)
      BY <2>2, <2>11 DEF Granted
    <3>3. LatestOf(G).subject # e.subject
      BY <2>1, <3>1, <3>2 DEF Approvals
    <3>4. Max(Of(journal, G)) \in Of(journal, G)
      BY <2>1, <2>11, LastIsGrant, HistoryIs
    <3>5. e.type \notin G
      BY <2>1
    <3> HIDE DEF G
    <3>6. Of(journal', G) = Of(journal, G)
      BY <1>1, <1>2, <3>5, OfGrown
    <3>7. journal'[Max(Of(journal, G))] = journal[Max(Of(journal, G))]
      BY <2>7, <3>4 DEF Of
    <3>8. LatestOf(G)' = LatestOf(G)
      BY <3>6, <3>7 DEF LatestOf, G
    <3> QED
      BY <3>3, <3>8 DEF G
  <2>12. ExpectedContext(journal)' # None /\ Policy' > 0 => Attempt' <= Policy'
    BY <1>3, <1>5, <2>5, <2>6
  <2>13. UpToDate' /\ Node' \in Humans /\ record'.state = "EXECUTING"
    BY <1>2, <1>3, <1>5, <2>2, <2>3, <2>6
  <2>14. record'.approval = "APPROVED" => LatestOf({"EXECUTION_APPROVED"})'.subject # e.subject
    BY <1>2, <2>11
  <2> QED
    BY <1>3, <2>6, <2>10, <2>12, <2>13, <2>14 DEF Awaits
<1>8. CASE Grants(e)
  <2>1. e.type = "EXECUTION_APPROVED" /\ record.state = "PAUSED_AWAITING_APPROVAL"
    BY <1>8 DEF Grants
  <2>2. e.type \notin Outcomes /\ e.type # "APPROVAL_REQUESTED" /\ e.type # "STATE_TRANSITIONED"
    BY <2>1 DEF Outcomes
  <2> QED
    BY <1>2, <1>3, <1>5, <2>1, <2>2 DEF Awaits
<1>9. CASE Moves(e)
  <2>1. e.type = "STATE_TRANSITIONED"
    BY <1>9 DEF Moves
  <2>2. e.type \notin Outcomes /\ e.type # "APPROVAL_REQUESTED" /\ e.type # "EXECUTION_APPROVED"
    BY <2>1 DEF Outcomes
  <2> QED
    BY <1>3, <1>5, <2>1, <2>2 DEF Awaits
<1> QED
  BY <1>6, <1>7, <1>8, <1>9 DEF Posts

\* A journal with one event ahead of the record, or with none.
LEMMA PostsKeep ==
  ASSUME GraphInv, GraphInv', LoopInv, RevisionInv, GateInv, NEW e, Posts(e)
  PROVE  RevisionInv' /\ (Settled' \/ Crashes)
<1>1. IsJournal(journal) /\ record \in Record /\ record.revision \in Nat /\ faults \in Nat
      /\ faults' \in Nat
  BY DEF GraphInv, TypeInv, JournalIsTyped, IsJournal, Record
<1>2. Settled /\ UpToDate /\ Ranked(journal)
  BY WritesSettled DEF RevisionInv
<1>3. journal' = Append(journal, e) /\ e.revision = record.revision + 1
  BY DEF Posts
<1>4. e.type \in Mutations
  BY DEF Posts, EndOfVisit, Asks, Grants, Moves, Mutations, Approvals
<1>5. Mutated(journal') = record.revision + 1 /\ Ranked(journal')
  BY <1>1, <1>2, <1>3, <1>4, MutatedGrows, RankedGrows DEF Settled
<1>6. CASE Crashes
  <2>1. PICK m : m = Len(journal) + 1
    OBVIOUS
  <2>2. m \in DOMAIN journal' /\ journal'[m] = e
    BY <1>1, <1>3, <2>1, Grown
  <2>3. m \in Of(journal', Mutations) /\ \A k \in Of(journal', Mutations) : k <= m
    BY <1>1, <1>3, <1>4, <2>1, <2>2, Grown DEF Of
  <2>4. Awaits(e)'
    BY <1>2, <1>6, CrashAwaits
  <2>5. record' = record /\ faults' = faults + 1 /\ session' = Idle
    BY <1>6 DEF Crashes
  <2>6. Awaits(journal[m])'
    BY <2>2, <2>4
  <2>7. Ahead(m)'
    BY <1>1, <1>5, <2>3, <2>5, <2>6 DEF Ahead
  <2>8. ~ Settled'
    BY <1>1, <1>5, <2>5 DEF Settled
  <2>9. session'.step = "idle"
    BY <2>5 DEF Idle, At
  <2> QED
    BY <1>5, <1>6, <2>2, <2>7, <2>8, <2>9 DEF RevisionInv
<1>7. CASE Saves(e)
  <2>1. record' = Updated(e) /\ faults' = faults
    BY <1>7 DEF Saves
  <2>2. record'.revision = record.revision + 1
    <3>1. CASE e.type \in Outcomes
      <4>1. e.type \notin Approvals
        BY <3>1 DEF Outcomes, Approvals
      <4>2. record' = NextRecord(e)
        BY <2>1, <3>1, <4>1 DEF Updated
      <4> QED
        BY <1>1, <1>3, <4>2 DEF NextRecord, Record
    <3>2. CASE e.type \in Approvals
      <4>1. e.type \notin Outcomes
        BY <3>2 DEF Outcomes, Approvals
      <4>2. record' = [record EXCEPT !.revision = @ + 1, !.approval = Status(e)]
        BY <2>1, <3>2, <4>1 DEF Updated
      <4> QED
        BY <1>1, <4>2 DEF Record
    <3>3. CASE e.type \notin Outcomes /\ e.type \notin Approvals
      <4>1. record' = [record EXCEPT !.state = e.to, !.revision = @ + 1]
        BY <2>1, <3>3 DEF Updated
      <4> QED
        BY <1>1, <4>1 DEF Record
    <3> QED
      BY <3>1, <3>2, <3>3
  <2>3. Settled'
    BY <1>5, <2>2 DEF Settled
  <2>4. UpToDate'
    <3>1. CASE e.type \in Outcomes
      <4>1. FinishNode
        BY <3>1 DEF Posts, Asks, Grants, Moves, Outcomes
      <4>2. session'.step = "loop"
        BY <1>1, <2>1, <4>1, FinishFacts DEF At
      <4> QED
        BY <4>2 DEF GraphInv, PlaceInv
    <3>2. CASE e.type \notin Outcomes
      <4>1. record'.node = record.node /\ record'.attempts = record.attempts
        BY <1>1, <2>1, <3>2 DEF Updated, Record
      <4> QED
        BY <1>1, <1>2, <1>3, <3>2, <4>1, WalkStays, UpToDateStays
    <3> QED
      BY <3>1, <3>2
  <2> QED
    BY <1>5, <2>3, <2>4 DEF RevisionInv
<1> QED
  BY <1>6, <1>7 DEF Posts

\* What was written before is shown.
LEMMA ShowsKeep ==
  ASSUME GraphInv, GraphInv', RevisionInv, Shows
  PROVE  RevisionInv' /\ Settled' /\ ~ Settled
<1>1. record \in Record /\ record.revision \in Nat
  BY DEF GraphInv, TypeInv, Record
<1>2. journal' = journal
  BY DEF Shows
<1>3. PendingTransition # {} \/ PendingApproval # {} \/ IsPending(journal)
  BY DEF Shows, RecoverState
<1>4. ~ Settled
  BY <1>3, SettledFacts DEF RevisionInv
<1>5. PICK k : Ahead(k) /\ Awaits(journal[k])
  BY <1>4, AheadAwaits
<1>6. /\ Mutated(journal) = record.revision + 1
      /\ journal[k].revision = record.revision + 1
      /\ PendingTransition = IF journal[k].type = "STATE_TRANSITIONED" THEN {k} ELSE {}
      /\ PendingApproval = IF journal[k].type \in Approvals THEN {k} ELSE {}
      /\ IsPending(journal) <=> journal[k].type \in Outcomes
      /\ journal[k].type \in Outcomes => LastOutcome(journal) = k
  BY <1>5, AheadFacts DEF RevisionInv, Ahead
<1>7. record'.revision = record.revision + 1 /\ UpToDate'
  <2>1. ASSUME record'.node = record.node, record'.attempts = record.attempts,
               journal[k].type \notin Outcomes
        PROVE  UpToDate'
    <3>1. UpToDate
      BY <1>5, <2>1 DEF Awaits
    <3> QED
      BY <1>2, <2>1, <3>1, UpToDateStays
  <2>2. CASE RecoverState
    <3>1. record'.revision = record.revision + 1 /\ record'.node = record.node
          /\ record'.attempts = record.attempts
      BY <1>1, <2>2 DEF RecoverState, Record
    <3>2. journal[k].type = "STATE_TRANSITIONED"
      BY <1>6, <2>2 DEF RecoverState
    <3>3. journal[k].type \notin Outcomes
      BY <3>2 DEF Outcomes
    <3> QED
      BY <2>1, <3>1, <3>3
  <2>3. CASE Resume /\ IsPending(journal)
    <3>1. record' = NextRecord(journal[k]) /\ session'.step = "loop"
      BY <1>6, <2>3 DEF Resume, At
    <3>2. record'.revision = record.revision + 1
      BY <1>1, <1>6, <3>1 DEF NextRecord, Record
    <3>3. UpToDate'
      BY <3>1 DEF GraphInv, PlaceInv
    <3> QED
      BY <3>2, <3>3
  <2>4. CASE PendingApproval # {} /\ record' = ApprovalShown
    <3>1. record'.revision = record.revision + 1 /\ record'.node = record.node
          /\ record'.attempts = record.attempts
      BY <1>1, <2>4 DEF ApprovalShown, Record
    <3>2. journal[k].type \in Approvals
      BY <1>6, <2>4
    <3>3. journal[k].type \notin Outcomes
      BY <3>2 DEF Outcomes, Approvals
    <3> QED
      BY <2>1, <3>1, <3>3
  <2> QED
    BY <2>2, <2>3, <2>4 DEF Shows
<1>8. Settled'
  BY <1>2, <1>6, <1>7 DEF Settled
<1>9. Ranked(journal')
  BY <1>2 DEF RevisionInv
<1> QED
  BY <1>4, <1>7, <1>8, <1>9 DEF RevisionInv

\* A session finds the request that is not shown, or leaves everything as it is.
LEMMA AheadStays ==
  ASSUME GraphInv, GraphInv', LoopInv, RevisionInv, Steady, Others, ~ Settled,
         NEW k, Ahead(k)
  PROVE  Ahead(k)' /\ session'.step \in {"idle", "loop"}
<1>1. IsJournal(journal) /\ faults \in Nat
  BY DEF GraphInv, TypeInv, JournalIsTyped, IsJournal
<1>2. record' = record /\ faults' \in {faults, faults + 1}
  BY DEF Steady
<1>3. /\ Awaits(journal[k]) /\ k \in DOMAIN journal /\ journal[k].type \in Mutations
      /\ session.step \in {"idle", "loop"}
  BY AheadFacts DEF RevisionInv, Ahead
<1>4. journal[k].type = "APPROVAL_REQUESTED"
  <2>1. CASE session.step = "idle"
    <3>1. /\ Resume /\ ~ IsPending(journal) /\ PendingTransition = {}
          /\ record.state = "EXECUTING"
      BY <2>1 DEF Others, Resume
    <3>2. journal[k].type \notin Outcomes /\ journal[k].type # "STATE_TRANSITIONED"
      BY <3>1, AheadFacts DEF RevisionInv
    <3>3. journal[k].type # "EXECUTION_APPROVED"
      BY <1>3, <3>1 DEF Awaits
    <3> QED
      BY <1>3, <3>2, <3>3 DEF Mutations, Approvals
  <2>2. CASE session.step = "loop"
    <3>1. journal[k].type \notin Outcomes /\ journal[k].type # "STATE_TRANSITIONED"
          /\ journal[k].type # "EXECUTION_APPROVED"
      BY <1>3, <2>2 DEF Awaits
    <3> QED
      BY <1>3, <3>1 DEF Mutations, Approvals
  <2> QED
    BY <1>3, <2>1, <2>2
<1>5. /\ UpToDate /\ record.state = "EXECUTING" /\ Node \in Humans
      /\ journal[k].subject = Subject(Node, LastOutcome(journal))
      /\ ExpectedContext(journal) # None /\ Policy > 0 => Attempt <= Policy
      /\ record.approval = "APPROVED" =>
           LatestOf({"EXECUTION_APPROVED"}).subject # journal[k].subject
  BY <1>3, <1>4 DEF Awaits, Outcomes
<1>6. session'.step \in {"idle", "loop"} /\ journal' = journal
  <2>1. CASE session.step = "idle"
    BY <2>1 DEF Others, Resume, At
  <2>2. CASE session.step = "loop"
    <3>1. ~ MayEnter
      <4> SUFFICES ASSUME MayEnter PROVE FALSE
        OBVIOUS
      <4>1. Granted
        BY <1>5 DEF MayEnter
      <4>2. /\ record.approval = "APPROVED"
            /\ LatestOf({"EXECUTION_APPROVED"}).subject = Subject(Node, session.payload)
        BY <4>1 DEF Granted, Approvals
      <4>3. session.payload = LastOutcome(journal)
        BY <2>2 DEF LoopInv
      <4> QED
        BY <1>5, <4>2, <4>3
    <3>2. session' = Idle /\ journal' = journal
      BY <2>2, <3>1 DEF Others, DenyAttempt, StartNode
    <3> QED
      BY <3>2 DEF Idle, At
  <2> QED
    BY <1>3, <2>1, <2>2
<1>7. Awaits(journal[k])'
  <2>1. Node' = Node /\ Attempt' = Attempt /\ Policy' = Policy
    BY <1>2 DEF Node, Attempt, Policy
  <2>2. UpToDate'
    BY <1>2, <1>5, <1>6 DEF UpToDate
  <2>3. journal[k].subject = Subject(Node, LastOutcome(journal))'
    BY <1>5, <1>6, <2>1 DEF Subject, Digest
  <2>4. LatestOf({"EXECUTION_APPROVED"})' = LatestOf({"EXECUTION_APPROVED"})
    BY <1>6 DEF LatestOf
  <2>5. journal'[k].type = "APPROVAL_REQUESTED" /\ journal'[k].type \notin Outcomes
    BY <1>4, <1>6 DEF Outcomes
  <2> QED
    BY <1>2, <1>5, <1>6, <2>1, <2>2, <2>3, <2>4, <2>5 DEF Awaits
<1>8. /\ k \in Of(journal', Mutations) /\ \A i \in Of(journal', Mutations) : i <= k
      /\ Mutated(journal') = record'.revision + 1 /\ faults' > 0
  BY <1>1, <1>2, <1>6 DEF Ahead
<1> QED
  BY <1>6, <1>7, <1>8 DEF Ahead

\* A step that neither shows nor writes ahead.
LEMMA SteadyKeeps ==
  ASSUME GraphInv, GraphInv', LoopInv, RevisionInv, Steady, Others
  PROVE  RevisionInv' /\ (Settled => Settled')
<1>1. IsJournal(journal)
  BY DEF GraphInv, TypeInv, JournalIsTyped, IsJournal
<1>2. record' = record /\ MovesAgree(journal, journal')
  BY DEF Steady, MovesAgree
<1>3. /\ Mutated(journal') = Mutated(journal) /\ Ranked(journal')
      /\ ExpectedNode(journal') = ExpectedNode(journal)
      /\ \A n : Concluded(journal', n) = Concluded(journal, n)
  BY <1>1, <1>2, WalkAgrees DEF RevisionInv
<1>4. CASE Settled
  <2>1. Settled'
    BY <1>2, <1>3, <1>4 DEF Settled
  <2>2. UpToDate'
    BY <1>2, <1>3, <1>4, UpToDateStays DEF RevisionInv
  <2> QED
    BY <1>3, <2>1, <2>2 DEF RevisionInv
<1>5. CASE ~ Settled
  <2>1. PICK k \in DOMAIN journal : Ahead(k)
    BY <1>5 DEF RevisionInv
  <2>2. Ahead(k)' /\ session'.step \in {"idle", "loop"} /\ k \in DOMAIN journal'
    BY <1>2, <1>5, <2>1, AheadStays DEF MovesAgree
  <2>3. ~ Settled'
    BY <1>2, <1>3, <1>5 DEF Settled
  <2> QED
    BY <1>3, <1>5, <2>2, <2>3 DEF RevisionInv
<1> QED
  BY <1>4, <1>5

\* Revisions follow one another, and the record is one behind at most.
LEMMA RevisionKeeps ==
  ASSUME GraphInv, GraphInv', LoopInv, RevisionInv, GateInv, Next
  PROVE  RevisionInv'
BY StepRevises, SteadyKeeps, ShowsKeep, PostsKeep

-----------------------------------------------------------------------------
(* The history of approvals.                                               *)

\* Two requests without a grant in between, in a journal j.
Repeated(j) ==
  \E i, k \in Of(j, {"APPROVAL_REQUESTED"}) :
    i < k /\ \A m \in i + 1 .. k - 1 : j[m].type # "EXECUTION_APPROVED"

\* RequestRepeated is about the journal alone.
LEMMA RepeatedIs == RequestRepeated <=> Repeated(journal)
BY DEF RequestRepeated, Repeated

\* The last approval of any type.
LastApproval(j) == j[Max(Of(j, Approvals))]

\* An approval that is the next in turn.
InTurnAfter(j, e) ==
  /\ e.type = "APPROVAL_REQUESTED" =>
       (Of(j, Approvals) # {} => Status(LastApproval(j)) = "APPROVED")
  /\ e.type = "EXECUTION_APPROVED" =>
       /\ Of(j, Approvals) # {} /\ Status(LastApproval(j)) = "PENDING"
       /\ LastApproval(j).subject = e.subject

\* Events that come to their turns leave turns.
LEMMA TurnsGrow ==
  ASSUME NEW j, IsJournal(j), NEW e, Turns(j), InTurnAfter(j, e)
  PROVE  Turns(Append(j, e))
<1> DEFINE k == Append(j, e)
           Past(l, i) == {m \in Of(l, Approvals) : m < i}
<1>1. /\ Of(k, Approvals) =
           IF e.type \in Approvals THEN Of(j, Approvals) \cup {Len(j) + 1} ELSE Of(j, Approvals)
      /\ Of(j, Approvals) \subseteq 1 .. Len(j)
  BY OfGrown
<1>5. Len(j) \in Nat /\ DOMAIN j = 1 .. Len(j) /\ \A i \in DOMAIN j : k[i] = j[i]
  BY Grown
<1>2. \A i \in Of(k, Approvals) : \/ i \in Of(j, Approvals) /\ i \in DOMAIN j /\ k[i] = j[i]
                                  \/ i = Len(j) + 1 /\ e.type \in Approvals /\ k[i] = e
  BY NewPosition
<1> HIDE DEF k
<1>3. ASSUME NEW i \in Of(k, Approvals), i \in Of(j, Approvals), i \in DOMAIN j, k[i] = j[i]
      PROVE  IF k[i].type = "APPROVAL_REQUESTED"
             THEN Past(k, i) # {} => Status(k[Max(Past(k, i))]) = "APPROVED"
             ELSE /\ Past(k, i) # {} /\ Status(k[Max(Past(k, i))]) = "PENDING"
                  /\ k[Max(Past(k, i))].subject = k[i].subject
  <2>1. i \in 1 .. Len(j)
    BY <1>1, <1>5, <1>3
  <2>2. \A m : m \in Past(k, i) <=> m \in Past(j, i)
    BY <1>1, <1>5, <2>1
  <2>3. Past(k, i) = Past(j, i)
    BY <2>2
  <2>4. Past(j, i) # {} => Max(Past(j, i)) \in Past(j, i)
    BY EarlierIs
  <2>5. Past(j, i) # {} => k[Max(Past(j, i))] = j[Max(Past(j, i))]
    BY <1>1, <1>5, <2>4
  <2>6. IF j[i].type = "APPROVAL_REQUESTED"
        THEN Past(j, i) # {} => Status(j[Max(Past(j, i))]) = "APPROVED"
        ELSE /\ Past(j, i) # {} /\ Status(j[Max(Past(j, i))]) = "PENDING"
             /\ j[Max(Past(j, i))].subject = j[i].subject
    BY <1>3 DEF Turns
  <2> HIDE DEF Past
  <2> QED
    BY <1>3, <2>3, <2>5, <2>6
<1>4. ASSUME NEW i \in Of(k, Approvals), i = Len(j) + 1, e.type \in Approvals, k[i] = e
      PROVE  IF k[i].type = "APPROVAL_REQUESTED"
             THEN Past(k, i) # {} => Status(k[Max(Past(k, i))]) = "APPROVED"
             ELSE /\ Past(k, i) # {} /\ Status(k[Max(Past(k, i))]) = "PENDING"
                  /\ k[Max(Past(k, i))].subject = k[i].subject
  <2>1. \A m : m \in Past(k, i) <=> m \in Of(j, Approvals)
    BY <1>1, <1>5, <1>4
  <2>2. Past(k, i) = Of(j, Approvals)
    BY <2>1
  <2>3. Of(j, Approvals) # {} => Max(Of(j, Approvals)) \in Of(j, Approvals)
    BY LatestIs
  <2>4. Of(j, Approvals) # {} => k[Max(Of(j, Approvals))] = LastApproval(j)
    BY <1>1, <1>5, <2>3 DEF LastApproval
  <2> HIDE DEF Past
  <2> QED
    BY <1>4, <2>2, <2>4 DEF InTurnAfter, Approvals
<1> QED
  BY <1>2, <1>3, <1>4 DEF Turns, k

\* A request is repeated when it follows a request.
LEMMA RepeatedGrows ==
  ASSUME NEW j, IsJournal(j), NEW e
  PROVE  Repeated(Append(j, e)) <=>
           \/ Repeated(j)
           \/ /\ e.type = "APPROVAL_REQUESTED" /\ Of(j, Approvals) # {}
              /\ Status(LastApproval(j)) = "PENDING"
<1> DEFINE k == Append(j, e)
           n == Len(j) + 1
           R == {"APPROVAL_REQUESTED"}
           G == {"EXECUTION_APPROVED"}
<1>1. /\ Len(j) \in Nat /\ DOMAIN j = 1 .. Len(j)
      /\ \A i \in DOMAIN j : k[i] = j[i]
      /\ k[n] = e
  BY Grown
<1>2. /\ Of(k, R) = IF e.type \in R THEN Of(j, R) \cup {n} ELSE Of(j, R)
      /\ Of(j, R) \subseteq 1 .. Len(j)
  BY OfGrown
<1>3. e.type \in R <=> e.type = "APPROVAL_REQUESTED"
  OBVIOUS
<1>4. \A i \in Of(j, R) : i \in Of(j, Approvals) /\ j[i].type = "APPROVAL_REQUESTED"
  BY DEF Of, Approvals
<1>5. \A i \in Of(j, Approvals) : /\ i \in DOMAIN j
                                  /\ i \notin Of(j, R) => j[i].type = "EXECUTION_APPROVED"
  BY DEF Of, Approvals
<1>6. \A i \in DOMAIN j : j[i].type = "EXECUTION_APPROVED" =>
                            i \in Of(j, Approvals) /\ i \notin Of(j, R)
  BY DEF Of, Approvals
<1>7. Repeated(j) <=> \E i, l \in Of(j, R) :
                        i < l /\ \A m \in i + 1 .. l - 1 : j[m].type # "EXECUTION_APPROVED"
  BY DEF Repeated
<1>8. Repeated(k) <=> \E i, l \in Of(k, R) :
                        i < l /\ \A m \in i + 1 .. l - 1 : k[m].type # "EXECUTION_APPROVED"
  BY DEF Repeated
<1> HIDE DEF k, n, R, G
<1>9. ASSUME Repeated(j) PROVE Repeated(k)
  <2>1. PICK i, l \in Of(j, R) :
          i < l /\ \A m \in i + 1 .. l - 1 : j[m].type # "EXECUTION_APPROVED"
    BY <1>7, <1>9
  <2>2. i \in Of(k, R) /\ l \in Of(k, R) /\ i \in 1 .. Len(j) /\ l \in 1 .. Len(j)
    BY <1>2
  <2>3. \A m \in i + 1 .. l - 1 : k[m].type # "EXECUTION_APPROVED"
    BY <1>1, <2>1, <2>2
  <2> QED
    BY <1>8, <2>1, <2>2, <2>3
<1>10. ASSUME e.type = "APPROVAL_REQUESTED", Of(j, Approvals) # {},
              Status(LastApproval(j)) = "PENDING"
       PROVE  Repeated(k)
  <2>1. PICK i \in Of(j, Approvals) : /\ i = Max(Of(j, Approvals))
                                      /\ \A m \in Of(j, Approvals) : m <= i
    BY <1>10, LatestIs
  <2>2. i \in Of(j, R)
    BY <1>5, <1>10, <2>1 DEF LastApproval, Status
  <2>3. i \in Of(k, R) /\ n \in Of(k, R) /\ i \in 1 .. Len(j) /\ i < n
    BY <1>1, <1>2, <1>3, <1>10, <2>2 DEF n
  <2>4. ASSUME NEW m \in i + 1 .. n - 1 PROVE k[m].type # "EXECUTION_APPROVED"
    <3>1. m \in DOMAIN j /\ ~ (m <= i)
      BY <1>1, <2>3 DEF n
    <3> QED
      BY <1>1, <1>6, <2>1, <3>1
  <2> QED
    BY <1>8, <2>3, <2>4
<1>11. ASSUME Repeated(k), ~ Repeated(j)
       PROVE  /\ e.type = "APPROVAL_REQUESTED" /\ Of(j, Approvals) # {}
              /\ Status(LastApproval(j)) = "PENDING"
  <2>1. PICK i, l \in Of(k, R) :
          i < l /\ \A m \in i + 1 .. l - 1 : k[m].type # "EXECUTION_APPROVED"
    BY <1>8, <1>11
  <2>2. CASE l \in Of(j, R)
    <3>1. l \in 1 .. Len(j) /\ i \in Of(j, R)
      BY <1>1, <1>2, <2>1, <2>2 DEF n
    <3>2. i \in 1 .. Len(j)
      BY <1>2, <3>1
    <3>3. \A m \in i + 1 .. l - 1 : j[m].type # "EXECUTION_APPROVED"
      BY <1>1, <2>1, <3>1, <3>2
    <3> QED
      BY <1>7, <1>11, <2>1, <2>2, <3>1, <3>3
  <2>3. CASE l \notin Of(j, R)
    <3>1. e.type = "APPROVAL_REQUESTED" /\ l = n
      BY <1>2, <1>3, <2>3
    <3>2. i \in Of(j, R) /\ i \in 1 .. Len(j)
      BY <1>1, <1>2, <2>1, <3>1 DEF n
    <3>3. PICK a \in Of(j, Approvals) : /\ a = Max(Of(j, Approvals))
                                        /\ \A m \in Of(j, Approvals) : m <= a
      BY <1>4, <3>2, LatestIs
    <3>4. i <= a /\ a \in DOMAIN j
      BY <1>4, <1>5, <3>2, <3>3
    <3>5. a \in Of(j, R)
      <4> SUFFICES ASSUME a \notin Of(j, R) PROVE FALSE
        OBVIOUS
      <4>1. j[a].type = "EXECUTION_APPROVED" /\ a # i
        BY <1>5, <3>2
      <4>2. a \in i + 1 .. l - 1 /\ k[a] = j[a]
        BY <1>1, <3>1, <3>2, <3>4, <4>1 DEF n
      <4> QED
        BY <2>1, <4>1, <4>2
    <3>6. Status(LastApproval(j)) = "PENDING"
      BY <1>4, <3>3, <3>5 DEF LastApproval, Status
    <3> QED
      BY <3>1, <3>3, <3>6
  <2> QED
    BY <2>2, <2>3
<1> QED
  BY <1>9, <1>10, <1>11 DEF k

\* A journal with the same approvals has the same history.
LEMMA HistoryAgrees ==
  ASSUME NEW j, IsJournal(j), NEW k, MovesAgree(j, k)
  PROVE  (Turns(j) => Turns(k)) /\ (Repeated(k) <=> Repeated(j))
         /\ Of(k, Approvals) = Of(j, Approvals)
<1> DEFINE A == Approvals
           R == {"APPROVAL_REQUESTED"}
           Past(l, i) == {m \in Of(l, A) : m < i}
<1>1. A \in SUBSET Mutations /\ R \in SUBSET Mutations
  BY DEF Mutations, Approvals
<1>2. /\ Turns(j) <=> \A i \in Of(j, A) :
           IF j[i].type = "APPROVAL_REQUESTED"
           THEN Past(j, i) # {} => Status(j[Max(Past(j, i))]) = "APPROVED"
           ELSE /\ Past(j, i) # {} /\ Status(j[Max(Past(j, i))]) = "PENDING"
                /\ j[Max(Past(j, i))].subject = j[i].subject
      /\ Turns(k) <=> \A i \in Of(k, A) :
           IF k[i].type = "APPROVAL_REQUESTED"
           THEN Past(k, i) # {} => Status(k[Max(Past(k, i))]) = "APPROVED"
           ELSE /\ Past(k, i) # {} /\ Status(k[Max(Past(k, i))]) = "PENDING"
                /\ k[Max(Past(k, i))].subject = k[i].subject
  BY DEF Turns
<1>3. \A i : Past(j, i) # {} => Max(Past(j, i)) \in Past(j, i)
  BY EarlierIs
<1>4. /\ Repeated(j) <=> \E i, l \in Of(j, R) :
           i < l /\ \A m \in i + 1 .. l - 1 : j[m].type # "EXECUTION_APPROVED"
      /\ Repeated(k) <=> \E i, l \in Of(k, R) :
           i < l /\ \A m \in i + 1 .. l - 1 : k[m].type # "EXECUTION_APPROVED"
  BY DEF Repeated
<1>5. /\ \A i \in Of(j, A) : i \in DOMAIN j
      /\ Of(j, R) \subseteq 1 .. Len(j) /\ Len(j) \in Nat /\ DOMAIN j = 1 .. Len(j)
  BY OfGrown, Grown DEF Of
<1> HIDE DEF A, R
<1>6. Of(k, A) = Of(j, A) /\ Of(k, R) = Of(j, R)
  BY <1>1, WalkAgrees
<1>7. \A i \in DOMAIN j : k[i] = j[i]
  BY DEF MovesAgree
<1>8. \A i : Past(k, i) = Past(j, i)
  BY <1>6
<1>9. \A i : Past(j, i) # {} => k[Max(Past(j, i))] = j[Max(Past(j, i))]
  BY <1>3, <1>5, <1>7
<1>10. Repeated(k) <=> Repeated(j)
  <2>1. \A i, l \in Of(j, R) : \A m \in i + 1 .. l - 1 : k[m] = j[m]
    BY <1>5, <1>7
  <2> QED
    BY <1>4, <1>6, <2>1
<1> HIDE DEF Past
<1>11. ASSUME Turns(j) PROVE Turns(k)
  <2>1. ASSUME NEW i \in Of(k, A)
        PROVE  IF k[i].type = "APPROVAL_REQUESTED"
               THEN Past(k, i) # {} => Status(k[Max(Past(k, i))]) = "APPROVED"
               ELSE /\ Past(k, i) # {} /\ Status(k[Max(Past(k, i))]) = "PENDING"
                    /\ k[Max(Past(k, i))].subject = k[i].subject
    <3>1. i \in Of(j, A) /\ k[i] = j[i] /\ Past(k, i) = Past(j, i)
      BY <1>5, <1>6, <1>7, <1>8
    <3>2. Past(j, i) # {} => k[Max(Past(j, i))] = j[Max(Past(j, i))]
      BY <1>9
    <3>3. IF j[i].type = "APPROVAL_REQUESTED"
          THEN Past(j, i) # {} => Status(j[Max(Past(j, i))]) = "APPROVED"
          ELSE /\ Past(j, i) # {} /\ Status(j[Max(Past(j, i))]) = "PENDING"
               /\ j[Max(Past(j, i))].subject = j[i].subject
      BY <1>2, <1>11, <3>1
    <3> QED
      BY <3>1, <3>2, <3>3
  <2> QED
    BY <1>2, <2>1
<1> QED
  BY <1>6, <1>10, <1>11 DEF A

\* The status a of the last of the approvals that are not open.
ShownAs(j, open, a) ==
  LET committed == Of(j, Approvals) \ open
  IN  a = IF committed = {} THEN "NOT_REQUIRED" ELSE Status(j[Max(committed)])

\* What ApprovalIsShown asks of the record.
LEMMA ShownIs == ApprovalIsShown <=> ShownAs(journal, PendingApproval, record.approval)
BY DEF ApprovalIsShown, ShownAs

\* Events before a position show the same.
LEMMA ShownStays ==
  ASSUME NEW j, IsJournal(j), NEW k, \A i \in DOMAIN j : k[i] = j[i], NEW a,
         NEW open, NEW late, Of(k, Approvals) \ late = Of(j, Approvals) \ open
  PROVE  ShownAs(k, late, a) <=> ShownAs(j, open, a)
<1> DEFINE C == Of(j, Approvals) \ open
<1>1. C \in SUBSET (0 .. Len(j)) /\ C \subseteq DOMAIN j /\ Len(j) \in Nat
  <2>1. Of(j, Approvals) \subseteq 1 .. Len(j) /\ Of(j, Approvals) \subseteq DOMAIN j
    BY OfGrown
  <2>2. Len(j) \in Nat
    BY Grown
  <2> QED
    BY <2>1, <2>2
<1>2. ShownAs(k, late, a) <=> a = IF C = {} THEN "NOT_REQUIRED" ELSE Status(k[Max(C)])
  BY DEF ShownAs
<1>3. ShownAs(j, open, a) <=> a = IF C = {} THEN "NOT_REQUIRED" ELSE Status(j[Max(C)])
  BY DEF ShownAs
<1> HIDE DEF C
<1>4. C # {} => Max(C) \in C
  BY <1>1, MaxIsLast
<1> QED
  BY <1>1, <1>2, <1>3, <1>4

\* A record that has shown everything lacks no approval.
LEMMA NoneLacks ==
  ASSUME NEW j, IsJournal(j), Ranked(j), NEW r, Mutated(j) = r
  PROVE  Lacks(j, r, Approvals) = {}
<1>1. Approvals \in SUBSET Mutations
  BY DEF Mutations
<1> QED
  BY <1>1, NothingLacks

\* A step that leaves the record alone leaves its approval alone.
LEMMA SteadyApproval ==
  ASSUME GraphInv, ApprovalInv, Steady, Others
  PROVE  ApprovalInv'
<1>1. IsJournal(journal) /\ faults \in Nat
  BY DEF GraphInv, TypeInv, JournalIsTyped, IsJournal
<1>2. /\ record' = record /\ faults' \in {faults, faults + 1}
      /\ MovesAgree(journal, journal')
  BY DEF Steady, MovesAgree
<1>3. /\ Turns(journal) => Turns(journal')
      /\ Repeated(journal') <=> Repeated(journal)
      /\ Of(journal', Approvals) = Of(journal, Approvals)
  BY <1>1, <1>2, HistoryAgrees
<1>4. \A i \in DOMAIN journal : journal'[i] = journal[i]
  BY <1>2 DEF MovesAgree
<1>5. PendingApproval' = PendingApproval
  <2>1. \A i \in Of(journal, Approvals) : journal'[i] = journal[i]
    BY <1>4 DEF Of
  <2> QED
    BY <1>2, <1>3, <2>1 DEF PendingApproval
<1>6. PICK a, open : a = record.approval /\ open = PendingApproval
  OBVIOUS
<1>7. ShownAs(journal', open, a)
  BY <1>1, <1>3, <1>4, <1>6, ShownStays, ShownIs DEF ApprovalInv
<1>8. ApprovalIsShown'
  BY <1>2, <1>5, <1>6, <1>7 DEF ApprovalIsShown, ShownAs
<1>9. record'.approval = "PENDING" /\ record'.state = "EXECUTING" /\ session'.step # "asked" =>
        faults' > 0
  BY <1>1, <1>2 DEF ApprovalInv, Others
<1>10. /\ RequestRepeated' \/ Turns(journal')
       /\ RequestRepeated' => faults' > 0
  <2>1. RequestRepeated' <=> Repeated(journal')
    BY DEF RequestRepeated, Repeated
  <2> QED
    BY <1>1, <1>2, <1>3, <2>1, RepeatedIs DEF ApprovalInv
<1>11. record'.state \in Fresh => Of(journal', Approvals) = {}
  BY <1>2, <1>3 DEF ApprovalInv
<1> QED
  BY <1>8, <1>9, <1>10, <1>11 DEF ApprovalInv

\* A step that shows what was written.
LEMMA ShowsApproval ==
  ASSUME GraphInv, GraphInv', RevisionInv, RevisionInv', ApprovalInv, Shows
  PROVE  ApprovalInv'
<1>1. /\ IsJournal(journal) /\ faults \in Nat /\ record \in Record
      /\ \A i \in DOMAIN journal : EventIsTyped(journal[i])
  BY DEF GraphInv, TypeInv, JournalIsTyped, IsJournal
<1>2. journal' = journal /\ faults' = faults
  BY DEF Shows
<1>3. Settled' /\ ~ Settled
  BY ShowsKeep
<1>4. PICK k : Ahead(k)
  BY <1>3, AheadAwaits
<1>5. /\ PendingTransition = IF journal[k].type = "STATE_TRANSITIONED" THEN {k} ELSE {}
      /\ PendingApproval = IF journal[k].type \in Approvals THEN {k} ELSE {}
      /\ IsPending(journal) <=> journal[k].type \in Outcomes
      /\ k \in DOMAIN journal
  BY <1>4, AheadFacts DEF RevisionInv
<1>6. faults > 0
  BY <1>4 DEF Ahead
<1>7. PendingApproval' = {}
  <2>1. Lacks(journal', record'.revision, Approvals) = {}
    BY <1>1, <1>2, <1>3, NoneLacks DEF Settled, RevisionInv
  <2> QED
    BY <2>1 DEF PendingApproval, Lacks
<1>8. ApprovalIsShown' /\ (record'.state \in Fresh => record.state \in Fresh)
  <2>1. ASSUME PendingApproval = {}, record'.approval = record.approval PROVE ApprovalIsShown'
    BY <1>2, <1>7, <2>1 DEF ApprovalIsShown, ApprovalInv
  <2>2. CASE RecoverState
    <3>1. PICK i \in PendingTransition :
            record' = [record EXCEPT !.state = journal[i].to, !.revision = @ + 1]
      BY <2>2 DEF RecoverState
    <3>2. journal[k].type = "STATE_TRANSITIONED" /\ i = k
      BY <1>5, <3>1
    <3>3. PendingApproval = {} /\ journal[k].to \in State \ Fresh
      BY <1>1, <1>5, <3>2 DEF Approvals, EventIsTyped
    <3>4. record'.approval = record.approval /\ record'.state = journal[k].to
      BY <1>1, <3>1, <3>2 DEF Record
    <3> QED
      BY <2>1, <3>3, <3>4
  <2>3. CASE Resume /\ IsPending(journal)
    <3>1. PendingApproval = {}
      BY <1>5, <2>3 DEF Approvals, Outcomes
    <3>2. record'.approval = record.approval /\ record'.state = record.state
      BY <1>1, <2>3 DEF Resume, NextRecord, Record
    <3> QED
      BY <2>1, <3>1, <3>2
  <2>4. CASE PendingApproval # {} /\ record' = ApprovalShown
    <3>1. /\ record'.approval = Status(LatestOf(Approvals)) /\ record'.state = record.state
      BY <1>1, <2>4 DEF ApprovalShown, Record
    <3>2. Of(journal, Approvals) # {} /\ Of(journal, Approvals) \ {} = Of(journal, Approvals)
      BY <2>4 DEF PendingApproval
    <3>3. ApprovalIsShown'
      BY <1>2, <1>7, <3>1, <3>2 DEF ApprovalIsShown, LatestOf
    <3> QED
      BY <3>1, <3>3
  <2> QED
    BY <2>2, <2>3, <2>4 DEF Shows
<1>9. /\ RequestRepeated' \/ Turns(journal')
      /\ RequestRepeated' => faults' > 0
  <2>1. RequestRepeated' <=> RequestRepeated
    BY <1>2 DEF RequestRepeated
  <2> QED
    BY <1>2, <2>1 DEF ApprovalInv
<1>10. record'.state \in Fresh => Of(journal', Approvals) = {}
  BY <1>2, <1>8 DEF ApprovalInv
<1> QED
  BY <1>2, <1>6, <1>8, <1>9, <1>10 DEF ApprovalInv

\* What is written ahead, and what becomes of the approval.
LEMMA PostsApproval ==
  ASSUME GraphInv, GraphInv', LoopInv, RevisionInv, RevisionInv', GateInv, ApprovalInv,
         NEW e, Posts(e)
  PROVE  ApprovalInv'
<1>1. /\ IsJournal(journal) /\ faults \in Nat /\ record \in Record /\ record.revision \in Nat
      /\ session \in Session /\ IsJournal(journal')
  BY DEF GraphInv, TypeInv, JournalIsTyped, IsJournal, Record
<1>2. Settled /\ PendingApproval = {} /\ PendingTransition = {}
  BY WritesSettled, SettledFacts DEF RevisionInv
<1>3. /\ journal' = Append(journal, e) /\ e.revision = record.revision + 1
      /\ Settled' \/ Crashes
  BY PostsKeep DEF Posts
<1>4. PICK n : n = Len(journal) + 1
  OBVIOUS
<1>5. /\ n \notin Of(journal, Approvals) /\ journal'[n] = e
      /\ \A i \in DOMAIN journal : journal'[i] = journal[i]
  BY <1>1, <1>3, <1>4, Grown DEF Of
<1>6. Of(journal', Approvals) =
        IF e.type \in Approvals THEN Of(journal, Approvals) \cup {n} ELSE Of(journal, Approvals)
  BY <1>1, <1>3, <1>4, OfGrown
<1>7. Crashes => /\ record' = record /\ faults' > 0 /\ faults' = faults + 1
                 /\ Of(journal', Approvals) \ PendingApproval' = Of(journal, Approvals)
  <2> SUFFICES ASSUME Crashes
               PROVE  /\ record' = record /\ faults' > 0 /\ faults' = faults + 1
                      /\ Of(journal', Approvals) \ PendingApproval' = Of(journal, Approvals)
    OBVIOUS
  <2>1. record' = record /\ faults' = faults + 1 /\ faults' > 0
    BY <1>1 DEF Crashes
  <2>2. \A i \in Of(journal, Approvals) : i \in DOMAIN journal /\ journal[i].revision # record.revision + 1
    BY <1>2 DEF PendingApproval, Of
  <2>3. \A i \in Of(journal, Approvals) : i \notin PendingApproval'
    BY <1>5, <2>1, <2>2 DEF PendingApproval
  <2>4. n \in Of(journal', Approvals) => n \in PendingApproval'
    BY <1>3, <1>5, <2>1 DEF PendingApproval
  <2> QED
    BY <1>5, <1>6, <2>1, <2>3, <2>4
<1>8. ~ Crashes => /\ faults' = faults /\ record' = Updated(e)
                   /\ PendingApproval' = {}
  <2> SUFFICES ASSUME ~ Crashes
               PROVE  faults' = faults /\ record' = Updated(e) /\ PendingApproval' = {}
    OBVIOUS
  <2>1. Settled' /\ Saves(e)
    BY <1>3 DEF Posts
  <2>2. Lacks(journal', record'.revision, Approvals) = {}
    BY <1>1, <2>1, NoneLacks DEF Settled, RevisionInv
  <2> QED
    BY <2>1, <2>2 DEF PendingApproval, Lacks, Saves
<1>9. ShownAs(journal, {}, record.approval)
  BY <1>2, ShownIs DEF ApprovalInv
<1>10. ASSUME record'.approval = record.approval,
              Of(journal', Approvals) \ PendingApproval' = Of(journal, Approvals)
       PROVE  ApprovalIsShown'
  <2>1. PICK a, late : a = record.approval /\ late = PendingApproval'
    OBVIOUS
  <2>2. Of(journal', Approvals) \ late = Of(journal, Approvals) \ {}
    BY <1>10, <2>1
  <2>3. ShownAs(journal', late, a)
    BY <1>1, <1>5, <1>9, <2>1, <2>2, ShownStays
  <2> QED
    BY <1>10, <2>1, <2>3 DEF ApprovalIsShown, ShownAs
<1>11. ASSUME ~ Crashes, e.type \in Approvals
       PROVE  /\ ApprovalIsShown' /\ record'.approval = Status(e) /\ record'.state = record.state
  <2>1. e.type \notin Outcomes
    BY <1>11 DEF Outcomes, Approvals
  <2>2. record' = [record EXCEPT !.revision = @ + 1, !.approval = Status(e)]
    BY <1>8, <1>11, <2>1 DEF Updated
  <2>3. record'.approval = Status(e) /\ record'.state = record.state
    BY <1>1, <2>2 DEF Record
  <2>4. Of(journal', Approvals) \ PendingApproval' = Of(journal', Approvals)
    BY <1>8, <1>11
  <2>5. n \in Of(journal', Approvals) /\ \A i \in Of(journal', Approvals) : i <= n
    <3>1. Of(journal, Approvals) \subseteq 1 .. Len(journal)
      BY <1>1, OfGrown
    <3>2. Len(journal) \in Nat
      BY <1>1, Grown
    <3> QED
      BY <1>4, <1>6, <1>11, <3>1, <3>2
  <2>6. Max(Of(journal', Approvals)) = n
    BY <1>1, <2>5, LatestIs
  <2> QED
    BY <1>5, <2>3, <2>4, <2>5, <2>6 DEF ApprovalIsShown
<1>12. RequestRepeated' <=>
         \/ RequestRepeated
         \/ /\ e.type = "APPROVAL_REQUESTED" /\ Of(journal, Approvals) # {}
            /\ Status(LastApproval(journal)) = "PENDING"
  <2>1. RequestRepeated' <=> Repeated(journal')
    BY DEF RequestRepeated, Repeated
  <2> QED
    BY <1>1, <1>3, <2>1, RepeatedGrows, RepeatedIs
<1>13. record.approval = IF Of(journal, Approvals) = {} THEN "NOT_REQUIRED"
                         ELSE Status(LastApproval(journal))
  BY <1>9 DEF ShownAs, LastApproval
<1>14. Turns(journal) /\ InTurnAfter(journal, e) => Turns(journal')
  BY <1>1, <1>3, TurnsGrow
<1>15. CASE e.type \notin Approvals
  <2>1. e.type # "APPROVAL_REQUESTED" /\ e.type # "EXECUTION_APPROVED"
    BY <1>15 DEF Approvals
  <2>2. Of(journal', Approvals) = Of(journal, Approvals)
    BY <1>6, <1>15
  <2>3. Turns(journal) => Turns(journal')
    BY <1>14, <2>1 DEF InTurnAfter
  <2>4. RequestRepeated' <=> RequestRepeated
    BY <1>12, <2>1
  <2>5. record'.approval = record.approval
    <3>1. CASE Crashes
      BY <1>7, <3>1
    <3>2. CASE ~ Crashes
      BY <1>1, <1>8, <1>15, <3>2 DEF Updated, NextRecord, Record
    <3> QED
      BY <3>1, <3>2
  <2>6. Of(journal', Approvals) \ PendingApproval' = Of(journal, Approvals)
    BY <1>7, <1>8, <2>2
  <2>7. ApprovalIsShown'
    BY <1>10, <2>5, <2>6
  <2>8. (FinishNode /\ EndOfVisit(e)) \/ Moves(e)
    BY <2>1 DEF Posts, Asks, Grants
  <2>9. faults' >= faults
    BY <1>1, <1>7, <1>8
  <2>10. ASSUME ~ Crashes
         PROVE  /\ record'.state \notin Fresh
                /\ record'.approval = "PENDING" /\ record'.state = "EXECUTING" => faults > 0
    <3>1. record' = Updated(e)
      BY <1>8, <2>10
    <3>2. CASE FinishNode /\ EndOfVisit(e)
      <4>1. e.type \in Outcomes
        BY <3>2 DEF EndOfVisit
      <4>2. record' = NextRecord(e)
        BY <1>15, <3>1, <4>1 DEF Updated
      <4>3. record'.state = record.state
        BY <1>1, <4>2 DEF NextRecord, Record
      <4>4. session.step = "result" /\ record.state = "EXECUTING"
        BY <3>2, FinishFacts DEF LoopInv
      <4> QED
        BY <2>5, <4>3, <4>4 DEF ApprovalInv, Fresh
    <3>3. CASE Moves(e)
      <4>1. e.type = "STATE_TRANSITIONED" /\ e.to \in State \ Fresh
        BY <3>3 DEF Moves
      <4>2. e.type \notin Outcomes
        BY <4>1 DEF Outcomes
      <4>3. record'.state = e.to
        BY <1>1, <1>15, <3>1, <4>2 DEF Updated, Record
      <4>4. ASSUME e.to = "EXECUTING" PROVE record.approval # "PENDING"
        <5>1. Execute \/ record.approval = "APPROVED"
          BY <3>3, <4>4 DEF Moves
        <5>2. Execute => record.state \in Fresh
          BY DEF Execute, Fresh
        <5>3. record.state \in Fresh => record.approval = "NOT_REQUIRED"
          BY <1>13 DEF ApprovalInv
        <5> QED
          BY <5>1, <5>2, <5>3
      <4> QED
        BY <2>5, <4>1, <4>3, <4>4
    <3> QED
      BY <2>8, <3>2, <3>3
  <2>11. record'.state \in Fresh => Of(journal', Approvals) = {}
    BY <1>7, <2>2, <2>10 DEF ApprovalInv
  <2>12. record'.approval = "PENDING" /\ record'.state = "EXECUTING" => faults' > 0
    BY <1>1, <1>7, <1>8, <2>10
  <2>13. (RequestRepeated' \/ Turns(journal')) /\ (RequestRepeated' => faults' > 0)
    <3>1. faults > 0 => faults' > 0
      BY <1>1, <1>7, <1>8
    <3> QED
      BY <2>3, <2>4, <3>1 DEF ApprovalInv
  <2> QED
    BY <2>7, <2>11, <2>12, <2>13 DEF ApprovalInv
<1>16. CASE e.type \in Approvals
  <2>1. Asks(e) \/ Grants(e)
    BY <1>16 DEF Posts, EndOfVisit, Moves, Approvals, Outcomes
  <2>2. Turns(journal)
    BY <2>1, HistoryIs DEF Asks, Grants, Recovered
  <2>3. ApprovalIsShown'
    <3>1. CASE Crashes
      BY <1>7, <1>10, <3>1
    <3>2. CASE ~ Crashes
      BY <1>11, <1>16, <3>2
    <3> QED
      BY <3>1, <3>2
  <2>4. record'.state = record.state
    BY <1>7, <1>11, <1>16
  <2>5. record.state \in {"EXECUTING", "PAUSED_AWAITING_APPROVAL"}
    <3>1. Asks(e) => session.step = "loop"
      BY DEF Asks, Visiting, InLoop
    <3> QED
      BY <2>1, <3>1 DEF Grants, LoopInv
  <2>6. CASE Grants(e)
    <3>1. /\ e.type = "EXECUTION_APPROVED" /\ record.approval = "PENDING"
          /\ e.subject = LatestOf({"APPROVAL_REQUESTED"}).subject
          /\ record.state = "PAUSED_AWAITING_APPROVAL"
      BY <2>6 DEF Grants
    <3>2. Of(journal, Approvals) # {} /\ Status(LastApproval(journal)) = "PENDING"
      BY <1>13, <3>1
    <3>3. LastApproval(journal).subject = e.subject
      <4> DEFINE R == {"APPROVAL_REQUESTED"}
      <4>1. PICK m \in Of(journal, Approvals) : /\ m = Max(Of(journal, Approvals))
                                                /\ \A i \in Of(journal, Approvals) : i <= m
        BY <1>1, <3>2, LatestIs
      <4>2. journal[m].type = "APPROVAL_REQUESTED"
        BY <3>2, <4>1 DEF LastApproval, Status
      <4>3. m \in Of(journal, R) /\ \A i \in Of(journal, R) : i <= m
        BY <4>1, <4>2 DEF Of, Approvals
      <4> HIDE DEF R
      <4>4. Max(Of(journal, R)) = m
        BY <1>1, <4>3, LatestIs
      <4> QED
        BY <3>1, <4>1, <4>4 DEF LastApproval, LatestOf, R
    <3>4. InTurnAfter(journal, e)
      BY <3>1, <3>2, <3>3 DEF InTurnAfter
    <3>5. RequestRepeated' <=> RequestRepeated
      BY <1>12, <3>1
    <3>6. faults > 0 => faults' > 0
      BY <1>1, <1>7, <1>8
    <3>7. record'.state = "PAUSED_AWAITING_APPROVAL" /\ record'.state \notin Fresh
      BY <2>4, <3>1 DEF Fresh
    <3> QED
      BY <1>14, <2>2, <2>3, <3>4, <3>5, <3>6, <3>7 DEF ApprovalInv
  <2>7. CASE Asks(e)
    <3>1. e.type = "APPROVAL_REQUESTED" /\ session.step = "loop" /\ record.state = "EXECUTING"
      BY <2>7 DEF Asks, Visiting, InLoop, LoopInv
    <3>2. record'.state \notin Fresh
      BY <2>4, <3>1 DEF Fresh
    <3>3. RequestRepeated' \/ Turns(journal')
      <4>1. CASE Of(journal, Approvals) # {} /\ Status(LastApproval(journal)) = "PENDING"
        BY <1>12, <3>1, <4>1
      <4>2. CASE ~ (Of(journal, Approvals) # {} /\ Status(LastApproval(journal)) = "PENDING")
        <5>1. InTurnAfter(journal, e)
          BY <3>1, <4>2 DEF InTurnAfter, Status
        <5> QED
          BY <1>14, <2>2, <5>1
      <4> QED
        BY <4>1, <4>2
    <3>4. RequestRepeated' => faults > 0
      <4>1. record.approval = "PENDING" => faults > 0
        BY <3>1 DEF ApprovalInv
      <4> QED
        BY <1>12, <1>13, <4>1 DEF ApprovalInv
    <3>5. faults > 0 => faults' > 0
      BY <1>1, <1>7, <1>8
    <3>6. Crashes \/ session'.step = "asked"
      BY <1>1, <2>7 DEF Asks, Session
    <3>7. session'.step # "asked" => faults' > 0
      BY <1>7, <3>6
    <3> QED
      BY <2>3, <3>2, <3>3, <3>4, <3>5, <3>7 DEF ApprovalInv
  <2> QED
    BY <2>1, <2>6, <2>7
<1> QED
  BY <1>15, <1>16

\* Approvals take turns, and the record shows the last.
LEMMA ApprovalKeeps ==
  ASSUME GraphInv, GraphInv', LoopInv, RevisionInv, RevisionInv', GateInv, ApprovalInv, Next
  PROVE  ApprovalInv'
BY StepRevises, SteadyApproval, ShowsApproval, PostsApproval

-----------------------------------------------------------------------------
(* The readers of the journal.                                             *)

\* The revisions of the journal follow one another.
LEMMA RevisionsAreRead ==
  ASSUME GraphInv, RevisionInv PROVE RevisionsFollow(journal)
<1>1. IsJournal(journal) /\ record.revision \in Nat /\ Ranked(journal)
  BY DEF GraphInv, TypeInv, JournalIsTyped, IsJournal, Record, RevisionInv
<1>2. Mutated(journal) <= record.revision + 1
  BY <1>1 DEF RevisionInv, Settled, Ahead
<1>3. ASSUME NEW i \in Of(journal, Mutations)
      PROVE  /\ journal[i].revision = Cardinality({k \in Of(journal, Mutations) : k <= i})
             /\ journal[i].revision <= record.revision + 1
  <2>1. journal[i].revision \in Nat /\ journal[i].revision <= Mutated(journal)
        /\ Mutated(journal) \in Nat
    BY <1>1, RanksAre
  <2> QED
    BY <1>1, <1>2, <2>1 DEF Ranked
<1> QED
  BY <1>3 DEF RevisionsFollow, Mutations

\* The record is where the journal leads, or lacks the last outcome.
LEMMA SnapshotIsRead ==
  ASSUME GraphInv, RevisionInv PROVE SnapshotAgrees(journal)
<1>1. CASE Settled
  <2>1. UpToDate /\ ~ IsPending(journal)
    BY <1>1, SettledFacts DEF RevisionInv
  <2> QED
    BY <2>1 DEF UpToDate, SnapshotAgrees
<1>2. CASE ~ Settled
  <2>1. PICK k : Ahead(k) /\ Awaits(journal[k])
    BY <1>2, AheadAwaits
  <2>2. /\ IsPending(journal) <=> journal[k].type \in Outcomes
        /\ journal[k].type \in Outcomes => LastOutcome(journal) = k
    BY <2>1, AheadFacts DEF RevisionInv
  <2>3. CASE journal[k].type \in Outcomes
    <3>1. /\ record.node = journal[k].node
          /\ \A n \in Nodes :
               record.attempts[n] = IF n = journal[k].node THEN Concluded(journal, n) - 1
                                    ELSE Concluded(journal, n)
      BY <2>1, <2>3 DEF Awaits
    <3> QED
      BY <2>2, <2>3, <3>1 DEF SnapshotAgrees
  <2>4. CASE journal[k].type \notin Outcomes
    <3>1. UpToDate
      BY <2>1, <2>4 DEF Awaits
    <3> QED
      BY <2>2, <2>4, <3>1 DEF UpToDate, SnapshotAgrees
  <2> QED
    BY <2>3, <2>4
<1> QED
  BY <1>1, <1>2

\* The three readers accept what is there.
LEMMA ReadersFollow ==
  ASSUME GraphInv, LoopInv, ToolInv, RevisionInv, ReplayInv, ApprovalInv
  PROVE  ReadersAccept
<1>1. Replays(journal)
  BY RevisionsAreRead, SnapshotIsRead DEF Replays, LoopInv, ToolInv
<1>2. LedgerRefusesEvidenceOnly
  BY DEF ReplayInv, Closed, LedgerRefusesEvidenceOnly
<1>3. ApprovalsNeverRefuse
  BY HistoryIs DEF ApprovalsNeverRefuse, ApprovalInv
<1> QED
  BY <1>1, <1>2, <1>3 DEF ReadersAccept, ResumeNeverRefuses

-----------------------------------------------------------------------------
(* Passages of human nodes.                                                *)

Passages == {"NODE_STARTED", "NODE_COMPLETED"}

\* GatesAreApproved at one position of a journal.
GateAt(j, i) ==
  j[i].node \in Humans =>
    /\ \E g \in Of(Before(j, i), {"EXECUTION_APPROVED"}) :
         /\ j[g].subject = [node |-> j[i].node, input |-> Digested(j, j[i].input)]
         /\ \A m \in g .. i : j[m].type # "APPROVAL_REQUESTED"
    /\ j[i].type = "NODE_COMPLETED" => j[i].output = Digested(j, j[i].input)

\* GatesAreApproved is about the journal alone.
LEMMA GatesAre ==
  /\ GatesAreApproved <=> \A i \in Of(journal, Passages) : GateAt(journal, i)
  /\ GatesAreApproved' <=> \A i \in Of(journal', Passages) : GateAt(journal', i)
BY DEF GatesAreApproved, GateAt, Passages, Subject, Digest, Digested

\* What a node was given was there before.
LEMMA InputsAreThere ==
  ASSUME GraphInv, LoopInv, ToolInv
  PROVE  \A i \in Of(journal, Passages) : journal[i].input \in 0 .. Len(journal)
<1>1. IsJournal(journal) /\ Len(journal) \in Nat
  BY DEF GraphInv, TypeInv, JournalIsTyped, IsJournal
<1>2. ASSUME NEW i \in Of(journal, {"NODE_STARTED"})
      PROVE  journal[i].input \in 0 .. Len(journal)
  <2>1. i \in DOMAIN journal
    BY DEF Of
  <2>2. /\ IsJournal(Before(journal, i)) /\ Len(Before(journal, i)) = i - 1
        /\ i \in 1 .. Len(journal)
    BY <1>1, <2>1, BeforeFacts
  <2>3. journal[i].input = LastOutcome(Before(journal, i))
    BY DEF LoopInv, StartsFollow
  <2>4. LastOutcome(Before(journal, i)) \in 0 .. Len(Before(journal, i))
    BY <2>2, SinceGrown
  <2> QED
    BY <1>1, <2>2, <2>3, <2>4
<1>3. ASSUME NEW i \in Of(journal, Outcomes)
      PROVE  journal[i].input \in 0 .. Len(journal)
  <2>1. i \in DOMAIN journal
    BY DEF Of
  <2>2. PICK s \in Since(Before(journal, i), {"NODE_STARTED"}) :
          journal[s].input = journal[i].input
    BY DEF ToolInv, OutcomesFollow
  <2>3. s \in DOMAIN Before(journal, i) /\ Before(journal, i)[s].type = "NODE_STARTED"
    BY <2>2 DEF Since, Of
  <2>4. s \in DOMAIN journal /\ Before(journal, i)[s] = journal[s]
    BY <1>1, <2>1, <2>3, BeforeFacts
  <2>5. s \in Of(journal, {"NODE_STARTED"})
    BY <2>3, <2>4 DEF Of
  <2> QED
    BY <1>2, <2>2, <2>5
<1>4. \A i \in Of(journal, Passages) : i \in Of(journal, {"NODE_STARTED"}) \/ i \in Of(journal, Outcomes)
  BY DEF Of, Passages, Outcomes
<1> QED
  BY <1>2, <1>3, <1>4

\* Positions of a type before i, without the journal that is cut.
LEMMA EarlierOf ==
  ASSUME NEW j, IsJournal(j), NEW i \in DOMAIN j, NEW types
  PROVE  Of(Before(j, i), types) = {m \in 1 .. i - 1 : j[m].type \in types}
<1>1. /\ DOMAIN Before(j, i) = 1 .. i - 1
      /\ \A k \in DOMAIN Before(j, i) : Before(j, i)[k] = j[k]
  BY BeforeFacts
<1> QED
  BY <1>1 DEF Of

\* A passage stays as it is when the journal goes on.
LEMMA GateStays ==
  ASSUME NEW j, IsJournal(j), NEW k, IsJournal(k),
         \A m \in DOMAIN j : m \in DOMAIN k /\ k[m] = j[m],
         NEW i \in DOMAIN j, j[i].input \in 0 .. Len(j), GateAt(j, i)
  PROVE  GateAt(k, i)
<1> DEFINE G == {"EXECUTION_APPROVED"}
<1>1. i \in DOMAIN k /\ k[i] = j[i] /\ i \in Nat /\ i \in 1 .. Len(j)
  BY BeforeFacts
<1>2. Len(j) \in Nat /\ DOMAIN j = 1 .. Len(j)
  BY Grown
<1>3. \A m \in 1 .. i : k[m] = j[m]
  BY <1>1, <1>2
<1>4. Digested(k, j[i].input) = Digested(j, j[i].input)
  BY <1>2 DEF Digested
<1>5. /\ Of(Before(j, i), G) = {m \in 1 .. i - 1 : j[m].type \in G}
      /\ Of(Before(k, i), G) = {m \in 1 .. i - 1 : k[m].type \in G}
  BY <1>1, EarlierOf
<1> SUFFICES ASSUME k[i].node \in Humans
             PROVE  /\ \E g \in Of(Before(k, i), G) :
                         /\ k[g].subject = [node |-> k[i].node, input |-> Digested(k, k[i].input)]
                         /\ \A m \in g .. i : k[m].type # "APPROVAL_REQUESTED"
                    /\ k[i].type = "NODE_COMPLETED" => k[i].output = Digested(k, k[i].input)
  BY DEF GateAt
<1>6. PICK g \in Of(Before(j, i), G) :
         /\ j[g].subject = [node |-> j[i].node, input |-> Digested(j, j[i].input)]
         /\ \A m \in g .. i : j[m].type # "APPROVAL_REQUESTED"
  BY <1>1 DEF GateAt
<1>7. g \in 1 .. i /\ k[g] = j[g] /\ g \in Of(Before(k, i), G)
  BY <1>1, <1>3, <1>5, <1>6
<1>8. \A m \in g .. i : m \in 1 .. i
  BY <1>1, <1>7
<1>9. \A m \in g .. i : k[m].type # "APPROVAL_REQUESTED"
  BY <1>3, <1>6, <1>8
<1>10. k[g].subject = [node |-> k[i].node, input |-> Digested(k, k[i].input)]
  BY <1>1, <1>4, <1>6, <1>7
<1>11. k[i].type = "NODE_COMPLETED" => k[i].output = Digested(k, k[i].input)
  BY <1>1, <1>4 DEF GateAt
<1> QED
  BY <1>7, <1>9, <1>10, <1>11

\* What an event passes that is approved.
LEMMA GateComes ==
  ASSUME NEW j, IsJournal(j), NEW e, e.input \in 0 .. Len(j), e.type # "APPROVAL_REQUESTED",
         e.node \in Humans => Approved(j, e.node, e.input),
         e.node \in Humans /\ e.type = "NODE_COMPLETED" => e.output = Digested(j, e.input)
  PROVE  GateAt(Append(j, e), Len(j) + 1)
<1> DEFINE k == Append(j, e)
           n == Len(j) + 1
           G == {"EXECUTION_APPROVED"}
<1>1. /\ Len(j) \in Nat /\ DOMAIN j = 1 .. Len(j)
      /\ \A i \in DOMAIN j : k[i] = j[i]
      /\ k[n] = e /\ Before(k, n) = j
  BY Grown
<1> HIDE DEF k, n
<1>2. Digested(k, e.input) = Digested(j, e.input)
  BY <1>1 DEF Digested
<1> SUFFICES ASSUME e.node \in Humans
             PROVE  /\ \E g \in Of(j, G) :
                         /\ k[g].subject = [node |-> e.node, input |-> Digested(j, e.input)]
                         /\ \A m \in g .. n : k[m].type # "APPROVAL_REQUESTED"
                    /\ e.type = "NODE_COMPLETED" => e.output = Digested(j, e.input)
  BY <1>1, <1>2 DEF GateAt, k, n
<1>3. PICK g \in Of(j, G) :
         /\ j[g].subject = [node |-> e.node, input |-> Digested(j, e.input)]
         /\ \A m \in Of(j, {"APPROVAL_REQUESTED"}) : m < g
  BY DEF Approved
<1>4. g \in DOMAIN j
  BY DEF Of
<1>5. ASSUME NEW m \in g .. n PROVE k[m].type # "APPROVAL_REQUESTED"
  <2>1. CASE m = n
    BY <1>1, <2>1
  <2>2. CASE m # n
    <3>1. m \in DOMAIN j /\ ~ (m < g) /\ k[m] = j[m]
      BY <1>1, <1>4, <2>2 DEF n
    <3> QED
      BY <1>3, <3>1 DEF Of
  <2> QED
    BY <2>1, <2>2
<1> QED
  BY <1>1, <1>3, <1>4, <1>5

\* The journal goes on, and a step adds the types that it writes.
LEMMA JournalGoesOn ==
  ASSUME GraphInv, Next
  PROVE  /\ IsJournal(journal) /\ IsJournal(journal')
         /\ \A i \in DOMAIN journal : i \in DOMAIN journal' /\ journal'[i] = journal[i]
         /\ \A types : /\ types \cap {"TOOL_CALLED", "BUDGET_RELEASED"} = {}
                       /\ \A e : Writes(e) => e.type \notin types
                       => Of(journal', types) = Of(journal, types)
<1>1. IsJournal(journal)
  BY DEF GraphInv, TypeInv, JournalIsTyped, IsJournal
<1>2. CASE journal' = journal
  BY <1>1, <1>2
<1>3. CASE RecordCallFails
  <2>1. PICK k : /\ k = journal \/ k = Append(journal, ToolEvent("TOOL_CALLED"))
                 /\ IsJournal(k) /\ journal' = Append(k, Released(journal, session.handle))
    BY <1>3, FailWrites
  <2>2. /\ ToolEvent("TOOL_CALLED").type = "TOOL_CALLED"
        /\ Released(journal, session.handle).type = "BUDGET_RELEASED"
    BY DEF ToolEvent, Released
  <2> DEFINE c == ToolEvent("TOOL_CALLED")
             r == Released(journal, session.handle)
  <2> HIDE DEF c, r
  <2>3. \A i \in DOMAIN journal : i \in DOMAIN k /\ k[i] = journal[i]
    <3>1. CASE k = journal
      BY <3>1
    <3>2. CASE k = Append(journal, c)
      BY <1>1, <3>2, Grown
    <3> QED
      BY <2>1, <3>1, <3>2 DEF c
  <2>4. journal' = Append(k, r)
    BY <2>1 DEF r
  <2>5. /\ IsJournal(journal')
        /\ \A i \in DOMAIN k : i \in DOMAIN journal' /\ journal'[i] = k[i]
    BY <2>1, <2>4, Grown
  <2>6. ASSUME NEW types, types \cap {"TOOL_CALLED", "BUDGET_RELEASED"} = {}
        PROVE  Of(journal', types) = Of(journal, types)
    <3>1. c.type \notin types /\ r.type \notin types
      BY <2>2, <2>6 DEF c, r
    <3>2. Of(k, types) = Of(journal, types)
      <4>1. CASE k = journal
        BY <4>1
      <4>2. CASE k = Append(journal, c)
        BY <1>1, <3>1, <4>2, OfGrown
      <4> QED
        BY <2>1, <4>1, <4>2 DEF c
    <3> QED
      BY <2>1, <2>4, <3>1, <3>2, OfGrown
  <2> QED
    BY <1>1, <2>3, <2>5, <2>6
<1>4. CASE \E e : Writes(e)
  <2>1. PICK e : Writes(e)
    BY <1>4
  <2>2. journal' = Append(journal, e)
    BY <2>1 DEF Writes
  <2>3. /\ IsJournal(journal')
        /\ \A i \in DOMAIN journal : i \in DOMAIN journal' /\ journal'[i] = journal[i]
    BY <1>1, <2>2, Grown
  <2>4. \A types : e.type \notin types => Of(journal', types) = Of(journal, types)
    BY <1>1, <2>2, OfGrown
  <2> QED
    BY <1>1, <2>1, <2>3, <2>4
<1> QED
  BY <1>2, <1>3, <1>4, StepWrites

\* A session that is in a visit has left the record alone.
LEMMA InsideIsSteady ==
  ASSUME GraphInv, Next, session'.step \in Inside
  PROVE  Steady
<1>1. session' # Idle /\ session'.step \notin {"idle", "loop", "asked", "denied"}
  BY DEF Inside, Outside, Idle, At
<1>2. ~ Shows
  <2>1. RecoverState => session'.step = "idle"
    BY DEF RecoverState
  <2>2. Resume => session'.step = "loop"
    BY DEF Resume, At
  <2> QED
    BY <1>1, <2>1, <2>2 DEF Shows
<1>3. ASSUME NEW e, Posts(e) PROVE FALSE
  <2>1. CASE FinishNode
    <3>1. faults \in Nat
      BY DEF GraphInv, TypeInv
    <3>2. session' = Idle \/ session'.step = "loop"
      BY <2>1, FinishFacts DEF At
    <3> QED
      BY <1>1, <3>2
  <2>2. CASE Asks(e)
    <3>1. session' = Idle \/ session'.step = "asked"
      BY <2>2 DEF Asks, Crashes, GraphInv, TypeInv, Session
    <3> QED
      BY <1>1, <3>1
  <2>3. CASE Grants(e) \/ Moves(e)
    <3>1. session' = Idle \/ session' = At("loop", 0, None)
      BY <2>3 DEF Grants, Moves
    <3> QED
      BY <1>1, <3>1 DEF At
  <2> QED
    BY <1>3, <2>1, <2>2, <2>3 DEF Posts
<1> QED
  BY <1>2, <1>3, StepRevises

\* A session goes into a human node on a grant that the record shows.
LEMMA EntersGranted ==
  ASSUME GraphInv, LoopInv, RevisionInv, ApprovalInv, session.step = "loop", Node \in Humans,
         Granted
  PROVE  record.approval = "APPROVED" /\ Approved(journal, Node, session.payload)
<1> DEFINE G == {"EXECUTION_APPROVED"}
           R == {"APPROVAL_REQUESTED"}
<1>1. /\ record.approval = "APPROVED"
      /\ LatestOf({"EXECUTION_APPROVED"}).subject = Subject(Node, session.payload)
  BY DEF Granted, Approvals
<1>2. session.payload = LastOutcome(journal)
  BY DEF LoopInv
<1>3. Settled
  <2> SUFFICES ASSUME ~ Settled PROVE FALSE
    OBVIOUS
  <2>1. PICK k : Ahead(k) /\ Awaits(journal[k]) /\ journal[k].type \in Mutations
    BY AheadAwaits
  <2>2. journal[k].type \notin Outcomes /\ journal[k].type # "STATE_TRANSITIONED"
        /\ journal[k].type # "EXECUTION_APPROVED"
    BY <2>1 DEF Awaits
  <2>3. journal[k].type = "APPROVAL_REQUESTED"
    BY <2>1, <2>2 DEF Mutations, Approvals
  <2>4. /\ journal[k].subject = Subject(Node, LastOutcome(journal))
        /\ LatestOf({"EXECUTION_APPROVED"}).subject # journal[k].subject
    BY <1>1, <2>1, <2>3 DEF Awaits
  <2> QED
    BY <1>1, <1>2, <2>4
<1>4. PendingApproval = {} /\ ApprovalIsShown
  BY <1>3, SettledFacts DEF RevisionInv, ApprovalInv
<1>5. PICK g \in Of(journal, G) : /\ g = Max(Of(journal, G))
                                 /\ \A i \in Of(journal, Approvals) : i <= g
  BY <1>1, <1>4, LastIsGrant
<1>6. journal[g].subject = [node |-> Node, input |-> Digested(journal, session.payload)]
  BY <1>1, <1>5 DEF LatestOf, Subject, Digest, Digested
<1>7. ASSUME NEW m \in Of(journal, R) PROVE m < g
  <2>1. m \in Of(journal, Approvals) /\ journal[m].type # journal[g].type
    BY <1>5 DEF Of, Approvals
  <2>2. m \in Nat /\ g \in Nat
    BY <1>5 DEF Of, GraphInv, TypeInv, JournalIsTyped
  <2> QED
    BY <1>5, <2>1, <2>2
<1> QED
  BY <1>1, <1>6, <1>7 DEF Approved

\* An approval stays as long as nothing else is asked for.
LEMMA ApprovedStays ==
  ASSUME NEW j, IsJournal(j), NEW k, \A i \in DOMAIN j : i \in DOMAIN k /\ k[i] = j[i],
         Of(k, {"APPROVAL_REQUESTED"}) = Of(j, {"APPROVAL_REQUESTED"}),
         NEW node, NEW p \in 0 .. Len(j), Approved(j, node, p)
  PROVE  Approved(k, node, p)
<1>1. Len(j) \in Nat /\ DOMAIN j = 1 .. Len(j)
  BY Grown
<1>2. Digested(k, p) = Digested(j, p)
  BY <1>1 DEF Digested
<1>3. PICK g \in Of(j, {"EXECUTION_APPROVED"}) :
        /\ j[g].subject = [node |-> node, input |-> Digested(j, p)]
        /\ \A m \in Of(j, {"APPROVAL_REQUESTED"}) : m < g
  BY DEF Approved
<1>4. g \in Of(k, {"EXECUTION_APPROVED"}) /\ k[g] = j[g]
  BY <1>3 DEF Of
<1> QED
  BY <1>2, <1>3, <1>4 DEF Approved

\* Human nodes are passed on grants.
LEMMA GateKeeps ==
  ASSUME GraphInv, LoopInv, ToolInv, RevisionInv, ApprovalInv, GateInv, Next
  PROVE  GateInv'
<1>1. /\ IsJournal(journal) /\ IsJournal(journal')
      /\ \A i \in DOMAIN journal : i \in DOMAIN journal' /\ journal'[i] = journal[i]
  BY JournalGoesOn
<1>2. LastOutcome(journal) \in 0 .. Len(journal) /\ Len(journal) \in Nat
  BY <1>1, SinceGrown, Grown
<1>3. ASSUME NEW i \in Of(journal, Passages) PROVE GateAt(journal', i)
  <2>1. i \in DOMAIN journal /\ journal[i].input \in 0 .. Len(journal)
    BY InputsAreThere DEF Of
  <2>2. GateAt(journal, i)
    BY GatesAre DEF GateInv
  <2> QED
    BY <1>1, <2>1, <2>2, GateStays
<1>4. session.step # "idle" => session.payload \in 0 .. Len(journal)
  BY <1>2 DEF LoopInv
<1>5. StartNode => session.step = "loop" /\ (Node \in Humans => Granted)
  BY DEF StartNode, Visiting, InLoop, MayEnter
<1>6. GatesAreApproved'
  <2>1. CASE StartNode
    <3>1. PICK e : /\ journal' = Append(journal, e) /\ e.type = "NODE_STARTED"
                   /\ e.node = Node /\ e.input = session.payload
      BY <2>1, StartFacts
    <3>2. Node \in Humans => Approved(journal, Node, session.payload)
      BY <1>5, <2>1, EntersGranted
    <3>3. GateAt(journal', Len(journal) + 1)
      BY <1>1, <1>4, <1>5, <2>1, <3>1, <3>2, GateComes
    <3>4. \A i \in Of(journal', Passages) : i \in Of(journal, Passages) \/ i = Len(journal) + 1
      BY <1>1, <3>1, NewPosition
    <3> QED
      BY <1>3, <3>3, <3>4, GatesAre
  <2>2. CASE FinishNode
    <3>1. PICK e : journal' = Append(journal, e) /\ EndOfVisit(e)
      BY <2>2, FinishFacts
    <3>2. session.step = "result" /\ session.step \in Inside
      BY <2>2, FinishFacts
    <3>3. /\ e.type \in Outcomes /\ e.node = Node /\ e.input = session.payload
          /\ e.output \in Answers
      BY <3>1 DEF EndOfVisit
    <3>4. Node \in Humans => Approved(journal, Node, session.payload)
      BY <3>2 DEF GateInv
    <3>5. Node \in Humans => e.output = Digested(journal, session.payload)
      BY <3>3 DEF Answers, Digest, Digested
    <3>6. e.type # "APPROVAL_REQUESTED" /\ e.input \in 0 .. Len(journal)
      BY <1>4, <3>2, <3>3 DEF Outcomes
    <3>7. GateAt(journal', Len(journal) + 1)
      BY <1>1, <3>1, <3>3, <3>4, <3>5, <3>6, GateComes
    <3>8. \A i \in Of(journal', Passages) : i \in Of(journal, Passages) \/ i = Len(journal) + 1
      BY <1>1, <3>1, NewPosition
    <3> QED
      BY <1>3, <3>7, <3>8, GatesAre
  <2>3. CASE ~ StartNode /\ ~ FinishNode
    <3>1. \A e : Writes(e) => e.type \notin Passages
      BY <2>3 DEF Writes, Passages, Outcomes, ToolEnds
    <3>2. Passages \cap {"TOOL_CALLED", "BUDGET_RELEASED"} = {}
      BY DEF Passages
    <3>3. Of(journal', Passages) = Of(journal, Passages)
      BY <3>1, <3>2, JournalGoesOn
    <3> QED
      BY <1>3, <3>3, GatesAre
  <2> QED
    BY <2>1, <2>2, <2>3
<1>7. ASSUME session'.step \in Inside, Node' \in Humans
      PROVE  record'.approval = "APPROVED" /\ Approved(journal, Node, session.payload)'
  <2> DEFINE R == {"APPROVAL_REQUESTED"}
  <2>1. Steady
    BY <1>7, InsideIsSteady
  <2>2. record' = record /\ Node' = Node /\ MovesAgree(journal, journal')
    BY <2>1 DEF Steady, Node, MovesAgree
  <2>3. R \in SUBSET Mutations
    BY DEF Mutations, Approvals
  <2> HIDE DEF R
  <2>4. Of(journal', R) = Of(journal, R)
    BY <1>1, <2>2, <2>3, WalkAgrees
  <2>5. /\ session.step # "idle" /\ session'.payload = session.payload
        /\ record.approval = "APPROVED" /\ Approved(journal, Node, session.payload)
    <3>1. CASE StartNode
      BY <1>5, <1>7, <2>2, <3>1, StartFacts, EntersGranted
    <3>2. CASE ~ StartNode
      <4>1. session'.step \notin {"idle", "loop"}
        BY <1>7 DEF Inside, Outside
      <4>2. ~ Begins /\ ~ FinishNode
        <5>1. FinishNode => session' = Idle \/ session'.step = "loop"
          BY FinishFacts DEF At
        <5> QED
          BY <4>1, <5>1 DEF Begins, At, Idle
      <4>3. GoesOn
        BY <3>2, <4>1, <4>2, SessionMoves
      <4>4. session.step \in Inside /\ session'.payload = session.payload
            /\ session.step # "idle"
        BY <1>7, <4>3 DEF GoesOn
      <4> QED
        BY <1>7, <2>2, <4>4 DEF GateInv
    <3> QED
      BY <3>1, <3>2
  <2>6. PICK n, p : n = Node /\ p = session.payload
    OBVIOUS
  <2>7. Approved(journal', n, p)
    BY <1>1, <1>4, <2>4, <2>5, <2>6, ApprovedStays DEF R
  <2>8. Approved(journal', Node', session'.payload)
    BY <2>2, <2>5, <2>6, <2>7
  <2> QED
    BY <2>2, <2>5, <2>8
<1> QED
  BY <1>6, <1>7 DEF GateInv

-----------------------------------------------------------------------------
(* Retries.                                                                *)

\* RetriesHaveReason at one position of a journal.
RetryAt(j, i) ==
  j[i].attempt > 1 =>
    \E k \in Of(Before(j, i), {"NODE_FAILED"}) :
      /\ j[k].result = "retryable"
      /\ j[k].node = j[i].context.origin
      /\ \A m \in k .. i : ~ (j[m].type = "NODE_COMPLETED" /\ j[m].node = j[k].node)

\* RetriesHaveReason is about the journal alone.
LEMMA RetriesAre ==
  /\ RetriesHaveReason <=> \A i \in Of(journal, {"NODE_STARTED"}) : RetryAt(journal, i)
  /\ RetriesHaveReason' <=> \A i \in Of(journal', {"NODE_STARTED"}) : RetryAt(journal', i)
BY DEF RetriesHaveReason, RetryAt

\* A failure that was not made good.
OpenFailure(j, node) ==
  \E k \in Of(j, {"NODE_FAILED"}) :
    /\ j[k].result = "retryable" /\ j[k].node = node
    /\ \A m \in DOMAIN j : m >= k => ~ (j[m].type = "NODE_COMPLETED" /\ j[m].node = j[k].node)

\* A reason stays when the journal goes on.
LEMMA RetryStays ==
  ASSUME NEW j, IsJournal(j), NEW k, IsJournal(k),
         \A m \in DOMAIN j : m \in DOMAIN k /\ k[m] = j[m],
         NEW i \in DOMAIN j, RetryAt(j, i)
  PROVE  RetryAt(k, i)
<1> DEFINE F == {"NODE_FAILED"}
<1>1. i \in DOMAIN k /\ k[i] = j[i] /\ i \in Nat /\ i \in 1 .. Len(j)
  BY BeforeFacts
<1>2. Len(j) \in Nat /\ DOMAIN j = 1 .. Len(j)
  BY Grown
<1>3. \A m \in 1 .. i : k[m] = j[m]
  BY <1>1, <1>2
<1>4. /\ Of(Before(j, i), F) = {m \in 1 .. i - 1 : j[m].type \in F}
      /\ Of(Before(k, i), F) = {m \in 1 .. i - 1 : k[m].type \in F}
  BY <1>1, EarlierOf
<1> SUFFICES ASSUME k[i].attempt > 1
             PROVE  \E f \in Of(Before(k, i), F) :
                      /\ k[f].result = "retryable" /\ k[f].node = k[i].context.origin
                      /\ \A m \in f .. i :
                           ~ (k[m].type = "NODE_COMPLETED" /\ k[m].node = k[f].node)
  BY DEF RetryAt
<1>5. PICK f \in Of(Before(j, i), F) :
        /\ j[f].result = "retryable" /\ j[f].node = j[i].context.origin
        /\ \A m \in f .. i : ~ (j[m].type = "NODE_COMPLETED" /\ j[m].node = j[f].node)
  BY <1>1 DEF RetryAt
<1>6. f \in 1 .. i /\ k[f] = j[f] /\ f \in Of(Before(k, i), F)
  BY <1>1, <1>3, <1>4, <1>5
<1>7. \A m \in f .. i : m \in 1 .. i
  BY <1>1, <1>6
<1>8. \A m \in f .. i : ~ (k[m].type = "NODE_COMPLETED" /\ k[m].node = k[f].node)
  BY <1>3, <1>5, <1>6, <1>7
<1> QED
  BY <1>1, <1>5, <1>6, <1>8

\* A failure stays open as long as its node does not complete.
LEMMA FailureStays ==
  ASSUME NEW j, IsJournal(j), NEW k, IsJournal(k),
         \A m \in DOMAIN j : m \in DOMAIN k /\ k[m] = j[m],
         NEW node,
         \A m \in Of(k, {"NODE_COMPLETED"}) : m \in Of(j, {"NODE_COMPLETED"}) \/ k[m].node # node,
         OpenFailure(j, node)
  PROVE  OpenFailure(k, node)
<1>1. PICK f \in Of(j, {"NODE_FAILED"}) :
        /\ j[f].result = "retryable" /\ j[f].node = node
        /\ \A m \in DOMAIN j :
             m >= f => ~ (j[m].type = "NODE_COMPLETED" /\ j[m].node = j[f].node)
  BY DEF OpenFailure
<1>2. f \in Of(k, {"NODE_FAILED"}) /\ k[f] = j[f]
  BY <1>1 DEF Of
<1>3. ASSUME NEW m \in DOMAIN k, m >= f, k[m].type = "NODE_COMPLETED", k[m].node = node
      PROVE  FALSE
  <2>1. m \in Of(j, {"NODE_COMPLETED"})
    BY <1>3 DEF Of
  <2>2. m \in DOMAIN j /\ j[m].type = "NODE_COMPLETED" /\ k[m] = j[m]
    BY <2>1 DEF Of
  <2> QED
    BY <1>1, <1>3, <2>2
<1> QED
  BY <1>1, <1>2, <1>3 DEF OpenFailure

\* A start with a context has a reason.
LEMMA RetryComes ==
  ASSUME NEW j, IsJournal(j), NEW e, e.type = "NODE_STARTED",
         e.attempt > 1 => OpenFailure(j, e.context.origin)
  PROVE  RetryAt(Append(j, e), Len(j) + 1)
<1> DEFINE k == Append(j, e)
           n == Len(j) + 1
<1>1. /\ Len(j) \in Nat /\ DOMAIN j = 1 .. Len(j)
      /\ \A i \in DOMAIN j : k[i] = j[i]
      /\ k[n] = e /\ Before(k, n) = j
  BY Grown
<1> HIDE DEF k, n
<1> SUFFICES ASSUME e.attempt > 1
             PROVE  \E f \in Of(j, {"NODE_FAILED"}) :
                      /\ k[f].result = "retryable" /\ k[f].node = e.context.origin
                      /\ \A m \in f .. n :
                           ~ (k[m].type = "NODE_COMPLETED" /\ k[m].node = k[f].node)
  BY <1>1 DEF RetryAt, k, n
<1>2. PICK f \in Of(j, {"NODE_FAILED"}) :
        /\ j[f].result = "retryable" /\ j[f].node = e.context.origin
        /\ \A m \in DOMAIN j :
             m >= f => ~ (j[m].type = "NODE_COMPLETED" /\ j[m].node = j[f].node)
  BY DEF OpenFailure
<1>3. f \in DOMAIN j
  BY DEF Of
<1>4. ASSUME NEW m \in f .. n PROVE ~ (k[m].type = "NODE_COMPLETED" /\ k[m].node = k[f].node)
  <2>1. CASE m = n
    BY <1>1, <2>1
  <2>2. CASE m # n
    <3>1. m \in DOMAIN j /\ m >= f
      BY <1>1, <1>3, <2>2 DEF n
    <3> QED
      BY <1>1, <1>2, <1>3, <3>1
  <2> QED
    BY <2>1, <2>2
<1> QED
  BY <1>1, <1>2, <1>3, <1>4

\* A context keeps the origin of the episode, or is made for the failure of its node.
LEMMA ContextHasOrigin ==
  ASSUME NEW attempts, NEW node, NEW attempt, NEW next, NEW result, NEW context \in Contexts,
         NextContext(attempts, node, attempt, next, result, context) # None
  PROVE  LET c == NextContext(attempts, node, attempt, next, result, context)
         IN  \/ result = "retryable" /\ c.origin = node
             \/ result = "completed" /\ context # None /\ context.origin # node
                  /\ c.origin = context.origin
<1>1. CASE result = "retryable" /\ next \in Nodes
  <2>1. NextContext(attempts, node, attempt, next, result, context) =
          [origin |-> node, attempt |-> NextAttempt(attempts, node, attempt, next)]
    BY <1>1 DEF NextContext
  <2> QED
    BY <1>1, <2>1
<1>2. CASE /\ result = "completed" /\ context # None /\ context.origin # node
           /\ next \in Nodes
  <2>1. NextContext(attempts, node, attempt, next, result, context) =
          [context EXCEPT !.attempt = NextAttempt(attempts, node, attempt, next)]
    BY <1>2 DEF NextContext
  <2>2. NextContext(attempts, node, attempt, next, result, context).origin = context.origin
    BY <2>1 DEF Contexts
  <2> QED
    BY <1>2, <2>2
<1>3. CASE /\ ~ (result = "retryable" /\ next \in Nodes)
           /\ ~ (/\ result = "completed" /\ context # None /\ context.origin # node
                 /\ next \in Nodes)
  <2>1. NextContext(attempts, node, attempt, next, result, context) = None
    BY <1>3 DEF NextContext
  <2> QED
    BY <2>1
<1> QED
  BY <1>1, <1>2, <1>3

\* What RetryInv says of the context that is expected.
LEMMA RetryIs ==
  /\ RetryInv =>
       (ExpectedContext(journal) # None =>
          OpenFailure(journal, ExpectedContext(journal).origin))
  /\ (ExpectedContext(journal') # None =>
        OpenFailure(journal', ExpectedContext(journal').origin))
     /\ RetriesHaveReason'
     /\ (\A n \in Nodes : MaxIterations[n] > 0 => VisitsIn(journal', n) <= MaxIterations[n])
     => RetryInv'
BY DEF RetryInv, OpenFailure

\* Nodes are visited again with a reason, and as often as their policies say.
LEMMA RetryKeeps ==
  ASSUME GraphInv, LoopInv, RetryInv, Next
  PROVE  RetryInv'
<1>1. /\ IsJournal(journal) /\ IsJournal(journal')
      /\ \A i \in DOMAIN journal : i \in DOMAIN journal' /\ journal'[i] = journal[i]
  BY JournalGoesOn
<1>2. ASSUME NEW i \in Of(journal, {"NODE_STARTED"}) PROVE RetryAt(journal', i)
  <2>1. i \in DOMAIN journal /\ RetryAt(journal, i)
    BY RetriesAre DEF RetryInv, Of
  <2> QED
    BY <1>1, <2>1, RetryStays
<1>3. ASSUME NEW n \in Nodes, MaxIterations[n] > 0 PROVE VisitsIn(journal, n) <= MaxIterations[n]
  BY <1>3 DEF RetryInv
<1>4. CASE StartNode
  <2>1. PICK e : /\ journal' = Append(journal, e) /\ e.type = "NODE_STARTED" /\ e.node = Node
                 /\ e.attempt = Attempt /\ e.context = session.context
    BY <1>4, StartFacts
  <2>2. /\ session.step = "loop" /\ ~ OpenStart(journal) /\ Node \in Nodes
        /\ Attempt = Concluded(journal, Node) + 1 /\ Attempt \in Nat
    BY <1>4, StartFacts
  <2>3. session.context = ExpectedContext(journal)
    BY <2>2 DEF LoopInv
  <2>4. MayVisit /\ ~ Exhausted
    BY <1>4 DEF StartNode, Visiting
  <2>5. record.attempts[Node] \in Nat /\ Attempt = record.attempts[Node] + 1
    BY <2>2 DEF GraphInv, TypeInv, Record, Attempt
  <2>6. e.attempt > 1 => OpenFailure(journal, e.context.origin)
    <3> SUFFICES ASSUME e.attempt > 1 PROVE OpenFailure(journal, e.context.origin)
      OBVIOUS
    <3>1. record.attempts[Node] > 0
      BY <2>1, <2>5
    <3>2. session.context # None
      BY <2>4, <3>1 DEF MayVisit, Retrying
    <3> QED
      BY <2>1, <2>3, <3>2, RetryIs
  <2>7. RetryAt(journal', Len(journal) + 1)
    BY <1>1, <2>1, <2>6, RetryComes
  <2>8. \A i \in Of(journal', {"NODE_STARTED"}) :
          i \in Of(journal, {"NODE_STARTED"}) \/ i = Len(journal) + 1
    BY <1>1, <2>1, NewPosition
  <2>9. RetriesHaveReason'
    BY <1>2, <2>7, <2>8, RetriesAre
  <2>10. e.type \notin Outcomes
    BY <2>1 DEF Outcomes
  <2>11. ExpectedContext(journal') = ExpectedContext(journal)
    BY <1>1, <2>1, <2>10, WalkStays
  <2>12. Of(journal', {"NODE_COMPLETED"}) = Of(journal, {"NODE_COMPLETED"})
    <3> DEFINE C == {"NODE_COMPLETED"}
    <3>1. e.type \notin C
      BY <2>1
    <3> HIDE DEF C
    <3>2. Of(journal', C) = Of(journal, C)
      BY <1>1, <2>1, <3>1, OfGrown
    <3> QED
      BY <3>2 DEF C
  <2>13. ASSUME ExpectedContext(journal') # None
         PROVE  OpenFailure(journal', ExpectedContext(journal').origin)
    <3>1. OpenFailure(journal, ExpectedContext(journal).origin)
      BY <2>11, <2>13, RetryIs
    <3>2. PICK o : o = ExpectedContext(journal).origin
      OBVIOUS
    <3>3. OpenFailure(journal', o)
      BY <1>1, <2>12, <3>1, <3>2, FailureStays
    <3> QED
      BY <2>11, <3>2, <3>3
  <2>14. ASSUME NEW n \in Nodes, MaxIterations[n] > 0
         PROVE  VisitsIn(journal', n) <= MaxIterations[n]
    <3>1. PICK S : journal \in Seq(S) /\ e \in S
      BY <1>1, Grown
    <3>2. /\ VisitsIn(journal, n) \in Nat
          /\ VisitsIn(journal', n) = IF e.node = n THEN VisitsIn(journal, n) + 1
                                     ELSE VisitsIn(journal, n)
      BY <2>1, <3>1, CountGrows, CountsArePicked
    <3>3. CASE n # Node
      BY <1>3, <2>1, <2>14, <3>2, <3>3
    <3>4. CASE n = Node
      <4>1. VisitsIn(journal, n) = Concluded(journal, n)
        BY <2>2 DEF GraphInv, WalkInv
      <4>2. VisitsIn(journal', n) = Attempt
        BY <2>1, <2>2, <3>2, <3>4, <4>1
      <4>3. Policy = MaxIterations[n] /\ Policy \in Nat /\ Policy > 0
        BY <2>14, <3>4, GraphIsCompiled DEF Policy
      <4>4. Attempt <= Policy
        <5>1. CASE session.context # None
          BY <2>2, <2>4, <4>3, <5>1 DEF Exhausted, Retrying
        <5>2. CASE session.context = None
          <6>1. ~ (record.attempts[Node] > 0)
            BY <2>4, <5>2 DEF MayVisit, Retrying
          <6> QED
            BY <2>5, <4>3, <6>1
        <5> QED
          BY <5>1, <5>2
      <4> QED
        BY <4>2, <4>3, <4>4
    <3> QED
      BY <3>3, <3>4
  <2> QED
    BY <2>9, <2>13, <2>14, RetryIs
<1>5. CASE FinishNode
  <2>1. PICK e : journal' = Append(journal, e) /\ EndOfVisit(e)
    BY <1>5, FinishFacts
  <2>2. session.step = "result" /\ session.step # "idle" /\ session.context \in Contexts
    BY <1>5, FinishFacts DEF GraphInv, TypeInv, Session
  <2>3. session.context = ExpectedContext(journal)
    BY <2>2 DEF LoopInv
  <2>4. /\ e.type \in Outcomes /\ e.node = Node /\ e.result = session.result
        /\ e.type = IF session.result = "completed" THEN "NODE_COMPLETED" ELSE "NODE_FAILED"
        /\ e.context = NextContext(record.attempts, Node, Attempt, e.next, session.result,
                                   session.context)
    BY <2>1 DEF EndOfVisit
  <2>5. PICK S : journal \in Seq(S) /\ e \in S
    BY <1>1, Grown
  <2>6. ExpectedContext(journal') = e.context
    BY <2>1, <2>4, <2>5, WalkGrows
  <2>7. RetriesHaveReason'
    <3> DEFINE T == {"NODE_STARTED"}
    <3>1. e.type \notin T
      BY <2>4 DEF Outcomes
    <3> HIDE DEF T
    <3>2. Of(journal', T) = Of(journal, T)
      BY <1>1, <2>1, <3>1, OfGrown
    <3> QED
      BY <1>2, <3>2, RetriesAre DEF T
  <2>8. ASSUME NEW n \in Nodes, MaxIterations[n] > 0
        PROVE  VisitsIn(journal', n) <= MaxIterations[n]
    <3>1. e.type \notin {"NODE_STARTED"}
      BY <2>4 DEF Outcomes
    <3>2. VisitsIn(journal', n) = VisitsIn(journal, n)
      BY <2>1, <2>5, <3>1, CountGrows, CountsArePicked
    <3> QED
      BY <1>3, <2>8, <3>2
  <2>9. /\ Len(journal) + 1 \in DOMAIN journal' /\ journal'[Len(journal) + 1] = e
        /\ DOMAIN journal' = 1 .. Len(journal) + 1 /\ Len(journal) \in Nat
    BY <1>1, <2>1, Grown
  <2>10. ASSUME ExpectedContext(journal') # None
         PROVE  OpenFailure(journal', ExpectedContext(journal').origin)
    <3>1. \/ session.result = "retryable" /\ e.context.origin = Node
          \/ session.result = "completed" /\ session.context # None
               /\ session.context.origin # Node /\ e.context.origin = session.context.origin
      BY <2>2, <2>4, <2>6, <2>10, ContextHasOrigin
    <3>2. CASE session.result = "retryable" /\ e.context.origin = Node
      <4>1. e.type = "NODE_FAILED" /\ e.result = "retryable"
        BY <2>4, <3>2
      <4>2. PICK f : f = Len(journal) + 1
        OBVIOUS
      <4>3. f \in Of(journal', {"NODE_FAILED"}) /\ journal'[f] = e
        BY <2>9, <4>1, <4>2 DEF Of
      <4>4. \A m \in DOMAIN journal' : m >= f => m = f
        BY <2>9, <4>2
      <4>5. OpenFailure(journal', Node)
        BY <2>4, <4>1, <4>3, <4>4 DEF OpenFailure
      <4> QED
        BY <2>6, <3>2, <4>5
    <3>3. CASE session.result = "completed" /\ session.context # None
               /\ session.context.origin # Node /\ e.context.origin = session.context.origin
      <4>1. PICK o : o = session.context.origin
        OBVIOUS
      <4>2. OpenFailure(journal, o)
        BY <2>3, <3>3, <4>1, RetryIs
      <4>3. \A m \in Of(journal', {"NODE_COMPLETED"}) :
              m \in Of(journal, {"NODE_COMPLETED"}) \/ journal'[m].node # o
        BY <1>1, <2>1, <2>4, <3>3, <4>1, NewPosition
      <4>4. OpenFailure(journal', o)
        BY <1>1, <4>2, <4>3, FailureStays
      <4> QED
        BY <2>6, <3>3, <4>1, <4>4
    <3> QED
      BY <3>1, <3>2, <3>3
  <2> QED
    BY <2>7, <2>8, <2>10, RetryIs
<1>6. CASE ~ StartNode /\ ~ FinishNode
  <2> DEFINE T == {"NODE_STARTED"}
             C == {"NODE_COMPLETED"}
  <2>1. \A e : Writes(e) => e.type \notin NodeEvents
    BY <1>6 DEF Writes, NodeEvents, Outcomes, ToolEnds
  <2>2. NodeEvents \cap {"TOOL_CALLED", "BUDGET_RELEASED"} = {}
    BY DEF NodeEvents, Outcomes
  <2>3. Of(journal', NodeEvents) = Of(journal, NodeEvents)
    BY <2>1, <2>2, JournalGoesOn
  <2>4. ASSUME NEW types \in SUBSET NodeEvents PROVE Of(journal', types) = Of(journal, types)
    <3>1. /\ Of(journal', types) = {i \in Of(journal', NodeEvents) : journal'[i].type \in types}
          /\ Of(journal, types) = {i \in Of(journal, NodeEvents) : journal[i].type \in types}
      BY DEF Of
    <3>2. \A i \in Of(journal, NodeEvents) : journal'[i] = journal[i]
      BY <1>1 DEF Of
    <3> QED
      BY <2>3, <3>1, <3>2
  <2>5. T \in SUBSET NodeEvents /\ C \in SUBSET NodeEvents /\ Outcomes \in SUBSET NodeEvents
    BY DEF NodeEvents, Outcomes
  <2> HIDE DEF T, C
  <2>6. /\ Of(journal', T) = Of(journal, T) /\ Of(journal', C) = Of(journal, C)
        /\ Of(journal', Outcomes) = Of(journal, Outcomes)
    BY <2>4, <2>5
  <2>7. RetriesHaveReason'
    BY <1>2, <2>6, RetriesAre DEF T
  <2>8. \A n : VisitsIn(journal', n) = VisitsIn(journal, n)
    <3>1. \A i \in Of(journal, T) : journal'[i] = journal[i]
      BY <1>1 DEF Of
    <3>2. \A n : {i \in Of(journal', T) : journal'[i].node = n} =
                   {i \in Of(journal, T) : journal[i].node = n}
      BY <2>6, <3>1
    <3> QED
      BY <3>2 DEF VisitsIn, T
  <2>9. ExpectedContext(journal') = ExpectedContext(journal)
    <3>1. LastOutcome(journal') = LastOutcome(journal)
      BY <2>6 DEF LastOutcome
    <3>2. LastOutcome(journal) = 0 \/ LastOutcome(journal) \in Of(journal, Outcomes)
      BY <1>1, LastOutcomeIs DEF IsJournal
    <3>3. LastOutcome(journal) # 0 => journal'[LastOutcome(journal)] = journal[LastOutcome(journal)]
      BY <1>1, <3>2 DEF Of
    <3> QED
      BY <3>1, <3>3 DEF ExpectedContext
  <2>10. ASSUME ExpectedContext(journal') # None
         PROVE  OpenFailure(journal', ExpectedContext(journal').origin)
    <3>1. OpenFailure(journal, ExpectedContext(journal).origin)
      BY <2>9, <2>10, RetryIs
    <3>2. PICK o : o = ExpectedContext(journal).origin
      OBVIOUS
    <3>3. OpenFailure(journal', o)
      BY <1>1, <2>6, <3>1, <3>2, FailureStays DEF C
    <3> QED
      BY <2>9, <3>2, <3>3
  <2> QED
    BY <1>3, <2>7, <2>8, <2>10, RetryIs
<1> QED
  BY <1>4, <1>5, <1>6

-----------------------------------------------------------------------------
(* The end of a traversal.                                                 *)

\* What Earned says of a state, a node where the record stands, and a journal.
EarnedAt(j, node, state) ==
  /\ state \in {"VERIFYING", "FAILED"} =>
       /\ Of(j, BudgetEvents) # {} => ~ IsExceeded(j)
       /\ ~ OpenStart(j)
       /\ ExpectedNode(j) \in Terminals
       /\ Outcome[ExpectedNode(j)] = "success" <=> state = "VERIFYING"
  /\ state = "FAILED_BUDGET_EXCEEDED" => IsExceeded(j)
  /\ state = "FAILED_RETRY_EXHAUSTED" =>
       /\ ExpectedContext(j) # None
       /\ Concluded(j, node) = MaxIterations[node]

\* EndInv, by journal, node and state.
LEMMA EndIs ==
  /\ EndInv => /\ EndedWithin(journal)
               /\ EarnedAt(journal, record.node, record.state)
               /\ \A i \in PendingTransition : EarnedAt(journal, record.node, journal[i].to)
               /\ session.step = "denied" => IsExceeded(journal)
  /\ /\ EndedWithin(journal')
     /\ EarnedAt(journal', record'.node, record'.state)
     /\ \A i \in PendingTransition' : EarnedAt(journal', record'.node, journal'[i].to)
     /\ session'.step = "denied" => IsExceeded(journal')
     => EndInv'
<1>1. \A state : Earned(state) <=> EarnedAt(journal, record.node, state)
  BY DEF Earned, EarnedAt
<1>2. Earned(record.state)' <=> EarnedAt(journal', record'.node, record'.state)
  BY DEF Earned, EarnedAt
<1>3. (\A i \in PendingTransition : Earned(journal[i].to))' <=>
        \A i \in PendingTransition' : EarnedAt(journal', record'.node, journal'[i].to)
  BY DEF Earned, EarnedAt
<1>4. EndedWithin(journal)' <=> EndedWithin(journal')
  BY DEF EndedWithin
<1> QED
  BY <1>1, <1>2, <1>3, <1>4 DEF EndInv

\* An outcome is written when the budget is not exceeded, and other events leave it the last.
LEMMA EndedStays ==
  ASSUME GraphInv, EndInv, Next PROVE EndedWithin(journal')
<1>1. /\ IsJournal(journal) /\ IsJournal(journal')
      /\ \A i \in DOMAIN journal : i \in DOMAIN journal' /\ journal'[i] = journal[i]
  BY JournalGoesOn
<1>2. CASE FinishNode
  <2>1. PICK e : journal' = Append(journal, e) /\ e.type \in Outcomes
    BY <1>2, FinishFacts DEF EndOfVisit
  <2>2. PICK S : journal \in Seq(S) /\ e \in S
    BY <1>1, Grown
  <2>3. LastOutcome(journal') = Len(journal) + 1
    BY <2>1, <2>2, WalkGrows
  <2>4. Before(journal', Len(journal) + 1) = journal
    BY <1>1, <2>1, Grown
  <2> QED
    BY <1>2, <2>3, <2>4, FinishFacts DEF EndedWithin
<1>3. CASE ~ FinishNode
  <2>1. \A e : Writes(e) => e.type \notin Outcomes
    BY <1>3 DEF Writes, Outcomes, ToolEnds
  <2>2. Outcomes \cap {"TOOL_CALLED", "BUDGET_RELEASED"} = {}
    BY DEF Outcomes
  <2>3. Of(journal', Outcomes) = Of(journal, Outcomes)
    BY <2>1, <2>2, JournalGoesOn
  <2>4. LastOutcome(journal') = LastOutcome(journal)
    BY <2>3 DEF LastOutcome
  <2>5. Before(journal', LastOutcome(journal)) = Before(journal, LastOutcome(journal))
    <3>1. PICK S : journal \in Seq(S)
      BY <1>1 DEF IsJournal
    <3>2. PICK T : journal' \in Seq(T)
      BY <1>1 DEF IsJournal
    <3>3. journal \in Seq(S \cup T) /\ journal' \in Seq(S \cup T)
      BY <3>1, <3>2
    <3>4. CASE LastOutcome(journal) = 0
      <4>1. Before(journal', 0) = << >> /\ Before(journal, 0) = << >>
        BY <3>3, SubSeqEmpty DEF Before
      <4> QED
        BY <3>4, <4>1
    <3>5. CASE LastOutcome(journal) \in Of(journal, Outcomes)
      <4>1. LastOutcome(journal) \in DOMAIN journal
        BY <3>5 DEF Of
      <4> QED
        BY <1>1, <3>3, <4>1, BeforeStays
    <3> QED
      BY <3>1, <3>4, <3>5, LastOutcomeIs
  <2> QED
    BY <2>4, <2>5 DEF EndInv, EndedWithin
<1> QED
  BY <1>2, <1>3

\* A state in which the traversal has not ended needs no reason.
LEMMA PlainIsEarned ==
  ASSUME NEW state, state \notin Final, NEW j, NEW node
  PROVE  EarnedAt(j, node, state)
BY DEF EarnedAt, Final

\* A record that has shown everything has no transition to show.
LEMMA NoTransition ==
  ASSUME NEW j, IsJournal(j), Ranked(j), NEW r, Mutated(j) = r
  PROVE  Lacks(j, r, {"STATE_TRANSITIONED"}) = {}
<1>1. {"STATE_TRANSITIONED"} \in SUBSET Mutations
  BY DEF Mutations
<1> QED
  BY <1>1, NothingLacks

\* Evidence of a denial is an excess.
LEMMA DenialShows ==
  ASSUME GraphInv, Next, session'.step = "denied"
  PROVE  IsExceeded(journal')
<1>1. IsJournal(journal)
  BY DEF GraphInv, TypeInv, JournalIsTyped, IsJournal
<1>2. DenyAttempt
  <2>1. CASE \/ RunPolicy \/ PassGate \/ ReserveModel \/ CallModel \/ CommitModel \/ RecordOverrun
             \/ ReserveTool \/ RecordCall \/ DispatchTool \/ CommitTool \/ RecordOutcome
             \/ RecordCallFails
    <3>1. session'.step \in Inside \/ session'.step = "idle"
      BY <2>1, InsideGoesOn
    <3> QED
      BY <3>1 DEF Inside, Outside
  <2>2. CASE Execute \/ Resume
    BY <2>2 DEF Execute, Resume, TransitionTo, WriteAhead, Idle, At
  <2>3. CASE RequestApproval
    BY <2>3 DEF RequestApproval, WriteAhead, Idle, At, GraphInv, TypeInv, Session
  <2>4. CASE StartNode
    BY <2>4, StartFacts
  <2>5. CASE FinishNode
    BY <2>5, FinishFacts DEF Idle, At
  <2>6. CASE \/ RecoverState \/ RecoverApproval \/ PrepareResume \/ RefuseVisit
             \/ ExhaustRetries \/ PauseForApproval \/ ExceedBudget \/ ResolveTerminal
             \/ Raise \/ Approve \/ Abort
    <3>1. Idle.step = "idle"
      BY DEF Idle, At
    <3>2. session'.step = "idle"
      BY <2>6, <3>1 DEF RecoverState, RecoverApproval, PrepareResume, RefuseVisit,
         ExhaustRetries, PauseForApproval, ExceedBudget, ResolveTerminal, Raise, Approve,
         Abort, TransitionTo, WriteAhead
    <3> QED
      BY <3>2
  <2> QED
    BY <2>1, <2>2, <2>3, <2>4, <2>5, <2>6 DEF Next, Proceed, Traverse
<1> DEFINE e == Denial(journal, Node, Attempt, "attempt")
<1>3. journal' = Append(journal, e) /\ ~ Fits(journal, Node, "attempt")
  BY <1>2 DEF DenyAttempt, Write
<1>4. e.type = "BUDGET_EXCEEDED" /\ e.dimensions # {}
  <2>1. PICK s \in {"execution", Node} : Lacking(journal, s, "attempt") # {}
    BY <1>3 DEF Fits
  <2>2. PICK scope : /\ scope = IF Lacking(journal, "execution", "attempt") # {}
                                THEN "execution" ELSE Node
    OBVIOUS
  <2>3. e = Evidence(Node, Attempt, "attempt", 0, scope, Lacking(journal, scope, "attempt"))
    BY <2>2 DEF Denial
  <2>4. e.type = "BUDGET_EXCEEDED" /\ e.dimensions = Lacking(journal, scope, "attempt")
    BY <2>3 DEF Evidence
  <2> QED
    BY <2>1, <2>2, <2>4
<1> HIDE DEF e
<1>5. PICK n : n = Len(journal) + 1
  OBVIOUS
<1>6. n \in DOMAIN journal' /\ journal'[n] = e
  BY <1>1, <1>3, <1>5, Grown
<1>7. n \in Of(journal', {"BUDGET_EXCEEDED"}) /\ journal'[n].dimensions # {}
  BY <1>4, <1>6 DEF Of
<1> QED
  BY <1>7, ExceededIs

\* A transition leaves what an end has behind it.
LEMMA TransitionKeepsEarned ==
  ASSUME GraphInv, LedgerInv, NEW e, e.type = "STATE_TRANSITIONED",
         journal' = Append(journal, e), NEW node, NEW state, EarnedAt(journal, node, state)
  PROVE  EarnedAt(journal', node, state)
<1>1. IsJournal(journal) /\ JournalIsTyped(journal) /\ LedgerIsTyped(journal)
  BY DEF GraphInv, TypeInv, JournalIsTyped, IsJournal, LedgerInv
<1>2. e.type \in OtherEvents /\ e.type \notin Outcomes
  BY DEF OtherEvents, Outcomes
<1>3. IsExceeded(journal') <=> IsExceeded(journal)
  BY <1>1, <1>2, OtherKeeps
<1>4. PICK S : journal \in Seq(S) /\ e \in S
  BY <1>1, Grown
<1>5. OpenStart(journal') <=> OpenStart(journal)
  BY <1>2, <1>4, WalkGrows
<1>6. /\ ExpectedNode(journal') = ExpectedNode(journal)
      /\ ExpectedContext(journal') = ExpectedContext(journal)
      /\ Concluded(journal', node) = Concluded(journal, node)
  BY <1>1, <1>2, WalkStays
<1>7. Of(journal', BudgetEvents) = Of(journal, BudgetEvents)
  <2>1. e.type \notin BudgetEvents
    BY DEF BudgetEvents
  <2> QED
    BY <1>1, <2>1, OfGrown
<1> QED
  BY <1>3, <1>5, <1>6, <1>7 DEF EarnedAt

\* A transition is written for a reason, and from a state in which there is something to do.
LEMMA MovesEarn ==
  ASSUME GraphInv, LedgerInv, LoopInv, RevisionInv, RetryInv, EndInv, Settled, NEW e, Moves(e)
  PROVE  EarnedAt(journal, record.node, e.to) /\ record.state \notin Final
<1>1. UpToDate
  BY DEF RevisionInv
<1>2. session.step # "idle" => record.state = "EXECUTING" /\ record.state \notin Final
  BY DEF LoopInv, Final
<1>3. "EXECUTING" \notin Final /\ "PAUSED_AWAITING_APPROVAL" \notin Final
  BY DEF Final
<1>4. CASE Execute /\ e.to = "EXECUTING"
  BY <1>3, <1>4, PlainIsEarned DEF Execute, Final
<1>5. CASE PrepareResume /\ e.to \in {"EXECUTING", "PAUSED_AWAITING_APPROVAL"}
  BY <1>3, <1>5, PlainIsEarned DEF PrepareResume
<1>6. CASE ExhaustRetries /\ e.to = "FAILED_RETRY_EXHAUSTED"
  <2>1. /\ session.step = "loop" /\ session.step # "idle" /\ Node \in Nodes
        /\ session.context # None /\ Policy > 0 /\ Attempt > Policy
    BY <1>6 DEF ExhaustRetries, InLoop, Exhausted, Retrying
  <2>2. ExpectedContext(journal) # None
    BY <2>1 DEF LoopInv
  <2>3. Attempt = Concluded(journal, Node) + 1 /\ Attempt \in Nat /\ record.attempts[Node] \in Nat
    BY <2>1, SessionFacts DEF GraphInv, TypeInv, Record
  <2>4. Concluded(journal, Node) = record.attempts[Node] /\ MaxIterations[Node] \in Nat
    BY <1>1, <2>1, GraphIsCompiled DEF UpToDate
  <2>5. ~ OpenStart(journal)
    BY <2>1 DEF GraphInv, PlaceInv, Outside
  <2>6. VisitsIn(journal, Node) = Concluded(journal, Node)
    BY <2>1, <2>5 DEF GraphInv, WalkInv
  <2>7. VisitsIn(journal, Node) <= MaxIterations[Node]
    BY <2>1 DEF RetryInv, Policy
  <2>8. Concluded(journal, Node) = MaxIterations[Node]
    BY <2>1, <2>3, <2>4, <2>6, <2>7 DEF Policy
  <2> QED
    BY <1>2, <1>6, <2>1, <2>2, <2>8 DEF EarnedAt, Node
<1>7. CASE PauseForApproval /\ e.to = "PAUSED_AWAITING_APPROVAL"
  BY <1>2, <1>3, <1>7, PlainIsEarned DEF PauseForApproval
<1>8. CASE ExceedBudget /\ e.to = "FAILED_BUDGET_EXCEEDED"
  <2>1. session.step # "idle" /\ IsExceeded(journal)
    BY <1>8 DEF ExceedBudget, EndInv
  <2> QED
    BY <1>2, <1>8, <2>1 DEF EarnedAt
<1>9. CASE ResolveTerminal /\ e.to = IF Outcome[Node] = "success" THEN "VERIFYING" ELSE "FAILED"
  <2>1. session.step = "loop" /\ session.step # "idle" /\ Node \in Terminals
    BY <1>9 DEF ResolveTerminal
  <2>2. ~ OpenStart(journal)
    BY <2>1 DEF GraphInv, PlaceInv, Outside
  <2>3. ExpectedNode(journal) = Node /\ Node \notin Nodes
    BY <1>1, <2>1, GraphIsCompiled DEF UpToDate, Node
  <2>4. Of(journal, BudgetEvents) # {} => ~ IsExceeded(journal)
    BY <2>2, <2>3 DEF LedgerInv, ExcessInv, ExcessIsNew
  <2>5. /\ e.to = "VERIFYING" <=> Outcome[Node] = "success"
        /\ e.to # "FAILED_BUDGET_EXCEEDED" /\ e.to # "FAILED_RETRY_EXHAUSTED"
    BY <1>9
  <2> QED
    BY <1>2, <2>1, <2>2, <2>3, <2>4, <2>5 DEF EarnedAt
<1> QED
  BY <1>4, <1>5, <1>6, <1>7, <1>8, <1>9 DEF Moves

\* A transition that is written, and comes to be shown or not.
LEMMA MovesKeepEnd ==
  ASSUME GraphInv, GraphInv', LedgerInv, LoopInv, RevisionInv, RevisionInv', GateInv, RetryInv,
         EndInv, EndedWithin(journal'), NEW e, Posts(e), Moves(e), Settled' \/ Crashes
  PROVE  EndInv'
<1>1. IsJournal(journal) /\ IsJournal(journal') /\ record \in Record
  BY DEF GraphInv, TypeInv, JournalIsTyped, IsJournal
<1>2. Settled
  BY WritesSettled
<1>3. journal' = Append(journal, e) /\ e.type = "STATE_TRANSITIONED"
  BY DEF Posts, Moves
<1>4. EarnedAt(journal', record.node, e.to) /\ record.state \notin Final
  BY <1>2, <1>3, MovesEarn, TransitionKeepsEarned
<1>5. session'.step # "denied"
  BY DEF Moves, Idle, At
<1>6. CASE Crashes
  <2>1. record' = record
    BY <1>6 DEF Crashes
  <2>2. PendingTransition = {}
    BY <1>2, SettledFacts DEF RevisionInv
  <2>3. ASSUME NEW i \in PendingTransition' PROVE journal'[i].to = e.to
    <3> DEFINE T == {"STATE_TRANSITIONED"}
    <3>1. i \in Of(journal', T) /\ journal'[i].revision = record.revision + 1
      BY <2>1, <2>3 DEF PendingTransition
    <3> HIDE DEF T
    <3>2. \/ i \in Of(journal, T) /\ journal'[i] = journal[i]
          \/ journal'[i] = e
      BY <1>1, <1>3, <3>1, NewPosition
    <3>3. ~ (i \in Of(journal, T) /\ journal'[i] = journal[i])
      BY <2>2, <3>1 DEF PendingTransition, T
    <3> QED
      BY <3>2, <3>3
  <2>4. EarnedAt(journal', record'.node, record'.state)
    BY <1>4, <2>1, PlainIsEarned
  <2> QED
    BY <1>4, <1>5, <2>1, <2>3, <2>4, EndIs
<1>7. CASE ~ Crashes
  <2>1. record' = [record EXCEPT !.state = e.to, !.revision = @ + 1] /\ Settled'
    BY <1>3, <1>7 DEF Posts, Saves, Updated, Outcomes, Approvals
  <2>2. record'.state = e.to /\ record'.node = record.node
    BY <1>1, <2>1 DEF Record
  <2>3. Lacks(journal', record'.revision, {"STATE_TRANSITIONED"}) = {}
    BY <1>1, <2>1, NoTransition DEF Settled, RevisionInv
  <2>4. PendingTransition' = {}
    BY <2>3 DEF PendingTransition, Lacks
  <2> QED
    BY <1>4, <1>5, <2>2, <2>4, EndIs
<1> QED
  BY <1>6, <1>7

\* What the other steps that write ahead leave: a traversal that has not ended.
LEMMA OthersKeepEnd ==
  ASSUME GraphInv, GraphInv', LoopInv, RevisionInv, RevisionInv', GateInv,
         EndedWithin(journal'),
         NEW e, Posts(e), ~ Moves(e), Settled' \/ Crashes, session'.step # "denied"
  PROVE  EndInv'
<1>1. IsJournal(journal) /\ IsJournal(journal') /\ record \in Record
  BY DEF GraphInv, TypeInv, JournalIsTyped, IsJournal
<1>2. Settled /\ journal' = Append(journal, e)
  BY WritesSettled DEF Posts
<1>3. e.type # "STATE_TRANSITIONED"
  BY DEF Posts, EndOfVisit, Outcomes, Asks, Grants
<1>4. record.state \notin Final
  <2>1. CASE FinishNode
    BY <2>1, FinishFacts DEF LoopInv, Final
  <2>2. CASE Asks(e)
    BY <2>2 DEF Asks, Visiting, InLoop, LoopInv, Final
  <2>3. CASE Grants(e)
    BY <2>3 DEF Grants, Final
  <2> QED
    BY <2>1, <2>2, <2>3 DEF Posts
<1>5. record'.state = record.state
  <2>1. record' = record \/ record' = Updated(e)
    BY DEF Posts, Crashes, Saves
  <2>2. e.type \in Outcomes \/ e.type \in Approvals
    BY DEF Posts, EndOfVisit, Asks, Grants, Approvals
  <2>3. CASE e.type \in Outcomes
    <3>1. e.type \notin Approvals
      BY <2>3 DEF Outcomes, Approvals
    <3> QED
      BY <1>1, <2>1, <2>3, <3>1 DEF Updated, NextRecord, Record
  <2>4. CASE e.type \in Approvals
    <3>1. e.type \notin Outcomes
      BY <2>4 DEF Outcomes, Approvals
    <3> QED
      BY <1>1, <2>1, <2>4, <3>1 DEF Updated, Record
  <2> QED
    BY <2>2, <2>3, <2>4
<1>6. PendingTransition' = {}
  <2>1. CASE Settled'
    <3>1. Lacks(journal', record'.revision, {"STATE_TRANSITIONED"}) = {}
      BY <1>1, <2>1, NoTransition DEF Settled, RevisionInv
    <3> QED
      BY <3>1 DEF PendingTransition, Lacks
  <2>2. CASE Crashes
    <3> DEFINE T == {"STATE_TRANSITIONED"}
    <3>1. e.type \notin T
      BY <1>3
    <3> HIDE DEF T
    <3>2. Of(journal', T) = Of(journal, T) /\ \A i \in Of(journal, T) : journal'[i] = journal[i]
      <4>1. Of(journal', T) = Of(journal, T)
        BY <1>1, <1>2, <3>1, OfGrown
      <4>2. \A i \in DOMAIN journal : journal'[i] = journal[i]
        BY <1>1, <1>2, Grown
      <4> QED
        BY <4>1, <4>2 DEF Of
    <3>3. record' = record /\ PendingTransition = {}
      BY <1>2, <2>2, SettledFacts DEF Crashes, RevisionInv
    <3> QED
      BY <3>2, <3>3 DEF PendingTransition, T
  <2> QED
    BY <2>1, <2>2
<1> QED
  BY <1>4, <1>5, <1>6, PlainIsEarned, EndIs

\* An end that was written before is shown, or something that is no end.
LEMMA ShowsKeepEnd ==
  ASSUME GraphInv, GraphInv', RevisionInv, EndInv, EndedWithin(journal'), Shows,
         session'.step # "denied"
  PROVE  EndInv'
<1>1. IsJournal(journal') /\ record \in Record
  BY DEF GraphInv, TypeInv, JournalIsTyped, IsJournal
<1>2. RevisionInv' /\ Settled' /\ journal' = journal
  BY ShowsKeep DEF Shows
<1>3. Lacks(journal', record'.revision, {"STATE_TRANSITIONED"}) = {}
  BY <1>1, <1>2, NoTransition DEF Settled, RevisionInv
<1>4. PendingTransition' = {}
  BY <1>3 DEF PendingTransition, Lacks
<1>5. EarnedAt(journal', record'.node, record'.state)
  <2>1. CASE RecoverState
    <3>1. PICK i \in PendingTransition :
            record' = [record EXCEPT !.state = journal[i].to, !.revision = @ + 1]
      BY <2>1 DEF RecoverState
    <3>2. record'.state = journal[i].to /\ record'.node = record.node
      BY <1>1, <3>1 DEF Record
    <3>3. EarnedAt(journal, record.node, journal[i].to)
      BY <3>1, EndIs
    <3> QED
      BY <1>2, <3>2, <3>3
  <2>2. CASE Resume /\ IsPending(journal)
    <3>1. record.state = "EXECUTING" /\ record' = NextRecord(journal[LastOutcome(journal)])
      BY <2>2 DEF Resume
    <3>2. record'.state = "EXECUTING"
      BY <1>1, <3>1 DEF NextRecord, Record
    <3>3. record'.state \notin Final
      BY <3>2 DEF Final
    <3> QED
      BY <3>3, PlainIsEarned
  <2>3. CASE record' = ApprovalShown
    <3>1. record'.state = record.state /\ record'.node = record.node
      BY <1>1, <2>3 DEF ApprovalShown, Record
    <3>2. EarnedAt(journal, record.node, record.state)
      BY EndIs
    <3> QED
      BY <1>2, <3>1, <3>2
  <2> QED
    BY <2>1, <2>2, <2>3 DEF Shows
<1> QED
  BY <1>4, <1>5, EndIs

\* Where the traversal has ended nothing steady happens.
LEMMA SteadyKeepsEnd ==
  ASSUME GraphInv, LoopInv, RevisionInv, EndInv, EndedWithin(journal'), Steady, Others,
         session'.step = "denied" => IsExceeded(journal')
  PROVE  EndInv'
<1>1. record.state \notin Final /\ PendingTransition = {}
  <2>1. CASE session.step = "idle"
    BY <2>1 DEF Others, Resume, Final
  <2>2. CASE session.step # "idle"
    <3>1. record.state \notin Final
      BY <2>2 DEF LoopInv, Final
    <3>2. PendingTransition = {}
      <4>1. CASE Settled
        BY <4>1, SettledFacts DEF RevisionInv
      <4>2. CASE ~ Settled
        <5>1. PICK k : Ahead(k) /\ Awaits(journal[k])
          BY <4>2, AheadAwaits
        <5>2. journal[k].type # "STATE_TRANSITIONED"
          BY <2>2, <5>1 DEF Awaits
        <5> QED
          BY <5>1, <5>2, AheadFacts DEF RevisionInv
      <4> QED
        BY <4>1, <4>2
    <3> QED
      BY <3>1, <3>2
  <2> QED
    BY <2>1, <2>2
<1>2. record' = record /\ MovesAgree(journal, journal')
  BY DEF Steady, MovesAgree
<1>3. PendingTransition' = {}
  <2> DEFINE T == {"STATE_TRANSITIONED"}
  <2>1. T \in SUBSET Mutations /\ IsJournal(journal)
    BY DEF Mutations, GraphInv, TypeInv, JournalIsTyped, IsJournal
  <2> HIDE DEF T
  <2>2. Of(journal', T) = Of(journal, T)
    BY <1>2, <2>1, WalkAgrees
  <2>3. \A i \in Of(journal, T) : journal'[i] = journal[i]
    BY <1>2 DEF MovesAgree, Of
  <2> QED
    BY <1>1, <1>2, <2>2, <2>3 DEF PendingTransition, T
<1> QED
  BY <1>1, <1>2, <1>3, PlainIsEarned, EndIs

\* The traversal ends with a reason.
LEMMA EndKeepsReason ==
  ASSUME GraphInv, GraphInv', LedgerInv, LoopInv, RevisionInv, RevisionInv', GateInv, RetryInv,
         EndInv, Next
  PROVE  EndInv'
<1>1. (session'.step = "denied" => IsExceeded(journal')) /\ EndedWithin(journal')
  BY DenialShows, EndedStays
<1>2. CASE Steady /\ Others
  BY <1>1, <1>2, SteadyKeepsEnd
<1>3. CASE Shows
  <2>1. RecoverState => session'.step = "idle"
    BY DEF RecoverState
  <2>2. Resume => session'.step = "loop"
    BY DEF Resume, At
  <2>3. Idle.step = "idle"
    BY DEF Idle, At
  <2>4. session'.step # "denied"
    BY <1>3, <2>1, <2>2, <2>3 DEF Shows
  <2> QED
    BY <1>1, <1>3, <2>4, ShowsKeepEnd
<1>4. ASSUME NEW e, Posts(e) PROVE EndInv'
  <2>1. Settled' \/ Crashes
    BY <1>4, PostsKeep
  <2>2. CASE Moves(e)
    BY <1>1, <1>4, <2>1, <2>2, MovesKeepEnd
  <2>3. CASE ~ Moves(e)
    <3>1. session'.step # "denied"
      <4>1. CASE FinishNode
        BY <4>1, FinishFacts DEF Idle, At
      <4>2. CASE Asks(e)
        <5>1. session' = Idle \/ session' = [session EXCEPT !.step = "asked"]
          BY <4>2 DEF Asks, Crashes
        <5>2. Idle.step = "idle"
          BY DEF Idle, At
        <5>3. [session EXCEPT !.step = "asked"].step = "asked"
          BY DEF GraphInv, TypeInv, Session
        <5> QED
          BY <5>1, <5>2, <5>3
      <4>3. CASE Grants(e)
        BY <4>3 DEF Grants, Idle, At
      <4> QED
        BY <1>4, <2>3, <4>1, <4>2, <4>3 DEF Posts
    <3> QED
      BY <1>1, <1>4, <2>1, <2>3, <3>1, OthersKeepEnd
  <2> QED
    BY <2>2, <2>3
<1> QED
  BY <1>2, <1>3, <1>4, StepRevises

-----------------------------------------------------------------------------
(* The theorems about the readers and the moves.                           *)

\* The first state has an empty journal, and nothing to read or to give reason for.
LEMMA ReadersBegin == Init => ReaderInv
<1> SUFFICES ASSUME Init PROVE ReaderInv
  OBVIOUS
<1>1. /\ journal = << >> /\ session = Idle /\ record.revision = 0
      /\ record.state = "INITIATED" /\ record.approval = "NOT_REQUIRED"
  BY DEF Init
<1>2. session.step = "idle"
  BY <1>1 DEF Idle, At
<1>3. \A types : Of(journal, types) = {}
  BY <1>1 DEF Of
<1>4. GraphInv
  BY GraphBegins
<1>5. IsJournal(journal)
  BY <1>4 DEF GraphInv, TypeInv, JournalIsTyped, IsJournal
<1>6. LastOutcome(journal) = 0
  BY <1>3, <1>5, LastOutcomeIs DEF IsJournal
<1>7. \A types : Since(journal, types) = {}
  BY <1>3 DEF Since
<1>8. ExpectedNode(journal) = Entry /\ ExpectedContext(journal) = None
  BY <1>6 DEF ExpectedNode, ExpectedContext
<1>9. LoopInv
  BY <1>2, <1>3 DEF LoopInv, StartsFollow, Inside
<1>10. ToolInv
  BY <1>2, <1>3, <1>7 DEF ToolInv, ToolsFollow, OutcomesFollow, InTurn, Waiting, OverTool
<1>11. DispatchInv /\ ReplayInv
  BY <1>2, <1>3 DEF DispatchInv, ReplayInv, Waiting, OverTool, Holding, LedgerReplays,
     AttemptsAreDistinct, ReservationsAlternate, EvidenceAgrees, DispatchesAreReserved
<1>12. Mutated(journal) = 0 /\ Ranked(journal)
  BY <1>3, FS_EmptySet DEF Mutated, Ranked
<1>13. \A n : Concluded(journal, n) = 0
  BY <1>3, FS_EmptySet DEF Concluded
<1>14. UpToDate
  BY <1>8, <1>13 DEF UpToDate, Init
<1>15. RevisionInv
  BY <1>1, <1>2, <1>12, <1>14 DEF RevisionInv, Settled
<1>16. ~ RequestRepeated /\ Turns(journal)
  BY <1>3 DEF RequestRepeated, Turns
<1>17. ApprovalInv
  BY <1>1, <1>3, <1>16 DEF ApprovalInv, ApprovalIsShown
<1>18. GateInv
  BY <1>2, <1>3 DEF GateInv, GatesAreApproved, Inside
<1>19. RetryInv
  <2>1. ASSUME NEW n \in Nodes, MaxIterations[n] > 0
        PROVE  VisitsIn(journal, n) <= MaxIterations[n]
    <3>1. VisitsIn(journal, n) = 0 /\ MaxIterations[n] \in Nat
      BY <1>3, FS_EmptySet, GraphIsCompiled DEF VisitsIn
    <3> QED
      BY <3>1
  <2>2. RetriesHaveReason
    BY <1>3 DEF RetriesHaveReason
  <2> QED
    BY <1>8, <2>1, <2>2 DEF RetryInv
<1>20. EndInv
  <2>1. Before(journal, 0) = << >>
    BY <1>5, SubSeqEmpty DEF Before, IsJournal
  <2>2. ~ IsExceeded(journal)
    BY <1>1, NothingIsUsed
  <2>3. EndedWithin(journal)
    BY <1>1, <1>6, <2>1, <2>2 DEF EndedWithin
  <2> QED
    BY <1>1, <1>2, <1>3, <2>3 DEF EndInv, Earned, PendingTransition
<1> QED
  BY <1>9, <1>10, <1>11, <1>15, <1>17, <1>18, <1>19, <1>20 DEF ReaderInv

\* A step that leaves the state as it is.
LEMMA ReadersStutter ==
  ASSUME ReaderInv, UNCHANGED vars PROVE ReaderInv'
<1>1. /\ record' = record /\ journal' = journal /\ effects' = effects
      /\ session' = session /\ faults' = faults
  BY DEF vars
<1>2. Node' = Node /\ Attempt' = Attempt /\ Policy' = Policy /\ UpToDate' = UpToDate
  BY <1>1 DEF Node, Attempt, Policy, UpToDate
<1>3. LoopInv'
  BY <1>1, <1>2 DEF ReaderInv, LoopInv
<1>4. /\ Waiting' = Waiting /\ InTurn' = InTurn /\ OverTool' = OverTool
      /\ PendingTransition' = PendingTransition /\ PendingApproval' = PendingApproval
  BY <1>1 DEF Waiting, InTurn, OverTool, PendingTransition, PendingApproval
<1>5. ToolInv'
  BY <1>1, <1>4 DEF ReaderInv, ToolInv
<1>6. DispatchInv' /\ ReplayInv'
  <2>1. Closed' <=> Closed
    BY <1>1, <1>2, <1>4 DEF Closed, EvidenceRefused
  <2> QED
    BY <1>1, <1>2, <1>4, <2>1 DEF ReaderInv, DispatchInv, ReplayInv
<1>7. \A types : LatestOf(types)' = LatestOf(types)
  BY <1>1 DEF LatestOf
<1>8. \A node, p : Subject(node, p)' = Subject(node, p)
  BY <1>1 DEF Subject, Digest
<1>9. Settled' = Settled
  BY <1>1 DEF Settled
<1>10. \A k : Ahead(k) => Ahead(k)'
  BY <1>1, <1>2, <1>7, <1>8 DEF Ahead, Awaits
<1>11. RevisionInv'
  BY <1>1, <1>2, <1>9, <1>10 DEF ReaderInv, RevisionInv
<1>12. ApprovalInv'
  BY <1>1, <1>4 DEF ReaderInv, ApprovalInv, ApprovalIsShown, RequestRepeated
<1>13. GateInv'
  BY <1>1, <1>2, <1>8 DEF ReaderInv, GateInv, GatesAreApproved, Digest
<1>14. RetryInv'
  BY <1>1 DEF ReaderInv, RetryInv, RetriesHaveReason
<1>15. EndInv'
  BY <1>1, <1>4 DEF ReaderInv, EndInv, EndedWithin, Earned
<1> QED
  BY <1>3, <1>5, <1>6, <1>11, <1>12, <1>13, <1>14, <1>15 DEF ReaderInv

\* What the readers rely on is kept, with the walk and the account.
LEMMA ReadersKeep ==
  GraphInv /\ LedgerInv /\ ReaderInv /\ [Next]_vars => GraphInv' /\ LedgerInv' /\ ReaderInv'
<1> SUFFICES ASSUME GraphInv, LedgerInv, ReaderInv, [Next]_vars
             PROVE  GraphInv' /\ LedgerInv' /\ ReaderInv'
  OBVIOUS
<1>1. GraphInv' /\ LedgerInv'
  BY LedgerKeeps
<1>2. CASE UNCHANGED vars
  BY <1>1, <1>2, ReadersStutter
<1>3. CASE Next
  <2>1. /\ LoopInv /\ ToolInv /\ DispatchInv /\ RevisionInv /\ ReplayInv /\ ApprovalInv
        /\ GateInv /\ RetryInv /\ EndInv
    BY DEF ReaderInv
  <2>2. LoopInv' /\ RetryInv'
    BY <1>3, <2>1, LoopKeeps, RetryKeeps
  <2>3. ToolInv'
    BY <1>1, <1>3, <2>1, ToolKeeps
  <2>4. DispatchInv'
    BY <1>1, <1>3, <2>1, DispatchKeeps
  <2>5. RevisionInv'
    BY <1>1, <1>3, <2>1, RevisionKeeps
  <2>6. ApprovalInv'
    BY <1>1, <1>3, <2>1, <2>5, ApprovalKeeps
  <2>7. GateInv'
    BY <1>1, <1>3, <2>1, GateKeeps
  <2>8. EndInv'
    BY <1>1, <1>3, <2>1, <2>5, EndKeepsReason
  <2>9. ReplayInv'
    BY <1>1, <1>3, <2>1, ReplayKeeps
  <2> QED
    BY <1>1, <2>2, <2>3, <2>4, <2>5, <2>6, <2>7, <2>8, <2>9 DEF ReaderInv
<1> QED
  BY <1>2, <1>3

\* Both properties follow.
LEMMA ReadersGive == GraphInv /\ ReaderInv => ReadersAccept /\ MovesAreEarned
<1> SUFFICES ASSUME GraphInv, ReaderInv PROVE ReadersAccept /\ MovesAreEarned
  OBVIOUS
<1>1. ReadersAccept
  BY ReadersFollow DEF ReaderInv
<1>2. RetriesHaveReason /\ GatesAreApproved
  BY DEF ReaderInv, RetryInv, GateInv
<1>3. EndIsEarned
  BY DEF ReaderInv, EndInv, EndedWithin, Earned, EndIsEarned
<1> QED
  BY <1>1, <1>2, <1>3 DEF MovesAreEarned

\* Whatever a crash, a write that failed half-way, a refusal, a denial or an approver leaves
\* behind is accepted by the three strict readers of the journal: the resume of the graph,
\* when no node is open; the ledger of the budget, unless its last event is evidence of an
\* excess to which nodes contributed that called nothing, and then the node is open for good;
\* and the recovery of approvals, unless a fault between a request and its pause let another
\* session ask again.
THEOREM ReadersAlwaysAccept == Spec => []ReadersAccept
<1>1. Init => GraphInv /\ LedgerInv /\ ReaderInv
  BY GraphBegins, LedgerBegins, ReadersBegin
<1>2. GraphInv /\ LedgerInv /\ ReaderInv /\ [Next]_vars => GraphInv' /\ LedgerInv' /\ ReaderInv'
  BY ReadersKeep
<1>3. GraphInv /\ LedgerInv /\ ReaderInv => ReadersAccept
  BY ReadersGive
<1> QED
  BY <1>1, <1>2, <1>3, PTL DEF Spec

\* A node is visited again only for a retryable failure that its origin has not made good, a
\* human node is passed only on a grant for it and for what it was given, and the traversal
\* ends in the state that the journal gives reason for, whatever crashed in between: within the
\* budget where it ends in verification or failure, but for the time of the last node of a graph
\* in which nothing was called.
THEOREM MovesHaveReason == Spec => []MovesAreEarned
<1>1. Init => GraphInv /\ LedgerInv /\ ReaderInv
  BY GraphBegins, LedgerBegins, ReadersBegin
<1>2. GraphInv /\ LedgerInv /\ ReaderInv /\ [Next]_vars => GraphInv' /\ LedgerInv' /\ ReaderInv'
  BY ReadersKeep
<1>3. GraphInv /\ LedgerInv /\ ReaderInv => MovesAreEarned
  BY ReadersGive
<1> QED
  BY <1>1, <1>2, <1>3, PTL DEF Spec
=============================================================================
