------------------------------- MODULE Budget -------------------------------
(***************************************************************************)
(* governance/budget.py: what an execution has consumed, read from its     *)
(* journal alone (BudgetLedger), and what the boundary between a node and  *)
(* its model or tools (JournalBudgetBoundary) allows on top of it.         *)
(*                                                                         *)
(* Every operator takes a journal, a sequence of events that have a type,  *)
(* a node and an attempt.  A reservation is named by its position in the   *)
(* journal (the code digests its content and the operation's ordinal).     *)
(* Three of the seven dimensions stand for all of them: attempts, which    *)
(* are counted from the starts of nodes, tool calls, whose cost is known   *)
(* in advance, and the duration, known only afterwards, as the completion  *)
(* tokens and the price are.  The duration is also what a node uses that   *)
(* calls nothing, but only before the first event of the budget.           *)
(***************************************************************************)
EXTENDS Integers, Sequences, FiniteSets

CONSTANTS
  Nodes,   \* the nodes of the compiled graph
  Limit    \* per scope and dimension: BudgetLimits.execution and for_node

Dimensions == {"attempts", "tool_calls", "duration_ms"}
Scopes == Nodes \cup {"execution"}

ASSUME LimitIsNat == Limit \in [Scopes -> [Dimensions -> Nat]]

Within(e, scope) == scope \in {"execution", e.node}

Of(j, types) == {i \in DOMAIN j : j[i].type \in types}

Before(j, i) == SubSeq(j, 1, i - 1)

-----------------------------------------------------------------------------
(* BudgetLedger: consumption and reservations.                             *)

\* What is asked for before an operation: BudgetIncrement of the estimate.
Estimate(kind) ==
  [attempts    |-> IF kind = "attempt" THEN 1 ELSE 0,
   tool_calls  |-> IF kind = "tool" THEN 1 ELSE 0,
   duration_ms |-> 1]

\* The sum of the values of f, counted: f[i] units of each i.
Units(f) == UNION {{i} \X (1 .. f[i]) : i \in DOMAIN f}
Total(f) == Cardinality(Units(f))

\* Results committed in a scope; the part of the usage the loop of _replay adds.
CommittedUsage(j, scope) ==
  LET commits == {i \in Of(j, {"BUDGET_COMMITTED"}) : Within(j[i], scope)}
  IN  [d \in Dimensions |-> Total([i \in commits |-> j[i].actual[d]])]

\* What counts as an attempt; the node of a plan is __planning__, that of a gate
\* __verification__:<gate>.
Attempted == {"NODE_STARTED", "PLAN_GENERATION_STARTED", "VERIFICATION_GATE_STARTED"}

\* _replay_attempts and _replay_verification_durations come after the loop.
Metered(j, scope) ==
  LET starts == {i \in Of(j, Attempted) : Within(j[i], scope)}
      gates == {i \in Of(j, {"VERIFICATION_GATE_RECORDED"}) : Within(j[i], scope)}
  IN  [CommittedUsage(j, scope) EXCEPT
         !.attempts = @ + Cardinality(starts),
         !.duration_ms = @ + Total([i \in gates |-> j[i].duration])]

BudgetEvents ==
  {"BUDGET_RESERVED", "BUDGET_COMMITTED", "BUDGET_RELEASED", "BUDGET_EXCEEDED"}

\* The nodes that were over before first_budget_index.  Their calls, if the journal is
\* older than reservations, are not in the model.
Historical(j, scope) ==
  {i \in Of(j, {"NODE_COMPLETED", "NODE_FAILED"}) :
     (\A k \in Of(j, BudgetEvents) : i < k) /\ Within(j[i], scope)}

\* _replay_historical_usage, the last step of _replay: the time that these nodes took.
Elapsed(j, scope) == Total([i \in Historical(j, scope) |-> j[i].duration])

Usage(j, scope) == [Metered(j, scope) EXCEPT !.duration_ms = @ + Elapsed(j, scope)]

\* active_reservations
Active(j) ==
  Of(j, {"BUDGET_RESERVED"})
    \ {j[k].reservation : k \in Of(j, {"BUDGET_COMMITTED", "BUDGET_RELEASED"})}

OverLimit(scope, usage) == {d \in Dimensions : usage[d] > Limit[scope][d]}

\* ensure_increment: what the scope would come to with one more operation.
Pending(j, scope, kind) ==
  LET used == Usage(j, scope)
      held == {i \in Active(j) : Within(j[i], scope)}
  IN  [d \in Dimensions |->
         used[d] + Estimate(kind)[d]
           + Total([i \in held |-> Estimate(j[i].kind)[d]])]

Lacking(j, scope, kind) == OverLimit(scope, Pending(j, scope, kind))

Fits(j, node, kind) ==
  \A s \in {"execution", node} : Lacking(j, s, kind) = {}

\* Dimensions over their limits, by scope: those of the usage and, _evidence_dimensions,
\* those that recorded evidence names.
ExceededDimensions(j) ==
  (UNION {{s} \X OverLimit(s, Usage(j, s)) : s \in Scopes})
  \cup (UNION {{j[i].scope} \X j[i].dimensions :
                 i \in Of(j, {"BUDGET_EXCEEDED"})})

IsExceeded(j) == ExceededDimensions(j) # {}

-----------------------------------------------------------------------------
(* JournalBudgetBoundary: the events it appends.                           *)

Reserved(node, attempt, kind) ==
  [type |-> "BUDGET_RESERVED", node |-> node, attempt |-> attempt, kind |-> kind]

Committed(j, reservation, succeeded, duration) ==
  LET held == j[reservation]
  IN  [type |-> "BUDGET_COMMITTED", node |-> held.node, attempt |-> held.attempt,
       kind |-> held.kind, reservation |-> reservation, succeeded |-> succeeded,
       actual |-> [Estimate(held.kind) EXCEPT !.duration_ms = duration]]

Released(j, reservation) ==
  LET held == j[reservation]
  IN  [type |-> "BUDGET_RELEASED", node |-> held.node, attempt |-> held.attempt,
       kind |-> held.kind, reservation |-> reservation]

Evidence(node, attempt, kind, reservation, scope, dimensions) ==
  [type |-> "BUDGET_EXCEEDED", node |-> node, attempt |-> attempt, kind |-> kind,
   reservation |-> reservation, scope |-> scope, dimensions |-> dimensions]

\* _append_denial: the first scope that lacks something.
Denial(j, node, attempt, kind) ==
  LET scope == IF Lacking(j, "execution", kind) # {} THEN "execution" ELSE node
  IN  Evidence(node, attempt, kind, 0, scope, Lacking(j, scope, kind))

\* The scope and the dimensions that the evidence of a commit names.
Blame(exceeded, node) ==
  [scope |-> IF \E x \in exceeded : x[1] = node THEN node ELSE "execution",
   dimensions |-> {x[2] : x \in {y \in exceeded : y[1] \in {"execution", node}}}]

\* The end of _commit, when the committed usage is over a limit.
Overrun(j, reservation) ==
  LET held == j[reservation]
      blame == Blame(ExceededDimensions(j), held.node)
  IN  Evidence(held.node, held.attempt, held.kind, reservation,
               blame.scope, blame.dimensions)

\* materialize_exceeded: the usage of a gate is no committed result, so its evidence is
\* bound to no reservation.
Materialized(j, node, attempt) ==
  LET exceeded == ExceededDimensions(j)
      scope == IF \E x \in exceeded : x[1] = node THEN node ELSE "execution"
  IN  Evidence(node, attempt, "attempt", 0, scope,
               {x[2] : x \in {y \in exceeded : y[1] = scope}})

-----------------------------------------------------------------------------
(* What replay demands of the journal; otherwise BudgetIntegrityError.     *)

SameOperation(e, f) ==
  e.node = f.node /\ e.attempt = f.attempt /\ e.kind = f.kind

\* One reservation at a time, closed at most once, by its own operation.
ReservationsAlternate(j) ==
  /\ \A i \in Of(j, {"BUDGET_RESERVED"}) : Active(Before(j, i)) = {}
  /\ \A i \in Of(j, {"BUDGET_COMMITTED", "BUDGET_RELEASED"}) :
       /\ j[i].reservation \in Active(Before(j, i))
       /\ SameOperation(j[i], j[j[i].reservation])

\* _validate_exceeded_semantics, against what the loop has added up so far: attempts, gates
\* and the time of earlier nodes are not in it yet.
EvidenceAgrees(j) ==
  \A i \in Of(j, {"BUDGET_EXCEEDED"}) :
    LET past == Before(j, i)
        over == (UNION {{s} \X OverLimit(s, CommittedUsage(past, s)) : s \in Scopes})
                \cup (UNION {{j[k].scope} \X j[k].dimensions :
                               k \in Of(past, {"BUDGET_EXCEEDED"})})
        blame == Blame(over, j[i].node)
    IN  j[i].reservation # 0 =>
          /\ \E k \in Of(past, {"BUDGET_COMMITTED"}) :
               /\ j[k].reservation = j[i].reservation
               /\ SameOperation(j[i], j[k])
          /\ j[i].scope = blame.scope
          /\ j[i].dimensions = blame.dimensions

\* A call is dispatched under the active reservation, its first and only one;
\* its outcome follows the committed result and says the same.
DispatchesAreReserved(j) ==
  /\ \A i \in Of(j, {"TOOL_CALLED"}) :
       \E r \in Active(Before(j, i)) :
         /\ j[r].kind = "tool"
         /\ j[r].node = j[i].node
         /\ j[r].attempt = j[i].attempt
         /\ \A k \in Of(Before(j, i), {"TOOL_CALLED"}) : k < r
  /\ \A i \in Of(j, {"TOOL_COMPLETED", "TOOL_FAILED"}) :
       \E c \in Of(Before(j, i), {"TOOL_CALLED"}),
          k \in Of(Before(j, i), {"BUDGET_COMMITTED"}) :
         /\ j[c].node = j[i].node
         /\ j[c].attempt = j[i].attempt
         /\ j[c].step = j[i].step
         /\ j[k].reservation \in Active(Before(j, c))
         /\ j[k].succeeded = (j[i].type = "TOOL_COMPLETED")

\* _replay_attempts: nothing is attempted twice under one number.
AttemptsAreDistinct(j) ==
  \A i, k \in Of(j, Attempted) :
    j[i].node = j[k].node /\ j[i].attempt = j[k].attempt => i = k

LedgerReplays(j) ==
  /\ AttemptsAreDistinct(j)
  /\ ReservationsAlternate(j)
  /\ EvidenceAgrees(j)
  /\ DispatchesAreReserved(j)
=============================================================================
