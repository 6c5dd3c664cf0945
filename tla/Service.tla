------------------------------ MODULE Service ------------------------------
(***************************************************************************)
(* runtime/execution_lifecycle.py, ExecutionLifecycleService: what its     *)
(* commands share, and the part of the graph executor between them.        *)
(* Modules Preparation (start and resume up to the plan) and Verification  *)
(* (verify, the repair and the candidate) have the rest, Lifecycle puts    *)
(* them together.                                                          *)
(*                                                                         *)
(* Each command is a chain of sections under the execution lock (module    *)
(* FencedLock).  Between two sections the lock is free, another caller may *)
(* come in, and what the first one has read is stale.  A caller may die in *)
(* any section; one state transition is one step (module StateMachine).    *)
(*                                                                         *)
(* The compiled graph is one agent's node, "work", and its successful end; *)
(* GraphExecutor has graphs in full.  Left out: cancellation and approvals *)
(* (module Cancellation, Promotion), artifacts damaged from outside.       *)
(***************************************************************************)
EXTENDS Budget, ExecutionStates, FiniteSetsExt

CONSTANTS
  Callers,        \* processes that call the service
  Policy,         \* the gates of the verification policy, in its order
  Blocking,       \* those that are required
  MaxRetrievals,  \* max_retrieval_retries of the context policy
  RetryMax,       \* model_routing.retry_max of the retry cost policy
  RetryDuration,  \* its max_retry_duration_seconds
  MaxIterations,  \* retry_policy.max_iterations of the node
  Durations,      \* bound: what a call or a gate may take
  MaxUpsets       \* bound: what the user and the clock do, and deaths of a caller

Gates == {Policy[i] : i \in DOMAIN Policy}

ASSUME ServiceIsConfigured ==
  /\ Nodes = {"planning", "work"} \cup Gates
  /\ {"planning", "work"} \cap Gates = {}
  /\ Policy \in Seq(Gates) /\ Cardinality(Gates) = Len(Policy)
  /\ Blocking \subseteq Gates /\ Blocking # {}
  /\ {MaxRetrievals, RetryMax, RetryDuration, MaxUpsets} \cup Durations \subseteq Nat
  /\ MaxIterations \in Nat \ {0}

VARIABLES
  state,      \* current_state of the record, or absent
  journal,    \* the events of the execution that replay looks at
  cursor,     \* current_node_id: the node, or the end of the graph
  candidate,  \* candidate_commit_sha of the record, 0 for none
  promotes,   \* the service has a promotion manager
  head,       \* worktree_head_sha of the worktree's reference; 0 is the base
  tree,       \* the worktree: clean at head, edited, or at a stray commit
  stale,      \* the knowledge is not what the context report has seen
  clock,      \* coarse wall clock
  effects,    \* history: calls of the model and runs of gates
  at,         \* where each caller is
  seen,       \* what it carries from one section to another
  moves, faults

stored == <<state, journal, cursor, candidate>>
outside == <<promotes, head, tree, stale, clock, effects>>
bounds == <<moves, faults>>

Nothing == [commit |-> 0, gates |-> {}, source |-> 0, repair |-> 0,
            visit |-> 0, deadline |-> 0]

\* Where a caller is inside a section: it holds the lock.
Sections == {"assembling", "decided", "planning", "planned", "loop", "node", "worked",
             "gates", "run", "suite", "verdict", "scheduling", "cursor"}

Free == \A c \in Callers : at[c] \notin Sections

Go(c, place) == at' = [at EXCEPT ![c] = place]

\* The next section begins.
Enters(c, place) == at[c] = place /\ Free

\* The command returns or raises; a lock it held is free.
Return(c) == Go(c, "idle") /\ seen' = [seen EXCEPT ![c] = Nothing]

\* EventSourcedStateMachine.transition_to
MoveTo(s) == s \in Edges[state] /\ state' = s

Write(event) == journal' = Append(journal, event)

\* A transition that ends the command.
Finish(c, s) == MoveTo(s) /\ Return(c)

\* ensure_attempt_available or a reservation was refused.
Deny(c, node, attempt, kind) ==
  /\ Write(Denial(journal, node, attempt, kind))
  /\ Finish(c, "FAILED_BUDGET_EXCEEDED")

Positions(types) == Of(journal, types)
Last(types) == Max(Positions(types) \cup {0})
Count(types) == Cardinality(Positions(types))

\* The call of a model in a node: reserved, made and committed.  A death on the way
\* leaves the node open, wherever it comes.
Called(node, attempt, duration) ==
  LET reserved == Append(journal, Reserved(node, attempt, "model"))
      handle == Len(reserved)
      committed == Append(reserved, Committed(reserved, handle, TRUE, duration))
  IN  IF IsExceeded(committed) THEN Append(committed, Overrun(committed, handle))
      ELSE committed

Affect(node, attempt) == effects' = Append(effects, <<node, attempt>>)

-----------------------------------------------------------------------------
(* GraphExecutor, between the sections of the service.                     *)

Visits == Count({"NODE_STARTED"})

NodeIsOpen == Visits > Count({"NODE_COMPLETED", "NODE_FAILED"})

\* A repair was scheduled that no visit has followed up yet.
RepairPending == Last({"VERIFICATION_REPAIR_SCHEDULED"}) > Last({"NODE_COMPLETED"})

\* execute, once for an execution.
EnterGraph(c) ==
  /\ Enters(c, "execute")
  /\ \/ /\ state = "PLANNING" /\ cursor = "work"
        /\ MoveTo("EXECUTING") /\ Go(c, "loop") /\ UNCHANGED seen
     \/ ~ (state = "PLANNING" /\ cursor = "work") /\ Return(c) /\ UNCHANGED state
  /\ UNCHANGED <<journal, cursor, candidate, outside, bounds>>

\* resume: an open node raises; a scheduled repair moves the cursor.
Reenter(c) ==
  /\ Enters(c, "reenter")
  /\ \/ /\ state = "EXECUTING" /\ ~ NodeIsOpen
        /\ cursor' = IF RepairPending THEN "work" ELSE cursor
        /\ Go(c, "loop") /\ UNCHANGED seen
     \/ /\ ~ (state = "EXECUTING" /\ ~ NodeIsOpen)
        /\ Return(c) /\ UNCHANGED cursor
  /\ UNCHANGED <<state, journal, candidate, outside, bounds>>

\* NODE_STARTED, for the first visit or within a repair.
StartNode(c) ==
  /\ at[c] = "loop" /\ cursor = "work"
  /\ LET attempt == Visits + 1 IN
     \/ /\ Fits(journal, "work", "attempt")
        /\ Write([type |-> "NODE_STARTED", node |-> "work", attempt |-> attempt])
        /\ Go(c, "node") /\ UNCHANGED <<state, seen>>
     \/ /\ ~ Fits(journal, "work", "attempt")
        /\ Deny(c, "work", attempt, "attempt")
  /\ UNCHANGED <<cursor, candidate, outside, bounds>>

\* The agent calls its model.  A ledger that does not replay raises out of the node
\* and leaves it open.
WorkOnNode(c) ==
  /\ at[c] = "node"
  /\ IF Fits(journal, "work", "model")
     THEN /\ \E d \in Durations : journal' = Called("work", Visits, d)
          /\ Affect("work", Visits)
          /\ CASE ~ LedgerReplays(journal') -> Return(c) /\ UNCHANGED state
               [] LedgerReplays(journal') /\ IsExceeded(journal') ->
                    Finish(c, "FAILED_BUDGET_EXCEEDED")
               [] OTHER -> Go(c, "worked") /\ UNCHANGED <<state, seen>>
     ELSE Deny(c, "work", Visits, "model") /\ UNCHANGED effects
  /\ UNCHANGED <<cursor, candidate, promotes, head, tree, stale, clock, bounds>>

\* NODE_COMPLETED, with or without edits in the worktree, or NODE_FAILED.  Their time does
\* not count: the reservation of the planner precedes every node.
FinishNode(c) ==
  /\ at[c] = "worked"
  /\ \/ /\ Write([type |-> "NODE_COMPLETED"])
        /\ tree' \in {tree, IF tree = "clean" THEN "edited" ELSE tree}
        /\ cursor' = "end" /\ Go(c, "loop") /\ UNCHANGED <<state, seen>>
     \/ /\ Write([type |-> "NODE_FAILED"])
        /\ Finish(c, "FAILED") /\ UNCHANGED <<tree, cursor>>
  /\ UNCHANGED <<candidate, promotes, head, stale, clock, effects, bounds>>

\* _resolve_terminal, with deferred completion.
ReachEnd(c) ==
  /\ at[c] = "loop" /\ cursor = "end"
  /\ Finish(c, "VERIFYING")
  /\ UNCHANGED <<journal, cursor, candidate, outside, bounds>>

GraphSession(c) ==
  \/ EnterGraph(c) \/ Reenter(c) \/ StartNode(c) \/ WorkOnNode(c)
  \/ FinishNode(c) \/ ReachEnd(c)
=============================================================================
