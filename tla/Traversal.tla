----------------------------- MODULE Traversal -----------------------------
(***************************************************************************)
(* What the traversal of a graph promises, whatever is interrupted.        *)
(*                                                                         *)
(* The graph is walked along its edges.  Each visit of a node is a new,    *)
(* numbered attempt; a node without a retry policy is visited once, the    *)
(* others at most as often as their policy says.  The model and the tools  *)
(* are called only during a visit, and the calls of an attempt are         *)
(* numbered without gap or repetition: nothing is done twice.  A visit     *)
(* that is interrupted is never left: nobody guesses what it did.          *)
(***************************************************************************)
EXTENDS Naturals, Sequences, FiniteSets

CONSTANTS
  Nodes,          \* the nodes of the graph
  Entry,          \* the first node
  OnSuccess,      \* where a node leads when it succeeds
  OnFailure,      \* where it leads when it fails
  MaxIterations   \* the bound of its retry policy, 0 without a policy

VARIABLES
  at,        \* the node that is or will be visited, or a terminal
  visiting,  \* a visit is going on
  attempts,  \* visits so far, by node
  done       \* what was done to the outside, in order

walk == <<at, visiting, attempts, done>>

WalkInit ==
  /\ at = Entry
  /\ visiting = FALSE
  /\ attempts = [n \in Nodes |-> 0]
  /\ done = << >>

Visit ==
  /\ ~ visiting
  /\ at \in Nodes
  /\ attempts[at] = 0 \/ attempts[at] < MaxIterations[at]
  /\ visiting' = TRUE
  /\ attempts' = [attempts EXCEPT ![at] = @ + 1]
  /\ UNCHANGED <<at, done>>

\* Calls of one kind in the current visit.
CallsOf(kind) ==
  {i \in DOMAIN done : /\ done[i].node = at
                       /\ done[i].attempt = attempts[at]
                       /\ done[i].kind = kind}

Call ==
  /\ visiting
  /\ \E kind \in {"model", "tool"} :
       done' = Append(done, [node |-> at, attempt |-> attempts[at], kind |-> kind,
                             step |-> Cardinality(CallsOf(kind)) + 1])
  /\ UNCHANGED <<at, visiting, attempts>>

Leave ==
  /\ visiting
  /\ visiting' = FALSE
  /\ at' \in {OnSuccess[at], OnFailure[at]}
  /\ UNCHANGED <<attempts, done>>

WalkNext == Visit \/ Call \/ Leave

WalkSpec == WalkInit /\ [][WalkNext]_walk
=============================================================================
