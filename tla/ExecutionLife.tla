--------------------------- MODULE ExecutionLife ---------------------------
(***************************************************************************)
(* What runtime/state_machine.py promises whoever reads an execution: its  *)
(* state only ever moves along the closed table, one edge at a time, and   *)
(* from GENERATING_EVIDENCE it completes only once its evidence is         *)
(* published.  No journal, revision, lock or crash in sight.               *)
(***************************************************************************)
EXTENDS ExecutionStates

VARIABLES state,     \* the state a reader sees
          evidence   \* the evidence manifest is published

lifeVars == <<state, evidence>>

LifeInit ==
  /\ state = "INITIATED"
  /\ evidence = FALSE

Move(to) ==
  /\ to \in Edges[state]
  /\ Evidenced(state, to) => evidence
  /\ state' = to
  /\ UNCHANGED evidence

Attest ==
  /\ state = "GENERATING_EVIDENCE"
  /\ evidence' = TRUE
  /\ UNCHANGED state

LifeNext == Attest \/ \E to \in State : Move(to)

LifeSpec == LifeInit /\ [][LifeNext]_lifeVars
=============================================================================
