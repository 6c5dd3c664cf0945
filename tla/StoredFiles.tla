----------------------------- MODULE StoredFiles -----------------------------
(***************************************************************************)
(* What the state store promises of its files: contents only ever grow by  *)
(* one write at a time, a write is all or nothing, and what was            *)
(* acknowledged is never lost, not even to a power loss.                   *)
(***************************************************************************)
EXTENDS Naturals, Sequences

CONSTANT File

VARIABLES
  shown,      \* shown[f]: the writes whoever opens f next will find
  promised    \* promised[f]: the writes acknowledged to their callers

Prefix(s, t) == Len(s) <= Len(t) /\ \A i \in 1 .. Len(s) : s[i] = t[i]

StoredInit == shown = [f \in File |-> << >>] /\ promised = [f \in File |-> << >>]

\* One write takes effect, acknowledged or not.
Write(f) ==
  /\ Len(shown'[f]) = Len(shown[f]) + 1 /\ Prefix(shown[f], shown'[f])
  /\ shown' = [shown EXCEPT ![f] = shown'[f]]
  /\ UNCHANGED promised

\* The caller is told.
Promise(f) == promised' = [promised EXCEPT ![f] = shown[f]] /\ UNCHANGED shown

\* What was not acknowledged may be taken back, by an I/O error or a power loss.
Lose ==
  /\ \A f \in File : Prefix(shown'[f], shown[f]) /\ Prefix(promised[f], shown'[f])
  /\ shown' = [f \in File |-> shown'[f]]
  /\ UNCHANGED promised

StoredSpec ==
  StoredInit /\ [][Lose \/ \E f \in File : Write(f) \/ Promise(f)]_<<shown, promised>>
=============================================================================
