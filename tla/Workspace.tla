------------------------------ MODULE Workspace ------------------------------
(***************************************************************************)
(* What the commands that touch git share: the two checkouts of one        *)
(* execution, the events they append to its journal and its state, under   *)
(* the execution lock (module FencedLock).  Worktree and Rollback have the *)
(* commands, GitEffects puts them together.                                *)
(*                                                                         *)
(* A command is a session that may die between any two steps; a state      *)
(* transition is one step, as StateMachine shows it can be.  Git is        *)
(* another program: what it leaves behind when it fails, is killed or runs *)
(* into the timeout of the harness is chosen among what git can leave.     *)
(***************************************************************************)
EXTENDS Naturals, Sequences, FiniteSets, SequencesExt

CONSTANTS
  MaxCommands,  \* bound: cleanups and requests of an approval
  MaxMoves,     \* bound: what the user and the clock do
  MaxFaults     \* bound: deaths of a session

ASSUME WorkspaceBoundsAreNat ==
  MaxCommands \in Nat /\ MaxMoves \in Nat /\ MaxFaults \in Nat

VARIABLES
  state,      \* of the execution
  promoted,   \* the record names a promotion commit
  journal,    \* events [kind, attempt, hook, result]
  original,   \* commits on the original branch since the base, by their maker
  work,       \* the original checkout: clean, dirty, or a revert half done
  pc,         \* where the session is that holds the lock, or idle
  moves, faults

record == <<state, promoted, journal>>
checkout == <<original, work>>

Begin == pc = "idle"
Go(place) == pc' = place

\* The command returns or raises; the lock is free.
Return == pc' = "idle"

Note(kind, attempt, hook, result) ==
  journal' = Append(journal, [kind |-> kind, attempt |-> attempt,
                              hook |-> hook, result |-> result])

\* An event that only says that something happened.
Say(kind) == Note(kind, 0, "none", "none")

Positions(kinds) == {i \in DOMAIN journal : journal[i].kind \in kinds}

MoreCommands == Cardinality(Positions({"cleanup decided", "requested"})) < MaxCommands

\* _inspect_repository: the original checkout is where the execution began.
OriginalAtBase == original = << >> /\ work = "clean"
=============================================================================
