----------------------------- MODULE GitProofs -----------------------------
(***************************************************************************)
(* Theorems about GitEffects, for every value of the bounds.               *)
(*                                                                         *)
(* What a session has done so far is visible in its place, and the state   *)
(* that it entered before its effect outlives it: that is why a rollback   *)
(* which dies is never repeated.  RollbackInv says so; it is inductive.    *)
(***************************************************************************)
EXTENDS GitEffects, SequenceTheorems, FiniteSetTheorems, WellFoundedInduction, TLAPS

Makers == {"user", "pick", "revert"}

\* Where a session of the worktree can be, and one of the rollback.
WorktreePlaces == {"idle", "load", "create", "add", "fail", "publish", "reference",
                   "agent", "inspect", "remove", "removed", "cleaned", "refused"}

AfterDecision == {"enter", "try", "revert", "prove", "hook", "reconcile", "abort",
                  "restore", "report", "settle"}

\* The states of a rollback: in no other has the harness reverted anything yet.
Rolling == {"ROLLBACK_IN_PROGRESS", "COMPENSATED", "BLOCKED_ROLLBACK"}

\* What a place says of the effects that were made.
PlaceInv ==
  /\ pc \in WorktreePlaces \cup AfterDecision
  /\ reverts \in {0, 1} /\ hookRuns \in {0, 1}
  /\ state \notin Rolling => reverts = 0 /\ hookRuns = 0
  /\ pc = "enter" => state = "COMPLETED"
  /\ pc \in AfterDecision \ {"enter"} => state = "ROLLBACK_IN_PROGRESS"
  /\ pc \in {"try", "revert"} => reverts = 0
  /\ pc \in {"try", "revert", "prove", "hook"} => hookRuns = 0
  /\ pc \in {"prove", "hook"} => reverts = 1
  /\ result # "none" => pc \in {"report", "settle"}
  /\ result = "compensated" => reverts = 1 /\ (hook # "none" => hookRuns = 1)

NoRevertIn(branchHistory) ==
  \A i \in DOMAIN branchHistory : branchHistory[i] # "revert"

\* Whatever counts as a revert was made on this branch.
RevertsMadeOn(branchHistory, base) ==
  \A i \in DOMAIN branchHistory :
    branchHistory[i] = "revert" => SubSeq(branchHistory, 1, i - 1) = base

BranchInv ==
  /\ original \in Seq(Makers) /\ previous \in Seq(Makers)
  /\ reverts = 0 => NoRevertIn(original)
  /\ NoRevertIn(previous)
  /\ pc = "hook" \/ result = "compensated" => RevertsMadeOn(original, previous)

\* The events that a compensation needs.
Decided(j) == \E i \in DOMAIN j : j[i].kind = "rollback decided"

Compensated(j, runs) ==
  \E i, k \in DOMAIN j :
    /\ i < k /\ j[i].kind = "rollback decided" /\ j[k].kind = "compensated"
    /\ j[k].hook # "none" => runs = 1

EventInv ==
  /\ \E S : journal \in Seq(S)
  /\ pc \in AfterDecision => promoted /\ Decided(journal)
  /\ pc = "settle" /\ result = "compensated" => Compensated(journal, hookRuns)
  /\ state = "COMPENSATED" => reverts = 1 /\ promoted /\ Compensated(journal, hookRuns)

RollbackInv == PlaceInv /\ BranchInv /\ EventInv
-----------------------------------------------------------------------------
(* What a longer journal and a shorter or longer branch keep.              *)

\* A branch without its last commits, or with another one, has what it had below.
LEMMA PrefixesAgree ==
  ASSUME NEW S, NEW s \in Seq(S), NEW t \in Seq(S), NEW n \in Nat,
         n <= Len(s), n <= Len(t), \A i \in 1 .. n : s[i] = t[i]
  PROVE  SubSeq(s, 1, n) = SubSeq(t, 1, n)
<1>1. \A i \in 1 .. n : s[i] \in S /\ t[i] \in S
  BY ElementOfSeq, LenProperties, SMT
<1>2. /\ SubSeq(s, 1, n) \in Seq(S) /\ Len(SubSeq(s, 1, n)) = n
      /\ \A i \in 1 .. n : SubSeq(s, 1, n)[i] = s[i]
  <2>1. Len(SubSeq(s, 1, n)) = IF 1 <= n THEN n - 1 + 1 ELSE 0
    BY <1>1, SubSeqProperties, SMT
  <2>2. SubSeq(s, 1, n) \in Seq(S)
    BY <1>1, SubSeqProperties, SMT
  <2>3. \A i \in 1 .. n - 1 + 1 : SubSeq(s, 1, n)[i] = s[1 + i - 1]
    BY <1>1, SubSeqProperties, SMT
  <2> QED
    BY <2>1, <2>2, <2>3, SMT
<1>3. /\ SubSeq(t, 1, n) \in Seq(S) /\ Len(SubSeq(t, 1, n)) = n
      /\ \A i \in 1 .. n : SubSeq(t, 1, n)[i] = t[i]
  <2>1. Len(SubSeq(t, 1, n)) = IF 1 <= n THEN n - 1 + 1 ELSE 0
    BY <1>1, SubSeqProperties, SMT
  <2>2. SubSeq(t, 1, n) \in Seq(S)
    BY <1>1, SubSeqProperties, SMT
  <2>3. \A i \in 1 .. n - 1 + 1 : SubSeq(t, 1, n)[i] = t[1 + i - 1]
    BY <1>1, SubSeqProperties, SMT
  <2> QED
    BY <2>1, <2>2, <2>3, SMT
<1> QED
  BY <1>2, <1>3, SeqEqual, SMT

\* Append and Front, position by position.
LEMMA AppendFacts ==
  ASSUME NEW S, NEW s \in Seq(S), NEW e \in S
  PROVE  /\ Append(s, e) \in Seq(S) /\ Len(Append(s, e)) = Len(s) + 1
         /\ DOMAIN Append(s, e) = 1 .. Len(s) + 1 /\ DOMAIN s = 1 .. Len(s)
         /\ Len(s) \in Nat
         /\ \A i \in 1 .. Len(s) : Append(s, e)[i] = s[i]
         /\ Append(s, e)[Len(s) + 1] = e
  BY SMT

\* What Front leaves of a sequence.
LEMMA FrontFacts ==
  ASSUME NEW S, NEW s \in Seq(S), s # << >>
  PROVE  /\ Front(s) \in Seq(S) /\ Len(Front(s)) = Len(s) - 1
         /\ DOMAIN Front(s) = 1 .. Len(s) - 1 /\ DOMAIN s = 1 .. Len(s)
         /\ Len(s) \in Nat \ {0}
         /\ \A i \in 1 .. Len(s) - 1 : Front(s)[i] = s[i]
<1>1. Len(s) \in Nat \ {0} /\ DOMAIN s = 1 .. Len(s)
  BY EmptySeq, LenProperties
<1>2. \A i \in 1 .. Len(s) - 1 : s[i] \in S
  BY <1>1, ElementOfSeq, SMT
<1>3. /\ Front(s) \in Seq(S)
      /\ Len(Front(s)) = IF 1 <= Len(s) - 1 THEN Len(s) - 1 - 1 + 1 ELSE 0
      /\ \A i \in 1 .. Len(s) - 1 - 1 + 1 : Front(s)[i] = s[1 + i - 1]
  BY <1>1, <1>2, SubSeqProperties DEF Front
<1>4. Len(Front(s)) = Len(s) - 1
  <2>1. CASE 1 <= Len(s) - 1
    BY <1>1, <1>3, <2>1, SMT
  <2>2. CASE ~ (1 <= Len(s) - 1)
    BY <1>1, <1>3, <2>2, SMT
  <2> QED
    BY <2>1, <2>2
<1>5. DOMAIN Front(s) = 1 .. Len(Front(s))
  BY <1>3, LenProperties
<1>6. \A i \in 1 .. Len(s) - 1 : Front(s)[i] = s[i]
  <2> TAKE i \in 1 .. Len(s) - 1
  <2>1. i \in 1 .. Len(s) - 1 - 1 + 1 /\ 1 + i - 1 = i
    BY <1>1
  <2>2. Front(s)[i] = s[1 + i - 1]
    BY <1>3, <2>1
  <2> QED
    BY <2>1, <2>2
<1> QED
  BY <1>1, <1>3, <1>4, <1>5, <1>6

\* A journal only grows, and so do the events that a compensation needs.
LEMMA JournalGrows ==
  ASSUME NEW j, NEW e, NEW runs, \E S : j \in Seq(S)
  PROVE  /\ \E S : Append(j, e) \in Seq(S)
         /\ Decided(j) => Decided(Append(j, e))
         /\ e.kind = "rollback decided" => Decided(Append(j, e))
         /\ Compensated(j, runs) => Compensated(Append(j, e), runs)
         /\ Decided(j) /\ e.kind = "compensated" /\ (e.hook # "none" => runs = 1) =>
              Compensated(Append(j, e), runs)
<1>1. PICK S : j \in Seq(S) /\ e \in S
  <2>1. PICK T : j \in Seq(T)
    OBVIOUS
  <2>2. j \in Seq(T \cup {e})
    BY <2>1, SeqMonotonic
  <2> QED
    BY <2>2
<1>2. /\ Append(j, e) \in Seq(S)
      /\ DOMAIN Append(j, e) = 1 .. Len(j) + 1 /\ DOMAIN j = 1 .. Len(j)
      /\ Len(j) \in Nat
      /\ \A i \in 1 .. Len(j) : Append(j, e)[i] = j[i]
      /\ Append(j, e)[Len(j) + 1] = e
  BY <1>1, AppendFacts
<1>3. \A i \in DOMAIN j : i \in DOMAIN Append(j, e) /\ Append(j, e)[i] = j[i]
                          /\ i < Len(j) + 1
  BY <1>2, SMT
<1>4. Len(j) + 1 \in DOMAIN Append(j, e)
  BY <1>2, SMT
<1> QED
  BY <1>2, <1>3, <1>4, Zenon DEF Decided, Compensated

\* A commit of somebody else, or a commit less, makes no revert.
LEMMA BranchMoves ==
  ASSUME NEW s \in Seq(Makers), NEW base, NEW e \in Makers \ {"revert"}
  PROVE  /\ Append(s, e) \in Seq(Makers)
         /\ NoRevertIn(s) => NoRevertIn(Append(s, e))
         /\ RevertsMadeOn(s, base) => RevertsMadeOn(Append(s, e), base)
         /\ s # << >> => Front(s) \in Seq(Makers)
         /\ s # << >> /\ NoRevertIn(s) => NoRevertIn(Front(s))
         /\ s # << >> /\ RevertsMadeOn(s, base) => RevertsMadeOn(Front(s), base)
<1>1. /\ Append(s, e) \in Seq(Makers) /\ Len(Append(s, e)) = Len(s) + 1
      /\ DOMAIN Append(s, e) = 1 .. Len(s) + 1 /\ DOMAIN s = 1 .. Len(s)
      /\ Len(s) \in Nat
      /\ \A i \in 1 .. Len(s) : Append(s, e)[i] = s[i]
      /\ Append(s, e)[Len(s) + 1] = e
  BY AppendFacts
<1>2. NoRevertIn(s) => NoRevertIn(Append(s, e))
  BY <1>1, SMT DEF NoRevertIn
<1>3. ASSUME RevertsMadeOn(s, base) PROVE RevertsMadeOn(Append(s, e), base)
  <2> SUFFICES ASSUME NEW i \in DOMAIN Append(s, e), Append(s, e)[i] = "revert"
               PROVE  SubSeq(Append(s, e), 1, i - 1) = base
    BY DEF RevertsMadeOn
  <2>1. i \in 1 .. Len(s) /\ s[i] = "revert"
    BY <1>1, SMT
  <2>2. SubSeq(s, 1, i - 1) = base
    BY <1>1, <1>3, <2>1 DEF RevertsMadeOn
  <2>3. /\ i - 1 \in Nat /\ i - 1 <= Len(s) /\ i - 1 <= Len(Append(s, e))
        /\ \A k \in 1 .. i - 1 : Append(s, e)[k] = s[k]
    BY <1>1, <2>1, SMT
  <2>4. SubSeq(Append(s, e), 1, i - 1) = SubSeq(s, 1, i - 1)
    BY <1>1, <2>3, PrefixesAgree
  <2> QED
    BY <2>2, <2>4
<1>4. ASSUME s # << >>
      PROVE  /\ Front(s) \in Seq(Makers)
             /\ NoRevertIn(s) => NoRevertIn(Front(s))
             /\ RevertsMadeOn(s, base) => RevertsMadeOn(Front(s), base)
  <2>1. /\ Front(s) \in Seq(Makers) /\ Len(Front(s)) = Len(s) - 1
        /\ DOMAIN Front(s) = 1 .. Len(s) - 1
        /\ Len(s) \in Nat \ {0}
        /\ \A i \in 1 .. Len(s) - 1 : Front(s)[i] = s[i]
    BY <1>4, FrontFacts
  <2> HIDE DEF Front
  <2>2. NoRevertIn(s) => NoRevertIn(Front(s))
    BY <1>1, <2>1, SMT DEF NoRevertIn
  <2>3. ASSUME RevertsMadeOn(s, base), NEW i \in DOMAIN Front(s), Front(s)[i] = "revert"
        PROVE  SubSeq(Front(s), 1, i - 1) = base
    <3>1. i \in DOMAIN s /\ s[i] = "revert"
      BY <1>1, <2>1, <2>3, SMT
    <3>2. SubSeq(s, 1, i - 1) = base
      BY <2>3, <3>1 DEF RevertsMadeOn
    <3>3. /\ i - 1 \in Nat /\ i - 1 <= Len(s) /\ i - 1 <= Len(Front(s))
          /\ \A k \in 1 .. i - 1 : Front(s)[k] = s[k]
      BY <1>1, <2>1, <2>3, SMT
    <3>4. SubSeq(Front(s), 1, i - 1) = SubSeq(s, 1, i - 1)
      BY <2>1, <3>3, PrefixesAgree
    <3> QED
      BY <3>2, <3>4
  <2> QED
    BY <2>1, <2>2, <2>3 DEF RevertsMadeOn
<1> QED
  BY <1>1, <1>2, <1>3, <1>4

\* If all but the last commit is a branch without a revert, the last one is all that
\* can be one.
LEMMA OneCommitOn ==
  ASSUME NEW s \in Seq(Makers), s # << >>, NoRevertIn(Front(s))
  PROVE  RevertsMadeOn(s, Front(s))
<1> SUFFICES ASSUME NEW i \in DOMAIN s, s[i] = "revert"
             PROVE  SubSeq(s, 1, i - 1) = Front(s)
  BY DEF RevertsMadeOn
<1>1. /\ DOMAIN Front(s) = 1 .. Len(s) - 1 /\ DOMAIN s = 1 .. Len(s)
      /\ Len(s) \in Nat \ {0}
      /\ \A k \in 1 .. Len(s) - 1 : Front(s)[k] = s[k]
  BY FrontFacts
<1>2. i \notin 1 .. Len(s) - 1
  BY <1>1 DEF NoRevertIn
<1>3. i = Len(s)
  BY <1>1, <1>2, SMT
<1> QED
  BY <1>3 DEF Front

-----------------------------------------------------------------------------
(* Sessions of the worktree, and the approval of the hook.                 *)

\* All they do to what the rollback relies on: an execution that has not completed may
\* come to its end, and events are appended.
OutsideRollback ==
  /\ UNCHANGED <<previous, result, effects>>
  /\ pc \in WorktreePlaces /\ pc' \in WorktreePlaces
  /\ \/ UNCHANGED <<state, promoted, original>>
     \/ /\ state \in {"EXECUTING", "VERIFYING"} /\ state' \notin Rolling
        /\ original' \in {original, <<"pick">>}
  /\ journal' = journal \/ \E e : journal' = Append(journal, e)

\* The sessions of a worktree touch a rollback's state nowhere but where
\* OutsideRollback says (module Worktree).
LEMMA WorktreeStepsAreFramed == WorktreeSteps => OutsideRollback
<1> SUFFICES ASSUME WorktreeSteps PROVE OutsideRollback
  OBVIOUS
<1> USE DEF OutsideRollback, WorktreePlaces, Rolling, Begin, Go, Return, record, checkout,
            worktree, agent, rollback
<1>1. CASE StartNode
  BY <1>1 DEF WorktreeSteps, StartNode
<1>2. CASE WorktreeSession
  <2>1. CASE LoadWorktree
    BY <2>1 DEF WorktreeSteps, LoadWorktree, NodeFails
  <2>2. CASE CreateWorktree
    BY <2>2 DEF WorktreeSteps, CreateWorktree, NodeFails, Reference
  <2>3. CASE AddWorktree
    BY <2>3 DEF WorktreeSteps, AddWorktree, NodeFails
  <2>4. CASE RecordFailure
    BY <2>4 DEF WorktreeSteps, RecordFailure, NodeFails
  <2>5. CASE PublishActive
    BY <2>5 DEF WorktreeSteps, PublishActive, NodeFails
  <2>6. CASE AgentWorks
    BY <2>6 DEF WorktreeSteps, AgentWorks
  <2>7. CASE PublishReference
    BY <2>7 DEF WorktreeSteps, PublishReference
  <2>8. CASE InspectWorktree
    BY <2>8 DEF WorktreeSteps, InspectWorktree
  <2>9. CASE RemoveWorktree
    BY <2>9 DEF WorktreeSteps, RemoveWorktree
  <2>10. CASE RecordRemoval
    BY <2>10 DEF WorktreeSteps, RecordRemoval
  <2>11. CASE ReportCleanup
    BY <2>11 DEF WorktreeSteps, ReportCleanup, Say, Note
  <2> QED
    BY <1>2, <2>1, <2>2, <2>3, <2>4, <2>5, <2>6, <2>7, <2>8, <2>9, <2>10, <2>11
    DEF WorktreeSession
<1>3. CASE Traverse
  BY <1>3 DEF WorktreeSteps, Traverse
<1>4. CASE CommitCandidate
  BY <1>4 DEF WorktreeSteps, CommitCandidate
<1>5. CASE Finish
  BY <1>5 DEF WorktreeSteps, Finish
<1>6. CASE Cancel
  BY <1>6 DEF WorktreeSteps, Cancel
<1>7. CASE DecideCleanup
  BY <1>7 DEF WorktreeSteps, DecideCleanup, Say, Note
<1> QED
  BY <1>1, <1>2, <1>3, <1>4, <1>5, <1>6, <1>7 DEF WorktreeSteps
\* A request or a decision of the hook's approval appends an event (module Rollback).
LEMMA ApprovalStepsAreOutside ==
  (\E same \in BOOLEAN : RequestHookApproval(same)) \/ ApproveHook => OutsideRollback
<1> USE DEF OutsideRollback, WorktreePlaces, Begin, checkout, effects, Decide, Note
<1>1. ASSUME NEW same \in BOOLEAN, RequestHookApproval(same) PROVE OutsideRollback
  BY <1>1 DEF RequestHookApproval
<1>2. ASSUME ApproveHook PROVE OutsideRollback
  BY <1>2 DEF ApproveHook, rollback
<1> QED
  BY <1>1, <1>2

-----------------------------------------------------------------------------
(* RollbackInv is inductive.                                               *)

\* The first state has no rollback.
LEMMA RollbackInvInit == Init => RollbackInv
<1> SUFFICES ASSUME Init PROVE RollbackInv
  OBVIOUS
<1>1. PlaceInv
  BY DEF Init, PlaceInv, Rolling, AfterDecision, WorktreePlaces
<1>2. BranchInv
  BY DEF Init, BranchInv, NoRevertIn
<1>3. EventInv
  <2>1. \E S : journal \in Seq(S)
    BY EmptySeq DEF Init
  <2> QED
    BY <2>1 DEF Init, EventInv, AfterDecision
<1> QED
  BY <1>1, <1>2, <1>3 DEF RollbackInv

\* The worktree's sessions and the approval's commands, by what OutsideRollback says of them.
LEMMA OutsideKeeps == RollbackInv /\ OutsideRollback => RollbackInv'
<1> SUFFICES ASSUME PlaceInv, BranchInv, EventInv, OutsideRollback PROVE RollbackInv'
  BY DEF RollbackInv
<1> USE DEF OutsideRollback, effects, Rolling
<1>1. PlaceInv'
  BY DEF PlaceInv, AfterDecision, WorktreePlaces
<1>2. BranchInv'
  <2>1. <<"pick">> \in Seq(Makers) /\ NoRevertIn(<<"pick">>)
    BY DEF NoRevertIn, Makers
  <2>2. pc \notin AfterDecision /\ pc' \notin AfterDecision
    BY DEF AfterDecision, WorktreePlaces
  <2>3. result' = "none" /\ pc' # "hook"
    BY <2>2 DEF PlaceInv, AfterDecision
  <2> QED
    BY <2>1, <2>3 DEF BranchInv
<1>3. EventInv'
  <2>1. pc' \notin AfterDecision /\ pc' # "settle"
    BY DEF AfterDecision, WorktreePlaces
  <2>2. /\ \E S : journal' \in Seq(S)
        /\ Compensated(journal, hookRuns) => Compensated(journal', hookRuns)
    <3>1. \E S : journal \in Seq(S)
      BY DEF EventInv
    <3>2. CASE journal' = journal
      BY <3>1, <3>2, Zenon
    <3>3. ASSUME NEW e, journal' = Append(journal, e)
          PROVE  /\ \E S : journal' \in Seq(S)
                 /\ Compensated(journal, hookRuns) => Compensated(journal', hookRuns)
      BY <3>1, <3>3, JournalGrows, Zenon
    <3> QED
      BY <3>2, <3>3, Zenon
  <2>3. state' = "COMPENSATED" => state = "COMPENSATED" /\ promoted' = promoted
    OBVIOUS
  <2> QED
    BY <2>1, <2>2, <2>3 DEF EventInv
<1> QED
  BY <1>1, <1>2, <1>3 DEF RollbackInv

\* Between the decision and the settlement: what each step of the session, and the
\* refusal to take one up, does to the inductive invariant.
LEMMA RollbackStepsKeep ==
  RollbackInv /\ (RollbackAgain \/ DecideRollback \/ RollbackSession) => RollbackInv'
<1> SUFFICES ASSUME PlaceInv, BranchInv, EventInv,
                    RollbackAgain \/ DecideRollback \/ RollbackSession
             PROVE  RollbackInv'
  BY DEF RollbackInv
<1> USE DEF AfterDecision, WorktreePlaces, Rolling, checkout, record, rollback, effects,
            Begin, Go, Return, Report, Forget, PlaceInv
<1>1. CASE RollbackAgain
  BY <1>1 DEF RollbackAgain, RollbackInv, BranchInv, EventInv
<1>2. CASE DecideRollback
  <2>1. PlaceInv' /\ BranchInv'
    BY <1>2 DEF DecideRollback, BranchInv
  <2>2. EventInv'
    <3>1. CASE UNCHANGED <<journal, pc>>
      BY <1>2, <3>1 DEF DecideRollback, EventInv
    <3>2. CASE Decide("expired") /\ UNCHANGED pc
      BY <1>2, <3>2, JournalGrows DEF DecideRollback, Decide, Note, EventInv
    <3>3. CASE promoted /\ Say("rollback decided") /\ pc' = "enter"
      BY <1>2, <3>3, JournalGrows DEF DecideRollback, Say, Note, EventInv
    <3> QED
      BY <1>2, <3>1, <3>2, <3>3 DEF DecideRollback
  <2> QED
    BY <2>1, <2>2 DEF RollbackInv
<1>3. CASE EnterRollback
  BY <1>3 DEF EnterRollback, RollbackInv, BranchInv, EventInv
<1>4. CASE TryRollback
  BY <1>4 DEF TryRollback, RollbackInv, BranchInv, EventInv
<1>5. CASE Revert
  <2>1. \/ original' = Append(original, "revert") /\ reverts' = 1
        \/ UNCHANGED <<original, reverts>>
    BY <1>5 DEF Revert, UnfinishedRevert, Landed
  <2>2. original' \in Seq(Makers)
    BY <2>1, AppendFacts DEF BranchInv, Makers
  <2>3. PlaceInv'
    BY <1>5, <2>1 DEF Revert, UnfinishedRevert, Landed
  <2>4. BranchInv'
    BY <1>5, <2>1, <2>2 DEF Revert, BranchInv
  <2>5. EventInv'
    BY <1>5 DEF Revert, EventInv
  <2> QED
    BY <2>3, <2>4, <2>5 DEF RollbackInv
<1>6. CASE ProveRevert
  <2>1. PlaceInv' /\ EventInv'
    BY <1>6 DEF ProveRevert, EventInv
  <2>2. BranchInv'
    <3>1. Proven => RevertsMadeOn(original, previous)
      BY OneCommitOn DEF Proven, BranchInv
    <3> QED
      BY <1>6, <3>1 DEF ProveRevert, BranchInv
  <2> QED
    BY <2>1, <2>2 DEF RollbackInv
<1>7. CASE RunHook
  BY <1>7 DEF RunHook, RollbackInv, BranchInv, EventInv
<1>8. CASE ReconcileEffect
  BY <1>8 DEF ReconcileEffect, RollbackInv, BranchInv, EventInv
<1>9. CASE AbortRevert
  BY <1>9 DEF AbortRevert, RollbackInv, BranchInv, EventInv
<1>10. CASE ObserveRestored
  BY <1>10 DEF ObserveRestored, RollbackInv, BranchInv, EventInv
<1>11. CASE ReportRollback
  <2>1. PlaceInv' /\ BranchInv'
    BY <1>11 DEF ReportRollback, BranchInv
  <2>2. EventInv'
    BY <1>11, JournalGrows DEF ReportRollback, Note, EventInv
  <2> QED
    BY <2>1, <2>2 DEF RollbackInv
<1>12. CASE SettleRollback
  BY <1>12 DEF SettleRollback, RollbackInv, BranchInv, EventInv, NoRevertIn, Makers
<1> QED
  BY <1>1, <1>2, <1>3, <1>4, <1>5, <1>6, <1>7, <1>8, <1>9, <1>10, <1>11, <1>12
  DEF RollbackSession

\* A death ends what the session knew; git may be done with its revert all the same.
LEMMA CrashKeeps == RollbackInv /\ Crash => RollbackInv'
<1> SUFFICES ASSUME PlaceInv, BranchInv, EventInv, Crash PROVE RollbackInv'
  BY DEF RollbackInv
<1> USE DEF Crash, Return, Forget, record, effects, AfterDecision, WorktreePlaces, Rolling
<1>1. \/ UNCHANGED <<original, reverts>>
      \/ /\ pc = "revert"
         /\ original' = Append(original, "revert") /\ reverts' = reverts + 1
  BY DEF DiesInRevert, UnfinishedRevert, Landed
<1>2. original' \in Seq(Makers)
  BY <1>1, AppendFacts DEF BranchInv, Makers
<1>3. PlaceInv'
  BY <1>1 DEF PlaceInv
<1>4. BranchInv'
  BY <1>1, <1>2 DEF PlaceInv, BranchInv, NoRevertIn, Makers
<1>5. EventInv'
  BY <1>1 DEF PlaceInv, EventInv
<1> QED
  BY <1>3, <1>4, <1>5 DEF RollbackInv

\* The user adds and drops commits of the original branch while a session looks at it.
LEMMA UserKeeps == RollbackInv /\ (Move \/ Clean) => RollbackInv'
<1> SUFFICES ASSUME PlaceInv, BranchInv, EventInv, Move \/ Clean PROVE RollbackInv'
  BY DEF RollbackInv
<1> USE DEF Move, MoveOriginal, Clean, checkout, record, effects, rollback
<1>1. UNCHANGED <<state, promoted, journal, pc, previous, result, reverts, hookRuns>>
  OBVIOUS
<1>2. PlaceInv'
  BY <1>1 DEF PlaceInv, AfterDecision, WorktreePlaces
<1>3. BranchInv'
  <2>1. \/ original' = original \/ original' = Append(original, "user")
        \/ original # << >> /\ original' = Front(original)
    OBVIOUS
  <2>2. "user" \in Makers \ {"revert"}
    BY DEF Makers
  <2>3. /\ original' \in Seq(Makers)
        /\ NoRevertIn(original) => NoRevertIn(original')
        /\ RevertsMadeOn(original, previous) => RevertsMadeOn(original', previous)
    BY <2>1, <2>2, BranchMoves, Zenon DEF BranchInv
  <2> QED
    BY <1>1, <2>3, Zenon DEF BranchInv
<1>4. EventInv'
  BY <1>1 DEF EventInv
<1> QED
  BY <1>2, <1>3, <1>4 DEF RollbackInv

\* The invariant is inductive: the steps of the worktree, of the rollback and of the user.
LEMMA RollbackInvStep == RollbackInv /\ [Next]_vars => RollbackInv'
<1> SUFFICES ASSUME RollbackInv, [Next]_vars PROVE RollbackInv'
  OBVIOUS
<1>1. CASE WorktreeSteps
  BY <1>1, WorktreeStepsAreFramed, OutsideKeeps
<1>2. CASE RollbackSteps
  BY <1>2, ApprovalStepsAreOutside, OutsideKeeps, RollbackStepsKeep DEF RollbackSteps
<1>3. CASE Crash
  BY <1>3, CrashKeeps
<1>4. CASE Move \/ Clean
  BY <1>4, UserKeeps
<1>5. CASE UNCHANGED vars
  BY <1>5 DEF vars, record, checkout, rollback, effects, RollbackInv, PlaceInv, BranchInv,
              EventInv
<1> QED
  BY <1>1, <1>2, <1>3, <1>4, <1>5 DEF Next
-----------------------------------------------------------------------------
(* The history of the hook's approval.                                     *)

ApprovalKinds == {"requested", "approved", "expired", "invalidated"}
ApprovalsIn(log) == {i \in DOMAIN log : log[i].kind \in ApprovalKinds}

NoApproval == [kind |-> "none", attempt |-> 0, hook |-> "none"]

\* The last event of the history below place n, as Before has it.
LastOf(log, earlier) ==
  IF earlier = {} THEN NoApproval
  ELSE log[CHOOSE j \in earlier : \A k \in earlier : k <= j]
LastBelow(log, n) == LastOf(log, {j \in ApprovalsIn(log) : j < n})

IsLastBelow(log, n, m) ==
  /\ m \in ApprovalsIn(log) /\ m < n
  /\ \A k \in ApprovalsIn(log) : k < n => k <= m

\* A bounded set of positions has a last one.
LEMMA GreatestPosition ==
  ASSUME NEW S \in SUBSET Nat, NEW n \in Nat, \A s \in S : s <= n, S # {}
  PROVE  \E m \in S : \A k \in S : k <= m
<1> DEFINE T == {n - s : s \in S}
<1>1. T \in SUBSET Nat /\ T # {}
  <2>1. \A s \in S : n - s \in Nat
    <3>1. \A s \in S : s \in Nat /\ s <= n
      OBVIOUS
    <3> QED
      BY <3>1
  <2> QED
    BY <2>1
<1>2. PICK x \in T : \A y \in T : ~ (<<y, x>> \in OpToRel(<, Nat))
  BY <1>1, NatLessThanWellFounded, WFMin
<1>3. \A y \in T : ~ (y < x)
  BY <1>1, <1>2 DEF OpToRel
<1>4. PICK m \in S : x = n - m
  OBVIOUS
<1>5. ASSUME NEW k \in S PROVE k <= m
  <2>1. n - k \in T /\ ~ (n - k < n - m)
    BY <1>3, <1>4
  <2> QED
    BY <2>1
<1> QED
  BY <1>5

\* LastBelow is what its name says.
LEMMA LastBelowIs ==
  ASSUME NEW S, NEW log \in Seq(S), NEW n \in Nat
  PROVE  \/ (\A k \in ApprovalsIn(log) : ~ (k < n)) /\ LastBelow(log, n) = NoApproval
         \/ \E m : IsLastBelow(log, n, m) /\ LastBelow(log, n) = log[m]
<1> DEFINE earlier == {j \in ApprovalsIn(log) : j < n}
<1>1. CASE earlier = {}
  <2>1. LastBelow(log, n) = NoApproval
    BY <1>1 DEF LastBelow, LastOf
  <2> QED
    BY <1>1, <2>1
<1>2. CASE earlier # {}
  <2> DEFINE m == CHOOSE j \in earlier : \A k \in earlier : k <= j
  <2>1. DOMAIN log = 1 .. Len(log) /\ Len(log) \in Nat
    OBVIOUS
  <2>2. earlier \in SUBSET Nat /\ \A j \in earlier : j <= n
    BY <2>1 DEF ApprovalsIn
  <2>3. \E j \in earlier : \A k \in earlier : k <= j
    <3> HIDE DEF earlier
    <3> QED
      BY <1>2, <2>2, GreatestPosition
  <2>4. m \in earlier /\ \A k \in earlier : k <= m
    <3> HIDE DEF earlier
    <3> QED
      BY <2>3
  <2>5. LastBelow(log, n) = log[m]
    BY <1>2 DEF LastBelow, LastOf
  <2> HIDE DEF m
  <2> QED
    BY <2>4, <2>5 DEF IsLastBelow
<1> QED
  BY <1>1, <1>2

\* The positions of a journal that grew by one event.
LEMMA ApprovalsGrow ==
  ASSUME NEW S, NEW log \in Seq(S), NEW e \in S
  PROVE  /\ ApprovalsIn(Append(log, e)) =
              ApprovalsIn(log) \cup (IF e.kind \in ApprovalKinds THEN {Len(log) + 1} ELSE {})
         /\ e.kind \notin ApprovalKinds => ApprovalsIn(Append(log, e)) = ApprovalsIn(log)
         /\ \A i \in ApprovalsIn(Append(log, e)) :
              i < Len(log) + 1 => i \in ApprovalsIn(log)
         /\ \A i \in ApprovalsIn(log) :
              i \in 1 .. Len(log) /\ Append(log, e)[i] = log[i]
         /\ Append(log, e)[Len(log) + 1] = e /\ Len(log) \in Nat
<1>1. /\ DOMAIN Append(log, e) = 1 .. Len(log) + 1 /\ DOMAIN log = 1 .. Len(log)
      /\ Len(log) \in Nat
      /\ \A i \in 1 .. Len(log) : Append(log, e)[i] = log[i]
      /\ Append(log, e)[Len(log) + 1] = e
  BY AppendFacts
<1>2. 1 .. Len(log) + 1 = (1 .. Len(log)) \cup {Len(log) + 1}
  BY <1>1
<1>3. ASSUME NEW i
      PROVE  i \in ApprovalsIn(Append(log, e)) <=>
               \/ i \in ApprovalsIn(log)
               \/ e.kind \in ApprovalKinds /\ i = Len(log) + 1
  <2>1. CASE i \in 1 .. Len(log)
    BY <1>1, <2>1, Len(log) + 1 \notin 1 .. Len(log) DEF ApprovalsIn
  <2>2. CASE i = Len(log) + 1
    BY <1>1, <2>2, Len(log) + 1 \notin 1 .. Len(log) DEF ApprovalsIn
  <2>3. CASE i \notin 1 .. Len(log) + 1
    BY <1>1, <1>2, <2>3 DEF ApprovalsIn
  <2> QED
    BY <1>2, <2>1, <2>2, <2>3
<1>4. \A i \in ApprovalsIn(log) : i \in 1 .. Len(log)
  BY <1>1 DEF ApprovalsIn
<1>5. \A i \in ApprovalsIn(Append(log, e)) :
        i < Len(log) + 1 => i \in ApprovalsIn(log)
  BY <1>1, <1>3
<1>6. e.kind \notin ApprovalKinds => ApprovalsIn(Append(log, e)) = ApprovalsIn(log)
  BY <1>3
<1>7. ApprovalsIn(Append(log, e)) =
        ApprovalsIn(log) \cup (IF e.kind \in ApprovalKinds THEN {Len(log) + 1} ELSE {})
  BY <1>3
<1> QED
  BY <1>1, <1>4, <1>5, <1>6, <1>7

\* What is below a place of the journal stays there.
LEMMA LastBelowStays ==
  ASSUME NEW S, NEW log \in Seq(S), NEW e \in S, NEW n \in 1 .. Len(log) + 1
  PROVE  LastBelow(Append(log, e), n) = LastBelow(log, n)
<1>1. Append(log, e) \in Seq(S) /\ n \in Nat
  OBVIOUS
<1>2. \A k : k \in ApprovalsIn(Append(log, e)) /\ k < n <=> k \in ApprovalsIn(log) /\ k < n
  BY ApprovalsGrow
<1>3. \A m : IsLastBelow(Append(log, e), n, m) <=> IsLastBelow(log, n, m)
  BY <1>2, Zenon DEF IsLastBelow
<1>4. \A m, k : IsLastBelow(log, n, m) /\ IsLastBelow(log, n, k) => m = k
  <2>1. \A k \in ApprovalsIn(log) : k \in Nat
    BY ApprovalsGrow
  <2> QED
    BY <2>1 DEF IsLastBelow
<1>5. \A m : IsLastBelow(log, n, m) => Append(log, e)[m] = log[m]
  BY ApprovalsGrow DEF IsLastBelow
<1>6. \/ (\A k \in ApprovalsIn(log) : ~ (k < n)) /\ LastBelow(log, n) = NoApproval
      \/ \E m : IsLastBelow(log, n, m) /\ LastBelow(log, n) = log[m]
  BY <1>1, LastBelowIs
<1>7. \/ /\ \A k \in ApprovalsIn(Append(log, e)) : ~ (k < n)
         /\ LastBelow(Append(log, e), n) = NoApproval
      \/ \E m : /\ IsLastBelow(Append(log, e), n, m)
                /\ LastBelow(Append(log, e), n) = Append(log, e)[m]
  BY <1>1, LastBelowIs
<1>8. ASSUME NEW m, IsLastBelow(log, n, m), LastBelow(log, n) = log[m]
      PROVE  LastBelow(Append(log, e), n) = LastBelow(log, n)
  <2>1. ~ \A k \in ApprovalsIn(Append(log, e)) : ~ (k < n)
    BY <1>2, <1>8 DEF IsLastBelow
  <2>2. PICK k : /\ IsLastBelow(Append(log, e), n, k)
                 /\ LastBelow(Append(log, e), n) = Append(log, e)[k]
    BY <1>7, <2>1
  <2>3. k = m
    BY <1>3, <1>4, <1>8, <2>2
  <2> QED
    BY <1>5, <1>8, <2>2, <2>3
<1>9. ASSUME \A k \in ApprovalsIn(log) : ~ (k < n), LastBelow(log, n) = NoApproval
      PROVE  LastBelow(Append(log, e), n) = LastBelow(log, n)
  <2>1. ~ \E m : IsLastBelow(Append(log, e), n, m)
    BY <1>2, <1>9 DEF IsLastBelow
  <2> QED
    BY <1>7, <1>9, <2>1
<1> QED
  BY <1>6, <1>8, <1>9

\* What Follows asks of event i, if last is the one before it.
Fits(log, i, last) ==
  /\ log[i].kind = "requested" =>
       /\ \A j \in ApprovalsIn(log) : j < i => log[j].attempt # log[i].attempt
       /\ last.kind \in {"none", "expired", "invalidated"}
  /\ log[i].kind = "approved" =>
       last.kind = "requested" /\ last.attempt = log[i].attempt
  /\ log[i].kind \notin {"requested", "approved"} =>
       last.kind \in {"requested", "approved"} /\ last.attempt = log[i].attempt

Replays(log) == \A i \in ApprovalsIn(log) : Fits(log, i, LastBelow(log, i))

\* What every command may append: an event that is no approval, or one that fits.
MayFollow(log, e) ==
  e.kind \in ApprovalKinds =>
    /\ e.kind = "requested" =>
         /\ \A j \in ApprovalsIn(log) : log[j].attempt # e.attempt
         /\ LastBelow(log, Len(log) + 1).kind \in {"none", "expired", "invalidated"}
    /\ e.kind = "approved" => LastBelow(log, Len(log) + 1).kind = "requested"
    /\ e.kind \in {"expired", "invalidated"} =>
         LastBelow(log, Len(log) + 1).kind \in {"requested", "approved"}
    /\ e.kind # "requested" => LastBelow(log, Len(log) + 1).attempt = e.attempt

\* A history that replays goes on to replay with an event that may follow.
LEMMA ReplayGrows ==
  ASSUME NEW S, NEW log \in Seq(S), NEW e \in S, Replays(log), MayFollow(log, e)
  PROVE  Replays(Append(log, e))
<1> SUFFICES ASSUME NEW i \in ApprovalsIn(Append(log, e))
             PROVE  Fits(Append(log, e), i, LastBelow(Append(log, e), i))
  BY DEF Replays
<1>1. CASE i \in ApprovalsIn(log)
  <2>1. i \in 1 .. Len(log) /\ Len(log) \in Nat
    BY <1>1, ApprovalsGrow
  <2>2. LastBelow(Append(log, e), i) = LastBelow(log, i)
    BY <2>1, LastBelowStays
  <2>3. /\ Append(log, e)[i] = log[i]
        /\ \A j \in ApprovalsIn(Append(log, e)) :
             j < i => j \in ApprovalsIn(log) /\ Append(log, e)[j] = log[j]
    BY <1>1, <2>1, ApprovalsGrow
  <2>4. Fits(log, i, LastBelow(log, i))
    BY <1>1 DEF Replays
  <2> QED
    BY <2>2, <2>3, <2>4 DEF Fits
<1>2. CASE i \notin ApprovalsIn(log)
  <2>1. i = Len(log) + 1 /\ Append(log, e)[i] = e /\ e.kind \in ApprovalKinds
    BY <1>2, ApprovalsGrow
  <2>2. LastBelow(Append(log, e), i) = LastBelow(log, Len(log) + 1)
    BY <2>1, ApprovalsGrow, LastBelowStays
  <2>3. \A j \in ApprovalsIn(Append(log, e)) :
          j < i => j \in ApprovalsIn(log) /\ Append(log, e)[j] = log[j]
    <3>1. /\ \A j \in ApprovalsIn(Append(log, e)) :
               j < Len(log) + 1 => j \in ApprovalsIn(log)
          /\ \A j \in ApprovalsIn(log) : Append(log, e)[j] = log[j]
      BY ApprovalsGrow
    <3> QED
      BY <2>1, <3>1, Zenon
  <2> QED
    BY <2>1, <2>2, <2>3 DEF Fits, MayFollow, ApprovalKinds
<1> QED
  BY <1>1, <1>2

\* The model's operators are these, of its journal.
LEMMA ModelOfHistory ==
  /\ Approvals = ApprovalsIn(journal)
  /\ \A i : Before(i) = LastBelow(journal, i)
  /\ Latest = LastBelow(journal, Len(journal) + 1)
<1>1. Approvals = ApprovalsIn(journal)
  BY DEF Approvals, Positions, ApprovalsIn, ApprovalKinds
<1>2. \A i : Before(i) = LastBelow(journal, i)
  BY DEF Before, LastBelow, LastOf, NoApproval, Approvals, Positions, ApprovalsIn, ApprovalKinds
<1> QED
  BY <1>1, <1>2 DEF Latest

\* On the journal this is what every command checks of the approvals.
LEMMA ReplaysIsReplay ==
  ASSUME TypeOK
  PROVE  ApprovalsReplay <=> Replays(journal)
<1>1. \A i \in ApprovalsIn(journal) : journal[i].kind \in ApprovalKinds
  BY DEF ApprovalsIn
<1>2. \A i \in ApprovalsIn(journal) :
        Follows(i, LastBelow(journal, i)) <=> Fits(journal, i, LastBelow(journal, i))
  BY ModelOfHistory DEF Follows, Fits
<1> QED
  BY <1>2, ModelOfHistory DEF ApprovalsReplay, Replays

\* Every attempt of the history was requested.
Requested(log) == {i \in DOMAIN log : log[i].kind = "requested"}
AttemptsIn(log) ==
  \A i \in ApprovalsIn(log) : log[i].attempt \in 1 .. Cardinality(Requested(log))

\* Attempts are numbered by the requests before them, also with one event more.
LEMMA AttemptsGrow ==
  ASSUME NEW S, NEW log \in Seq(S), NEW e \in S, AttemptsIn(log),
         e.kind = "requested" => e.attempt = Cardinality(Requested(log)) + 1,
         e.kind \in ApprovalKinds \ {"requested"} =>
           \E i \in ApprovalsIn(log) : log[i].attempt = e.attempt
  PROVE  /\ AttemptsIn(Append(log, e))
         /\ Cardinality(Requested(log)) \in Nat
<1>1. /\ DOMAIN Append(log, e) = 1 .. Len(log) + 1 /\ DOMAIN log = 1 .. Len(log)
      /\ Len(log) \in Nat
      /\ \A i \in 1 .. Len(log) : Append(log, e)[i] = log[i]
      /\ Append(log, e)[Len(log) + 1] = e
  BY AppendFacts
<1>2. IsFiniteSet(Requested(log)) /\ Cardinality(Requested(log)) \in Nat
  <2>1. IsFiniteSet(1 .. Len(log)) /\ Requested(log) \in SUBSET (1 .. Len(log))
    BY <1>1, FS_Interval DEF Requested
  <2> QED
    BY <2>1, FS_Subset, FS_CardinalityType
<1>3. Requested(Append(log, e)) =
        Requested(log) \cup (IF e.kind = "requested" THEN {Len(log) + 1} ELSE {})
  BY <1>1 DEF Requested
<1>4. Len(log) + 1 \notin Requested(log)
  BY <1>1 DEF Requested
<1>5. Cardinality(Requested(Append(log, e))) =
        Cardinality(Requested(log)) + IF e.kind = "requested" THEN 1 ELSE 0
  <2>1. CASE e.kind = "requested"
    <3>1. Requested(Append(log, e)) = Requested(log) \cup {Len(log) + 1}
      BY <1>3, <2>1
    <3> QED
      BY <1>2, <1>4, <2>1, <3>1, FS_AddElement
  <2>2. CASE e.kind # "requested"
    <3>1. Requested(Append(log, e)) = Requested(log)
      BY <1>3, <2>2
    <3> QED
      BY <1>2, <2>2, <3>1
  <2> QED
    BY <2>1, <2>2
<1>6. ASSUME NEW i \in ApprovalsIn(Append(log, e))
      PROVE  Append(log, e)[i].attempt \in 1 .. Cardinality(Requested(Append(log, e)))
  <2>1. CASE i \in ApprovalsIn(log)
    BY <1>2, <1>5, <2>1, ApprovalsGrow DEF AttemptsIn
  <2>2. CASE i \notin ApprovalsIn(log)
    <3>1. Append(log, e)[i] = e /\ e.kind \in ApprovalKinds
      BY <2>2, ApprovalsGrow
    <3>2. CASE e.kind = "requested"
      BY <1>2, <1>5, <3>1, <3>2
    <3>3. CASE e.kind # "requested"
      BY <1>2, <1>5, <3>1, <3>3 DEF AttemptsIn
    <3> QED
      BY <3>2, <3>3
  <2> QED
    BY <2>1, <2>2
<1> QED
  BY <1>2, <1>6 DEF AttemptsIn

-----------------------------------------------------------------------------
(* Types.                                                                  *)

\* An event that is noted is one of the journal's.
LEMMA NotesEvent ==
  ASSUME TypeOK, NEW kind \in Kinds, NEW attempt \in Nat, NEW h \in Hooks, NEW r \in Results,
         Note(kind, attempt, h, r)
  PROVE  journal' \in Seq(Event)
<1> DEFINE e == [kind |-> kind, attempt |-> attempt, hook |-> h, result |-> r]
<1>1. e \in Event /\ journal \in Seq(Event)
  BY DEF Event, TypeOK
<1>2. journal' = Append(journal, e)
  BY DEF Note
<1> HIDE DEF e
<1> QED
  BY <1>1, <1>2

\* What a step says is an event of the journal.
LEMMA SaysEvent ==
  ASSUME TypeOK, NEW kind \in Kinds, Say(kind)
  PROVE  journal' \in Seq(Event)
<1>1. "none" \in Results /\ "none" \in Hooks /\ 0 \in Nat
  BY DEF Hooks, Results
<1>2. Note(kind, 0, "none", "none")
  BY DEF Say
<1> QED
  BY <1>1, <1>2, NotesEvent

\* The latest event of the history is in the journal, if there is one.
LEMMA LatestIsThere ==
  ASSUME TypeOK
  PROVE  /\ Latest.kind \in ApprovalKinds \cup {"none"}
         /\ Latest.attempt \in Nat /\ Latest.hook \in Hooks
         /\ Latest.kind # "none" =>
              \E i \in ApprovalsIn(journal) : journal[i].attempt = Latest.attempt
<1>1. journal \in Seq(Event) /\ Len(journal) + 1 \in Nat
  BY DEF TypeOK
<1>2. CASE Latest = NoApproval
  BY <1>2 DEF NoApproval, Hooks
<1>3. CASE \E m \in ApprovalsIn(journal) : Latest = journal[m]
  <2>1. PICK m \in ApprovalsIn(journal) : Latest = journal[m]
    BY <1>3
  <2>2. m \in DOMAIN journal /\ journal[m].kind \in ApprovalKinds
    BY <2>1 DEF ApprovalsIn
  <2>3. journal[m] \in Event
    BY <1>1, <2>2
  <2> QED
    BY <2>1, <2>2, <2>3 DEF Event
<1> QED
  BY <1>1, <1>2, <1>3, LastBelowIs, ModelOfHistory DEF IsLastBelow

\* A request or a decision of the hook's approval is an event.
LEMMA ApprovalIsEvent ==
  ASSUME TypeOK,
         \/ \E kind \in {"approved", "expired", "invalidated"} : Decide(kind)
         \/ Note("requested", Requests + 1, hook, "none")
  PROVE  journal' \in Seq(Event)
<1>1. ASSUME NEW kind \in {"approved", "expired", "invalidated"}, Decide(kind)
      PROVE  journal' \in Seq(Event)
  <2>1. kind \in Kinds /\ "none" \in Results
    BY DEF Kinds, Results
  <2>2. Note(kind, Latest.attempt, Latest.hook, "none")
    BY <1>1 DEF Decide
  <2> QED
    BY <2>1, <2>2, LatestIsThere, NotesEvent
<1>2. ASSUME Note("requested", Requests + 1, hook, "none")
      PROVE  journal' \in Seq(Event)
  <2>1. "requested" \in Kinds /\ "none" \in Results /\ hook \in Hooks
    BY DEF Kinds, Results, TypeOK
  <2>2. Requests + 1 \in Nat
    <3>1. IsFiniteSet(1 .. Len(journal))
      BY FS_Interval DEF TypeOK
    <3>2. Positions({"requested"}) \in SUBSET (1 .. Len(journal))
      BY DEF Positions, TypeOK
    <3>3. Requests \in Nat
      BY <3>1, <3>2, FS_Subset, FS_CardinalityType DEF Requests
    <3> QED
      BY <3>3
  <2> QED
    BY <1>2, <2>1, <2>2, NotesEvent
<1> QED
  BY <1>1, <1>2, Zenon

\* What a session of the worktree does to the variables' types.
LEMMA WorktreeTypes == TypeOK /\ RollbackInv /\ WorktreeSteps => TypeOK'
<1> SUFFICES ASSUME TypeOK, RollbackInv, WorktreeSteps, pc' \in Places,
                    original' \in Seq(Makers)
             PROVE  TypeOK'
  <2>1. WorktreeSteps /\ RollbackInv => RollbackInv'
    BY RollbackInvStep DEF Next
  <2> QED
    BY <2>1 DEF RollbackInv, PlaceInv, BranchInv, Places, WorktreePlaces, AfterDecision
<1> USE DEF TypeOK, WorktreeSteps, Begin, Return, record, checkout, worktree,
            agent, rollback, effects, Reference, NodeFails, Makers, Terminal
<1>1. CASE StartNode
  BY <1>1 DEF StartNode
<1>2. CASE LoadWorktree
  BY <1>2 DEF LoadWorktree
<1>3. CASE CreateWorktree
  BY <1>3 DEF CreateWorktree
<1>4. CASE AddWorktree
  BY <1>4 DEF AddWorktree, UnfinishedAdd
<1>5. CASE RecordFailure
  BY <1>5 DEF RecordFailure
<1>6. CASE PublishActive
  BY <1>6 DEF PublishActive
<1>7. CASE AgentWorks
  <2>1. edited' \in BOOLEAN /\ node' \in {"ready", "open", "done", "failed"}
    BY <1>7 DEF AgentWorks
  <2> QED
    BY <1>7, <2>1 DEF AgentWorks
<1>8. CASE PublishReference
  BY <1>8 DEF PublishReference
<1>9. CASE InspectWorktree
  BY <1>9 DEF InspectWorktree
<1>10. CASE RemoveWorktree
  <2>1. /\ dir' \in {"absent", "unfinished", "whole", "foreign"}
        /\ edited' \in BOOLEAN
    BY <1>10 DEF RemoveWorktree
  <2> QED
    BY <1>10, <2>1 DEF RemoveWorktree
<1>11. CASE RecordRemoval
  BY <1>11 DEF RecordRemoval
<1>12. CASE ReportCleanup
  <2>1. journal' \in Seq(Event)
    BY <1>12, SaysEvent DEF ReportCleanup, Kinds
  <2>2. UNCHANGED <<state, promoted, checkout, worktree, agent, moves, faults>>
    BY <1>12 DEF ReportCleanup
  <2> QED
    BY <2>1, <2>2
<1>13. CASE Traverse
  BY <1>13 DEF Traverse
<1>14. CASE CommitCandidate
  BY <1>14 DEF CommitCandidate
<1>15. CASE Finish
  <2>1. state' \in {"COMPLETED", "DRY_RUN_COMPLETED"} /\ promoted' \in BOOLEAN
    BY <1>15 DEF Finish
  <2> QED
    BY <1>15, <2>1 DEF Finish
<1>16. CASE Cancel
  BY <1>16 DEF Cancel
<1>17. CASE DecideCleanup
  <2>1. journal' \in Seq(Event)
    BY <1>17, SaysEvent DEF DecideCleanup, Kinds
  <2>2. UNCHANGED <<state, promoted, checkout, worktree, agent, moves, faults>>
    BY <1>17 DEF DecideCleanup
  <2> QED
    BY <2>1, <2>2
<1> QED
  BY <1>1, <1>2, <1>3, <1>4, <1>5, <1>6, <1>7, <1>8, <1>9, <1>10, <1>11, <1>12, <1>13,
     <1>14, <1>15, <1>16, <1>17 DEF WorktreeSession

\* The same for the rollback and the approval of its hook.
LEMMA RollbackTypes == TypeOK /\ RollbackInv /\ RollbackSteps => TypeOK'
<1> SUFFICES ASSUME TypeOK, RollbackInv, RollbackSteps, pc' \in Places,
                    original' \in Seq(Makers), previous' \in Seq(Makers)
             PROVE  TypeOK'
  <2>1. RollbackSteps /\ RollbackInv => RollbackInv'
    BY RollbackInvStep DEF Next
  <2> QED
    BY <2>1 DEF RollbackInv, PlaceInv, BranchInv, Places, WorktreePlaces, AfterDecision
<1> USE DEF TypeOK, RollbackSteps, Begin, Go, Return, record, checkout, worktree,
            agent, rollback, effects, Makers, Terminal, Report, Forget
<1>1. ASSUME NEW same \in BOOLEAN, RequestHookApproval(same) PROVE TypeOK'
  <2>1. journal' \in Seq(Event)
    BY <1>1, ApprovalIsEvent DEF RequestHookApproval
  <2>2. expired' \in BOOLEAN
    BY <1>1 DEF RequestHookApproval
  <2>3. UNCHANGED <<state, promoted, checkout, hook, previous, result, effects, moves, faults>>
    BY <1>1 DEF RequestHookApproval
  <2> QED
    BY <2>1, <2>2, <2>3
<1>2. CASE ApproveHook
  <2>1. journal' \in Seq(Event)
    BY <1>2, ApprovalIsEvent DEF ApproveHook
  <2>2. UNCHANGED <<state, promoted, checkout, rollback, moves, faults>>
    BY <1>2 DEF ApproveHook
  <2> QED
    BY <2>1, <2>2
<1>3. CASE RollbackAgain
  BY <1>3 DEF RollbackAgain
<1>4. CASE DecideRollback
  <2>1. journal' \in Seq(Event)
    BY <1>4, ApprovalIsEvent, SaysEvent DEF DecideRollback, Kinds
  <2>2. UNCHANGED <<state, promoted, checkout, rollback, moves, faults>>
    BY <1>4 DEF DecideRollback
  <2> QED
    BY <2>1, <2>2
<1>5. CASE EnterRollback
  BY <1>5 DEF EnterRollback
<1>6. CASE TryRollback
  BY <1>6 DEF TryRollback, Results
<1>7. CASE Revert
  BY <1>7 DEF Revert, UnfinishedRevert, Landed
<1>8. CASE ProveRevert
  BY <1>8 DEF ProveRevert, Results
<1>9. CASE RunHook
  BY <1>9 DEF RunHook, Results
<1>10. CASE ReconcileEffect
  BY <1>10 DEF ReconcileEffect, Results
<1>11. CASE AbortRevert
  BY <1>11 DEF AbortRevert, Results
<1>12. CASE ObserveRestored
  BY <1>12 DEF ObserveRestored, Results
<1>13. CASE ReportRollback
  <2>1. \E kind \in {"compensated", "blocked"} : Note(kind, 0, hook, result)
    BY <1>13 DEF ReportRollback
  <2>2. journal' \in Seq(Event)
    <3>1. "compensated" \in Kinds /\ "blocked" \in Kinds /\ 0 \in Nat
      BY DEF Kinds
    <3> QED
      BY <2>1, <3>1, NotesEvent
  <2>3. UNCHANGED <<state, promoted, checkout, rollback, moves, faults>>
    BY <1>13 DEF ReportRollback
  <2> QED
    BY <2>2, <2>3
<1>14. CASE SettleRollback
  BY <1>14 DEF SettleRollback, Results
<1> QED
  BY <1>1, <1>2, <1>3, <1>4, <1>5, <1>6, <1>7, <1>8, <1>9, <1>10, <1>11, <1>12, <1>13,
     <1>14 DEF RollbackSteps, RollbackSession

\* Every step of both commands, of the user and every death keeps the types.
LEMMA TypeStep == TypeOK /\ RollbackInv /\ [Next]_vars => TypeOK'
<1> SUFFICES ASSUME TypeOK, RollbackInv, [Next]_vars PROVE TypeOK'
  OBVIOUS
<1>0. /\ pc' \in Places /\ original' \in Seq(Makers) /\ previous' \in Seq(Makers)
  BY RollbackInvStep DEF RollbackInv, PlaceInv, BranchInv, Places, WorktreePlaces,
     AfterDecision
<1>1. CASE WorktreeSteps
  BY <1>1, WorktreeTypes
<1>2. CASE RollbackSteps
  BY <1>2, RollbackTypes
<1> USE <1>0 DEF TypeOK, Return, record, checkout, agent, rollback, effects, Makers
<1>3. CASE Crash
  <2>1. /\ dir' \in {"absent", "unfinished", "whole", "foreign"}
        /\ branch' \in {"absent", "base", "candidate", "other"}
        /\ edited' \in BOOLEAN
    BY <1>3 DEF Crash, DiesInGit, UnfinishedAdd
  <2>2. work' \in {"clean", "dirty", "reverting"} /\ reverts' \in Nat
    BY <1>3 DEF Crash, DiesInRevert, UnfinishedRevert, Landed
  <2>3. /\ faults' \in Nat /\ result' \in Results
        /\ UNCHANGED <<record, reference, agent, hook, expired, hookRuns, moves>>
    BY <1>3 DEF Crash, Forget, Results
  <2> QED
    BY <2>1, <2>2, <2>3
<1>4. CASE Move
  <2>1. /\ dir' \in {"absent", "unfinished", "whole", "foreign"}
        /\ branch' \in {"absent", "base", "candidate", "other"}
        /\ edited' \in BOOLEAN
    BY <1>4 DEF Move, MoveWorktree
  <2>2. /\ work' \in {"clean", "dirty", "reverting"} /\ hook' \in Hooks
        /\ expired' \in BOOLEAN
    BY <1>4 DEF Move, MoveOriginal
  <2>3. /\ moves' \in Nat
        /\ UNCHANGED <<record, reference, agent, result, effects, faults>>
    BY <1>4 DEF Move
  <2> QED
    BY <2>1, <2>2, <2>3
<1>5. CASE Clean
  BY <1>5 DEF Clean, worktree
<1>6. CASE UNCHANGED vars
  BY <1>6 DEF vars, worktree
<1> QED
  BY <1>1, <1>2, <1>3, <1>4, <1>5, <1>6 DEF Next

\* They hold at the start.
LEMMA TypeInit == Init => TypeOK
<1> SUFFICES ASSUME Init PROVE TypeOK
  OBVIOUS
<1>1. << >> \in Seq(Event) /\ << >> \in Seq({"user", "pick", "revert"})
  OBVIOUS
<1>2. branch \in {"absent", "base"} /\ dir \in {"absent", "whole", "foreign"}
  BY DEF Init
<1>3. reference \in [status : {"none", "CREATING", "ACTIVE", "FAILED",
                             "CLEANUP_PENDING", "REMOVED"},
                   head : {"absent", "base", "candidate"}]
  BY DEF Init, NoReference
<1>4. /\ promoted \in BOOLEAN /\ edited \in BOOLEAN /\ expired \in BOOLEAN
      /\ hook \in Hooks
  BY DEF Init, Hooks
<1>5. /\ state = "EXECUTING" /\ work = "clean" /\ pc \in Places /\ node = "ready"
      /\ result \in Results
      /\ {visits, reverts, hookRuns, moves, faults} \subseteq Nat
  BY DEF Init, Places, Results
<1>6. /\ journal \in Seq(Event)
      /\ original \in Seq({"user", "pick", "revert"})
      /\ previous \in Seq({"user", "pick", "revert"})
  BY <1>1 DEF Init
<1> QED
  BY <1>2, <1>3, <1>4, <1>5, <1>6 DEF TypeOK

-----------------------------------------------------------------------------
(* The worktree and what git did halfway.                                  *)

\* What its place says of the reference and the directory; and once a revert is verified
\* nothing of it is left half done.
WorktreeInv ==
  /\ pc \in {"add", "fail"} => reference.status = "CREATING"
  /\ pc \in {"publish", "reference"} => dir # "unfinished"
  /\ pc \in {"inspect", "remove"} => state \in Terminal
  /\ pc = "remove" => reference.status = "CLEANUP_PENDING"
  /\ pc = "hook" \/ result = "compensated" => work # "reverting"
  /\ PartialEffectsShow

\* Neither a session of the worktree nor a death in one leaves something half done that the
\* reference does not show.
LEMMA WorktreeSessionShows ==
  PlaceInv /\ WorktreeInv /\ WorktreeSteps => WorktreeInv'
<1> SUFFICES ASSUME PlaceInv, WorktreeInv, WorktreeSteps PROVE WorktreeInv'
  OBVIOUS
<1> USE DEF WorktreeInv, PartialEffectsShow, Begin, Go, Return, record, checkout, worktree,
            agent, rollback, effects, Reference, NodeFails, Terminal
<1>1. CASE StartNode
  BY <1>1 DEF WorktreeSteps, StartNode
<1>2. CASE LoadWorktree
  BY <1>2 DEF WorktreeSteps, LoadWorktree
<1>3. CASE CreateWorktree
  BY <1>3 DEF WorktreeSteps, CreateWorktree, Pristine, Validates
<1>4. CASE AddWorktree
  BY <1>4 DEF WorktreeSteps, AddWorktree, UnfinishedAdd
<1>5. CASE RecordFailure
  BY <1>5 DEF WorktreeSteps, RecordFailure
<1>6. CASE PublishActive
  BY <1>6 DEF WorktreeSteps, PublishActive
<1>7. CASE AgentWorks
  BY <1>7 DEF WorktreeSteps, AgentWorks
<1>8. CASE PublishReference
  BY <1>8 DEF WorktreeSteps, PublishReference
<1>9. CASE InspectWorktree
  BY <1>9 DEF WorktreeSteps, InspectWorktree, Removable, Loads, Validates
<1>10. CASE RemoveWorktree
  BY <1>10 DEF WorktreeSteps, RemoveWorktree
<1>11. CASE RecordRemoval
  BY <1>11 DEF WorktreeSteps, RecordRemoval
<1>12. CASE ReportCleanup
  BY <1>12 DEF WorktreeSteps, ReportCleanup
<1>13. CASE Traverse
  BY <1>13 DEF WorktreeSteps, Traverse
<1>14. CASE CommitCandidate
  BY <1>14 DEF WorktreeSteps, CommitCandidate
<1>15. CASE Finish
  BY <1>15 DEF WorktreeSteps, Finish
<1>16. CASE Cancel
  BY <1>16 DEF WorktreeSteps, Cancel
<1>17. CASE DecideCleanup
  BY <1>17 DEF WorktreeSteps, DecideCleanup
<1> QED
  BY <1>1, <1>2, <1>3, <1>4, <1>5, <1>6, <1>7, <1>8, <1>9, <1>10, <1>11, <1>12, <1>13,
     <1>14, <1>15, <1>16, <1>17 DEF WorktreeSteps, WorktreeSession

\* A revert that git left half done is settled only as blocked.
LEMMA RollbackShows ==
  PlaceInv /\ WorktreeInv /\ RollbackSteps => WorktreeInv'
<1> SUFFICES ASSUME PlaceInv, WorktreeInv, RollbackSteps PROVE WorktreeInv'
  OBVIOUS
<1> USE DEF PlaceInv, WorktreeInv, PartialEffectsShow, Begin, Go, Return, record, checkout,
            worktree, agent, rollback, effects, Terminal, AfterDecision, WorktreePlaces,
            Report, Forget
<1>1. ASSUME NEW same \in BOOLEAN, RequestHookApproval(same) PROVE WorktreeInv'
  BY <1>1 DEF RollbackSteps, RequestHookApproval
<1>2. CASE ApproveHook
  BY <1>2 DEF RollbackSteps, ApproveHook
<1>3. CASE RollbackAgain
  BY <1>3 DEF RollbackSteps, RollbackAgain
<1>4. CASE DecideRollback
  BY <1>4 DEF RollbackSteps, DecideRollback
<1>5. CASE EnterRollback
  BY <1>5 DEF RollbackSteps, EnterRollback
<1>6. CASE TryRollback
  BY <1>6 DEF RollbackSteps, TryRollback
<1>7. CASE Revert
  BY <1>7 DEF RollbackSteps, Revert, UnfinishedRevert, Landed
<1>8. CASE ProveRevert
  BY <1>8 DEF RollbackSteps, ProveRevert, Proven
<1>9. CASE RunHook
  BY <1>9 DEF RollbackSteps, RunHook
<1>10. CASE ReconcileEffect
  BY <1>10 DEF RollbackSteps, ReconcileEffect
<1>11. CASE AbortRevert
  BY <1>11 DEF RollbackSteps, AbortRevert
<1>12. CASE ObserveRestored
  BY <1>12 DEF RollbackSteps, ObserveRestored
<1>13. CASE ReportRollback
  BY <1>13 DEF RollbackSteps, ReportRollback
<1>14. CASE SettleRollback
  BY <1>14 DEF RollbackSteps, SettleRollback
<1> QED
  BY <1>1, <1>2, <1>3, <1>4, <1>5, <1>6, <1>7, <1>8, <1>9, <1>10, <1>11, <1>12, <1>13,
     <1>14 DEF RollbackSteps, RollbackSession

\* Deaths, and the user in both checkouts, leave what is shown.
LEMMA WorktreeInvStep == PlaceInv /\ WorktreeInv /\ [Next]_vars => WorktreeInv'
<1> SUFFICES ASSUME PlaceInv, WorktreeInv, [Next]_vars PROVE WorktreeInv'
  OBVIOUS
<1>1. CASE WorktreeSteps
  BY <1>1, WorktreeSessionShows
<1>2. CASE RollbackSteps
  BY <1>2, RollbackShows
<1> USE DEF PlaceInv, WorktreeInv, PartialEffectsShow, Return, record, checkout,
            agent, effects, AfterDecision, WorktreePlaces
<1>3. CASE Crash
  <2>1. dir' = "unfinished" =>
          reference'.status \in {"CREATING", "FAILED", "CLEANUP_PENDING"}
    BY <1>3 DEF Crash, DiesInGit, UnfinishedAdd
  <2>2. work' = "reverting" => state' \in {"ROLLBACK_IN_PROGRESS", "BLOCKED_ROLLBACK"}
    BY <1>3 DEF Crash, DiesInRevert, UnfinishedRevert
  <2>3. pc' = "idle" /\ result' = "none"
    BY <1>3 DEF Crash, Forget
  <2> QED
    BY <2>1, <2>2, <2>3
<1>4. CASE Move
  <2>1. /\ UNCHANGED <<state, pc, reference, result>>
        /\ dir' = "unfinished" => dir = "unfinished"
        /\ work' = "reverting" => work = "reverting"
    BY <1>4 DEF Move, MoveWorktree, MoveOriginal
  <2> QED
    BY <2>1
<1>5. CASE Clean
  BY <1>5 DEF Clean, rollback, worktree
<1>6. CASE UNCHANGED vars
  BY <1>6 DEF vars, worktree, rollback
<1> QED
  BY <1>1, <1>2, <1>3, <1>4, <1>5, <1>6 DEF Next

\* Before it exists nothing is said of the worktree.
LEMMA WorktreeInvInit == Init => WorktreeInv
BY DEF Init, WorktreeInv, PartialEffectsShow, NoReference

-----------------------------------------------------------------------------
\* The decision to roll back comes after whatever the history of the hook has.
DecidedLast(log) ==
  \E i \in DOMAIN log :
    log[i].kind = "rollback decided" /\ \A j \in ApprovalsIn(log) : j < i

\* The history is readable; and while a rollback is under way its decision is behind it,
\* and until the hook has run the approval of exactly this hook is the last word.
HistoryInv == Replays(journal) /\ AttemptsIn(journal)

ApprovalInv ==
  /\ HistoryInv
  /\ pc \in AfterDecision \ {"settle"} => DecidedLast(journal)
  /\ pc \in {"enter", "try", "revert", "prove", "hook"} /\ Destructive => Approved

\* Without an event nothing of this changes.
LEMMA HistoryStays ==
  ASSUME journal' = journal
  PROVE  /\ HistoryInv => HistoryInv'
         /\ Latest' = Latest
BY DEF HistoryInv, Latest, Before, Approvals, Positions

\* An event that is no approval leaves the history readable.
LEMMA SaysKeeps ==
  ASSUME TypeOK, HistoryInv, NEW kind \in Kinds \ ApprovalKinds, NEW h \in Hooks,
         NEW r \in Results, Note(kind, 0, h, r)
  PROVE  /\ HistoryInv'
         /\ Latest' = Latest
         /\ kind = "rollback decided" => DecidedLast(journal)'
<1> DEFINE e == [kind |-> kind, attempt |-> 0, hook |-> h, result |-> r]
<1>1. /\ e \in Event /\ journal \in Seq(Event) /\ journal' = Append(journal, e)
      /\ e.kind = kind /\ kind \notin ApprovalKinds
  BY DEF Event, TypeOK, Note
<1> HIDE DEF e
<1>2. e.kind # "requested"
  BY <1>1 DEF ApprovalKinds
<1>3. HistoryInv'
  BY <1>1, <1>2, ReplayGrows, AttemptsGrow DEF HistoryInv, MayFollow
<1>4. /\ ApprovalsIn(journal') = ApprovalsIn(journal)
      /\ Len(journal') = Len(journal) + 1 /\ Len(journal) \in Nat
      /\ \A i \in ApprovalsIn(journal) : i \in 1 .. Len(journal)
      /\ journal'[Len(journal) + 1] = e
  <2>1. Len(journal') = Len(journal) + 1 /\ Len(journal) \in Nat
    BY <1>1
  <2>2. /\ ApprovalsIn(journal') = ApprovalsIn(journal)
        /\ \A i \in ApprovalsIn(journal) : i \in 1 .. Len(journal)
        /\ journal'[Len(journal) + 1] = e
    <3>1. e.kind \notin ApprovalKinds
      BY <1>1
    <3>2. ApprovalsIn(Append(journal, e)) = ApprovalsIn(journal)
      BY <1>1, <3>1, ApprovalsGrow
    <3>3. /\ \A i \in ApprovalsIn(journal) : i \in 1 .. Len(journal)
          /\ Append(journal, e)[Len(journal) + 1] = e
      BY <1>1, ApprovalsGrow
    <3> QED
      BY <1>1, <3>2, <3>3
  <2> QED
    BY <2>1, <2>2
<1>5. Latest' = Latest
  <2>1. LastBelow(journal', Len(journal) + 1) = LastBelow(journal, Len(journal) + 1)
    <3>1. Len(journal) + 1 \in 1 .. Len(journal) + 1
      BY <1>4
    <3> QED
      BY <1>1, <3>1, LastBelowStays
  <2>2. \A k \in ApprovalsIn(journal') :
          journal'[k] = journal[k] /\ k < Len(journal) + 1 /\ k < Len(journal) + 2
    BY <1>1, <1>4, ApprovalsGrow
  <2>3. LastBelow(journal', Len(journal) + 2) = LastBelow(journal', Len(journal) + 1)
    <3>1. {j \in ApprovalsIn(journal') : j < Len(journal) + 2} =
            {j \in ApprovalsIn(journal') : j < Len(journal) + 1}
      BY <2>2
    <3> QED
      BY <3>1 DEF LastBelow
  <2>4. Len(journal') + 1 = Len(journal) + 2
    BY <1>4
  <2>5. Latest' = LastBelow(journal', Len(journal') + 1)
    BY DEF Latest, Before, LastBelow, LastOf, NoApproval, Approvals, Positions, ApprovalsIn,
           ApprovalKinds
  <2> QED
    BY <2>1, <2>3, <2>4, <2>5, ModelOfHistory
<1>6. kind = "rollback decided" => DecidedLast(journal')
  <2>1. /\ Len(journal) + 1 \in DOMAIN journal'
        /\ \A j \in ApprovalsIn(journal') : j < Len(journal) + 1
    BY <1>1, <1>4
  <2> QED
    BY <1>1, <1>4, <2>1 DEF DecidedLast
<1> QED
  BY <1>3, <1>5, <1>6

\* A decision that answers the latest event leaves the history readable.
LEMMA DecideKeeps ==
  ASSUME TypeOK, HistoryInv, NEW kind \in {"approved", "expired", "invalidated"},
         Decide(kind), LatestIs({"requested", "approved"}),
         kind = "approved" => LatestIs({"requested"})
  PROVE  HistoryInv'
<1> DEFINE e == [kind |-> kind, attempt |-> Latest.attempt, hook |-> Latest.hook,
                 result |-> "none"]
<1>1. /\ e \in Event /\ journal \in Seq(Event) /\ journal' = Append(journal, e)
      /\ e.kind = kind /\ e.attempt = Latest.attempt
  BY LatestIsThere DEF Event, TypeOK, Note, Decide, Kinds, Results
<1> HIDE DEF e
<1>2. \E i \in ApprovalsIn(journal) : journal[i].attempt = e.attempt
  BY <1>1, LatestIsThere DEF LatestIs
<1>3. MayFollow(journal, e)
  BY <1>1, ModelOfHistory DEF MayFollow, LatestIs
<1> QED
  BY <1>1, <1>2, <1>3, ReplayGrows, AttemptsGrow DEF HistoryInv

\* A new request does.
LEMMA RequestKeeps ==
  ASSUME TypeOK, HistoryInv, Note("requested", Requests + 1, hook, "none"),
         ~ LatestIs({"requested", "approved"})
  PROVE  HistoryInv'
<1> DEFINE e == [kind |-> "requested", attempt |-> Requests + 1, hook |-> hook,
                 result |-> "none"]
<1>1. /\ journal \in Seq(Event) /\ journal' = Append(journal, e)
      /\ e.kind = "requested" /\ e.attempt = Cardinality(Requested(journal)) + 1
  BY DEF TypeOK, Note, Requests, Requested, Positions
<1>2. e \in Event
  <2>1. IsFiniteSet(1 .. Len(journal)) /\ Requested(journal) \in SUBSET (1 .. Len(journal))
    <3>1. DOMAIN journal = 1 .. Len(journal) /\ Len(journal) \in Nat
      BY <1>1
    <3> QED
      BY <3>1, FS_Interval DEF Requested
  <2>2. Cardinality(Requested(journal)) \in Nat
    BY <2>1, FS_Subset, FS_CardinalityType
  <2>3. Requests + 1 \in Nat
    BY <2>2 DEF Requests, Requested, Positions
  <2> QED
    BY <2>3 DEF Event, Kinds, Results, TypeOK
<1> HIDE DEF e
<1>3. AttemptsIn(journal') /\ Cardinality(Requested(journal)) \in Nat
  BY <1>1, <1>2, AttemptsGrow DEF HistoryInv
<1>4. \A j \in ApprovalsIn(journal) : journal[j].attempt # e.attempt
  BY <1>1, <1>3 DEF HistoryInv, AttemptsIn
<1>5. LastBelow(journal, Len(journal) + 1).kind \in {"none", "expired", "invalidated"}
  BY LatestIsThere, ModelOfHistory DEF LatestIs, ApprovalKinds
<1>6. MayFollow(journal, e)
  BY <1>1, <1>4, <1>5 DEF MayFollow
<1> QED
  BY <1>1, <1>2, <1>3, <1>6, ReplayGrows DEF HistoryInv

\* Whatever does not append to the journal, and no session of a rollback after its decision
\* begins without it.
LEMMA RollbackApprovals ==
  TypeOK /\ PlaceInv /\ ApprovalInv /\ RollbackSteps => ApprovalInv'
<1> SUFFICES ASSUME TypeOK, PlaceInv, ApprovalInv, RollbackSteps PROVE ApprovalInv'
  OBVIOUS
<1> USE DEF ApprovalInv, AfterDecision, Begin, Go, Return, record, checkout, rollback, effects
<1>1. ASSUME pc' \notin AfterDecision, HistoryInv' PROVE ApprovalInv'
  BY <1>1
<1>2. ASSUME NEW same \in BOOLEAN, RequestHookApproval(same) PROVE ApprovalInv'
  <2>1. pc' \notin AfterDecision
    BY <1>2 DEF RequestHookApproval
  <2>2. \/ LatestIs({"requested", "approved"}) /\ Decide("expired")
        \/ LatestIs({"requested", "approved"}) /\ Decide("invalidated")
        \/ ~ LatestIs({"requested", "approved"}) /\ Note("requested", Requests + 1, hook, "none")
    BY <1>2 DEF RequestHookApproval
  <2>3. HistoryInv'
    BY <2>2, DecideKeeps, RequestKeeps
  <2> QED
    BY <1>1, <2>1, <2>3
<1>3. CASE ApproveHook
  <2>1. pc' \notin AfterDecision
    BY <1>3 DEF ApproveHook
  <2>2. LatestIs({"requested"}) => LatestIs({"requested", "approved"})
    BY DEF LatestIs
  <2>3. \E kind \in {"approved", "expired", "invalidated"} :
          /\ Decide(kind) /\ LatestIs({"requested", "approved"})
          /\ kind = "approved" => LatestIs({"requested"})
    BY <1>3, <2>2 DEF ApproveHook
  <2>4. HistoryInv'
    BY <2>3, DecideKeeps
  <2> QED
    BY <1>1, <2>1, <2>4
<1>4. CASE RollbackAgain
  <2>1. pc' \notin AfterDecision /\ journal' = journal
    BY <1>4 DEF RollbackAgain
  <2> QED
    BY <1>1, <2>1, HistoryStays
<1>5. CASE DecideRollback
  <2>1. CASE LatestIs({"approved"}) /\ Decide("expired") /\ UNCHANGED pc
    <3>1. LatestIs({"requested", "approved"})
      BY <2>1 DEF LatestIs
    <3>2. HistoryInv'
      BY <2>1, <3>1, DecideKeeps
    <3> QED
      BY <1>1, <1>5, <2>1, <3>2 DEF DecideRollback
  <2>2. CASE (Destructive => Approved) /\ Say("rollback decided") /\ pc' = "enter"
    <3>1. "rollback decided" \in Kinds \ ApprovalKinds /\ "none" \in Hooks /\ "none" \in Results
      BY DEF Kinds, ApprovalKinds, Hooks, Results
    <3>2. HistoryInv' /\ Latest' = Latest /\ DecidedLast(journal)'
      BY <2>2, <3>1, SaysKeeps DEF Say
    <3>3. hook' = hook
      BY <1>5 DEF DecideRollback
    <3>4. Destructive' => Approved'
      BY <2>2, <3>2, <3>3 DEF Destructive, Approved, LatestIs
    <3> QED
      BY <2>2, <3>2, <3>4
  <2>3. CASE UNCHANGED <<journal, pc>>
    BY <1>1, <1>5, <2>3, HistoryStays DEF DecideRollback
  <2> QED
    BY <1>5, <2>1, <2>2, <2>3 DEF DecideRollback
<1>6. ASSUME journal' = journal, hook' = hook, pc \in AfterDecision \ {"settle"},
             pc' \in {"try", "revert", "prove", "hook"} =>
               pc \in {"enter", "try", "revert", "prove", "hook"},
             pc' # "enter"
      PROVE  ApprovalInv'
  <2>1. DecidedLast(journal)' /\ HistoryInv'
    BY <1>6, HistoryStays
  <2>2. Destructive' = Destructive /\ Approved' = Approved
    BY <1>6, HistoryStays DEF Destructive, Approved, LatestIs
  <2> QED
    BY <1>6, <2>1, <2>2
<1>7. CASE EnterRollback
  BY <1>6, <1>7 DEF EnterRollback
<1>8. CASE TryRollback
  BY <1>6, <1>8 DEF TryRollback, Report
<1>9. CASE Revert
  BY <1>6, <1>9 DEF Revert
<1>10. CASE ProveRevert
  BY <1>6, <1>10 DEF ProveRevert, Report
<1>11. CASE RunHook
  BY <1>6, <1>11 DEF RunHook, Report
<1>12. CASE ReconcileEffect
  BY <1>6, <1>12 DEF ReconcileEffect, Report
<1>13. CASE AbortRevert
  BY <1>6, <1>13 DEF AbortRevert, Report
<1>14. CASE ObserveRestored
  BY <1>6, <1>14 DEF ObserveRestored, Report
<1>15. CASE ReportRollback
  <2>1. \E kind \in Kinds \ ApprovalKinds : Note(kind, 0, hook, result)
    BY <1>15 DEF ReportRollback, Kinds, ApprovalKinds
  <2>2. HistoryInv'
    BY <2>1, SaysKeeps DEF TypeOK
  <2> QED
    BY <1>15, <2>2 DEF ReportRollback
<1>16. CASE SettleRollback
  <2>1. pc' \notin AfterDecision /\ journal' = journal
    BY <1>16 DEF SettleRollback
  <2> QED
    BY <1>1, <2>1, HistoryStays
<1> QED
  BY <1>2, <1>3, <1>4, <1>5, <1>7, <1>8, <1>9, <1>10, <1>11, <1>12, <1>13, <1>14, <1>15,
     <1>16 DEF RollbackSteps, RollbackSession

\* The other steps append nothing, or a cleanup, and no session of a rollback begins.
LEMMA ApprovalInvStep ==
  TypeOK /\ RollbackInv /\ ApprovalInv /\ [Next]_vars => ApprovalInv'
<1> SUFFICES ASSUME TypeOK, RollbackInv, ApprovalInv, [Next]_vars PROVE ApprovalInv'
  OBVIOUS
<1>1. CASE RollbackSteps
  BY <1>1, RollbackApprovals DEF RollbackInv
<1>2. CASE WorktreeSteps
  <2>1. pc' \notin AfterDecision
    BY <1>2, WorktreeStepsAreFramed DEF OutsideRollback, WorktreePlaces, AfterDecision
  <2>2. CASE DecideCleanup \/ ReportCleanup
    <3>1. \E kind \in Kinds \ ApprovalKinds : Say(kind)
      BY <2>2 DEF DecideCleanup, ReportCleanup, Kinds, ApprovalKinds
    <3>2. "none" \in Hooks /\ "none" \in Results
      BY DEF Hooks, Results
    <3>3. HistoryInv'
      BY <3>1, <3>2, SaysKeeps DEF Say, ApprovalInv
    <3> QED
      BY <2>1, <3>3 DEF ApprovalInv, AfterDecision
  <2>3. CASE ~ (DecideCleanup \/ ReportCleanup)
    <3>1. journal' = journal
      BY <1>2, <2>3 DEF WorktreeSteps, WorktreeSession, StartNode, LoadWorktree,
         CreateWorktree, AddWorktree, RecordFailure, PublishActive, AgentWorks,
         PublishReference, InspectWorktree, RemoveWorktree, RecordRemoval, Traverse,
         CommitCandidate, Finish, Cancel, record
    <3> QED
      BY <2>1, <3>1, HistoryStays DEF ApprovalInv, AfterDecision
  <2> QED
    BY <2>2, <2>3
<1>3. CASE Crash
  BY <1>3, HistoryStays DEF Crash, Return, record, ApprovalInv, AfterDecision
<1>4. CASE Move \/ Clean \/ UNCHANGED vars
  <2>1. /\ journal' = journal /\ pc' = pc
        /\ pc # "idle" => hook' = hook
    BY <1>4 DEF Move, MoveWorktree, MoveOriginal, Clean, vars, record, rollback
  <2>2. DecidedLast(journal)' <=> DecidedLast(journal)
    BY <2>1
  <2>3. pc # "idle" => Destructive' = Destructive /\ Approved' = Approved
    BY <2>1, HistoryStays DEF Destructive, Approved, LatestIs
  <2> QED
    BY <2>1, <2>2, <2>3, HistoryStays DEF ApprovalInv
<1> QED
  BY <1>1, <1>2, <1>3, <1>4 DEF Next

\* The first state has no history.
LEMMA ApprovalInvInit == Init => ApprovalInv
<1> SUFFICES ASSUME Init PROVE ApprovalInv
  OBVIOUS
<1>1. journal = << >> /\ pc = "idle"
  BY DEF Init
<1>2. ApprovalsIn(journal) = {}
  BY <1>1 DEF ApprovalsIn
<1> QED
  BY <1>1, <1>2 DEF ApprovalInv, HistoryInv, Replays, AttemptsIn, AfterDecision

-----------------------------------------------------------------------------
(* What follows.                                                           *)

\* However many sessions of a rollback there are, whenever they die and whatever the user
\* does to the original branch: at most one revert of the harness lands and the hook runs
\* at most once, a compensated execution has its decision, its revert and its hook, and
\* what counts as compensation was made on the branch that the session had looked at.
THEOREM RollbackIsProven == Spec => []CompensationIsProven
<1>1. RollbackInv => CompensationIsProven
  <2> SUFFICES ASSUME PlaceInv, BranchInv, EventInv PROVE CompensationIsProven
    BY DEF RollbackInv
  <2>1. RevertsOnce
    BY DEF PlaceInv, RevertsOnce
  <2>2. ASSUME Compensated(journal, hookRuns)
        PROVE  \E i \in Positions({"rollback decided"}), j \in Positions({"compensated"}) :
                 i < j /\ (journal[j].hook # "none" => hookRuns = 1)
    BY <2>2 DEF Compensated, Positions
  <2> QED
    BY <2>1, <2>2 DEF CompensationIsProven, BranchInv, EventInv, RevertsMadeOn
<1> QED
  BY RollbackInvInit, RollbackInvStep, <1>1, PTL DEF Spec

\* Only a cleanup that was decided in a terminal state, or a death inside of it, removes a
\* directory, and git refuses while there is uncommitted work.
THEOREM WorkIsNotLost == Spec => NoWorkIsLost
<1> DEFINE Kept == /\ dir' # dir /\ dir \in {"whole", "unfinished", "foreign"} /\ moves' = moves
                  => /\ state \in Terminal /\ reference.status = "CLEANUP_PENDING"
                     /\ dir = "whole" => ~ edited
                     /\ branch' = branch
<1>1. WorktreeInv /\ moves \in Nat /\ [Next]_vars => Kept
  <2> SUFFICES ASSUME WorktreeInv, moves \in Nat, [Next]_vars PROVE Kept
    OBVIOUS
  <2> SUFFICES ASSUME dir' # dir, dir \in {"whole", "unfinished", "foreign"}, moves' = moves
               PROVE  /\ pc = "remove" /\ GitAccepts
                      /\ branch' = branch
    BY DEF WorktreeInv, GitAccepts
  <2> USE DEF record, checkout, worktree, agent, rollback, effects
  <2>1. CASE WorktreeSteps
    <3>1. CASE AddWorktree
      BY <3>1 DEF AddWorktree
    <3>2. CASE RemoveWorktree
      BY <3>2 DEF RemoveWorktree
    <3>3. CASE WorktreeSession /\ ~ AddWorktree /\ ~ RemoveWorktree
      BY <3>3 DEF WorktreeSession, LoadWorktree, CreateWorktree, RecordFailure,
                  PublishActive, AgentWorks, PublishReference, InspectWorktree,
                  RecordRemoval, ReportCleanup
    <3>4. CASE StartNode \/ Traverse \/ CommitCandidate \/ Finish \/ Cancel \/ DecideCleanup
      BY <3>4 DEF StartNode, Traverse, CommitCandidate, Finish, Cancel, DecideCleanup
    <3> QED
      BY <2>1, <3>1, <3>2, <3>3, <3>4 DEF WorktreeSteps
  <2>2. CASE RollbackSteps
    BY <2>2 DEF RollbackSteps
  <2>3. CASE Crash
    BY <2>3 DEF Crash, DiesInGit, UnfinishedAdd
  <2>4. CASE Move
    BY <2>4 DEF Move
  <2>5. CASE Clean \/ UNCHANGED vars
    BY <2>5 DEF Clean, vars
  <2> QED
    BY <2>1, <2>2, <2>3, <2>4, <2>5 DEF Next
<1>2. TypeOK => moves \in Nat
  BY DEF TypeOK
<1>3. RollbackInv => PlaceInv
  BY DEF RollbackInv
<1> QED
  BY RollbackInvInit, RollbackInvStep, TypeInit, TypeStep, WorktreeInvInit, WorktreeInvStep,
     <1>1, <1>2, <1>3, PTL DEF Spec, NoWorkIsLost

\* Whatever dies and whatever the user moves: what git did halfway shows in what the harness
\* recorded, and no command ever meets a history of approvals that it refuses to read.
THEOREM GitStateIsSound == Spec => []GitInv
<1>1. TypeOK /\ WorktreeInv /\ ApprovalInv => GitInv
  BY ReplaysIsReplay DEF WorktreeInv, ApprovalInv, HistoryInv, GitInv, HookHistoryReplays
<1>2. RollbackInv => PlaceInv
  BY DEF RollbackInv
<1> QED
  BY RollbackInvInit, RollbackInvStep, TypeInit, TypeStep, WorktreeInvInit, WorktreeInvStep,
     ApprovalInvInit, ApprovalInvStep, <1>1, <1>2, PTL DEF Spec

\* A destructive hook runs only under an approval of exactly this hook which came before the
\* decision and which nothing has ended since, however often the configuration changes, the
\* validity runs out or a session dies.
THEOREM HookIsApproved == Spec => HookRunsApproved
<1> DEFINE Kept == hookRuns' > hookRuns /\ Destructive =>
                     /\ state = "ROLLBACK_IN_PROGRESS"
                     /\ Latest.kind = "approved" /\ Latest.hook = hook
                     /\ \E i \in Positions({"rollback decided"}) :
                          \A j \in Approvals : j < i
<1>1. TypeOK /\ RollbackInv /\ ApprovalInv /\ [Next]_vars => Kept
  <2> SUFFICES ASSUME TypeOK, RollbackInv, ApprovalInv, [Next]_vars,
                      hookRuns' > hookRuns, Destructive
               PROVE  /\ state = "ROLLBACK_IN_PROGRESS"
                      /\ Latest.kind = "approved" /\ Latest.hook = hook
                      /\ \E i \in Positions({"rollback decided"}) :
                           \A j \in Approvals : j < i
    OBVIOUS
  <2>1. hookRuns \in Nat /\ hookRuns' # hookRuns
    BY DEF TypeOK
  <2>2. RunHook
    BY <2>1 DEF Next, vars, rollback, effects, WorktreeSteps, RollbackSteps, Crash, Move,
       Clean, RequestHookApproval, ApproveHook, RollbackAgain, DecideRollback,
       RollbackSession, EnterRollback, TryRollback, Revert, ProveRevert, ReconcileEffect,
       AbortRevert, ObserveRestored, ReportRollback, SettleRollback
  <2>3. pc = "hook" /\ state = "ROLLBACK_IN_PROGRESS"
    BY <2>2 DEF RunHook, RollbackInv, PlaceInv, AfterDecision
  <2>4. Approved /\ DecidedLast(journal)
    BY <2>3 DEF ApprovalInv, AfterDecision
  <2>5. \E i \in Positions({"rollback decided"}) : \A j \in Approvals : j < i
    BY <2>4, ModelOfHistory DEF DecidedLast, Positions
  <2> QED
    BY <2>3, <2>4, <2>5 DEF Approved, LatestIs
<1> QED
  BY RollbackInvInit, RollbackInvStep, TypeInit, TypeStep, ApprovalInvInit, ApprovalInvStep,
     <1>1, PTL DEF Spec, HookRunsApproved
=============================================================================
