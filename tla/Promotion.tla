------------------------------ MODULE Promotion ------------------------------
(***************************************************************************)
(* From a finished worktree to the user's branch, for one execution:       *)
(* prepare_candidate, verify, request_promotion_approval, approve and      *)
(* promote of runtime/execution_lifecycle.py, with the git effects of      *)
(* workspace/git_worktree.py and runtime/promotion_manager.py.             *)
(*                                                                         *)
(* Every command is a session under the execution lock (module             *)
(* FencedLock).  A session first recovers what is pending in the journal   *)
(* (an approval, the fields of the record, a state transition), then acts. *)
(* It may die between any two steps.  Meanwhile the user edits the         *)
(* worktree, commits on the branch or leaves it dirty, and the approval    *)
(* expires.                                                                *)
(*                                                                         *)
(* A commit is identified with the content of its tree: each edit of the   *)
(* worktree writes something new.  0 is the base, or no commit.  Left out: *)
(* the repair loop of verify (there is one suite), cancel, switching the   *)
(* branch of the original checkout, clock regression, and resume, which in  *)
(* these states recovers like any session and then raises.                 *)
(***************************************************************************)
EXTENDS Naturals, Sequences, FiniteSets, FiniteSetsExt

CONSTANTS
  MaxContent,    \* bound: contents of the worktree
  MaxMoves,      \* bound: what the user and the clock do
  MaxRequests,   \* bound: approval requests
  MaxFaults      \* bound: crashes

ASSUME PromotionBoundsAreNat ==
  /\ MaxContent \in Nat \ {0} /\ MaxMoves \in Nat
  /\ MaxRequests \in Nat /\ MaxFaults \in Nat

Commit == 0 .. MaxContent
User == 0    \* on the original branch: a commit that is not the harness's

VARIABLES
  record,      \* snapshot: [rev, state, candidate, promoted, approval]
  journal,     \* events [kind, rev, commit, value]
  projection,  \* approval-request.json: the position of its event, 0 if none
  suite,       \* the verification suite: [commit, verdict]
  tree,        \* content of the worktree
  head,        \* its HEAD
  reference,   \* the HEAD its reference records
  original,    \* the commits on the original branch since the base
  dirty,       \* the original checkout has uncommitted changes
  expired,     \* the validity of the latest request is over
  op, pc,      \* the session that holds the lock, and where it is
  verifier,    \* a verify call outside the lock: [wants, commit]
  moves, faults

git == <<tree, head, reference>>
checkout == <<original, dirty>>
disk == <<record, journal, projection, suite>>
vars == <<disk, git, checkout, expired, op, pc, verifier, moves, faults>>

Init ==
  /\ record = [rev |-> 1, state |-> "VERIFYING", candidate |-> 0,
               promoted |-> 0, approval |-> "NOT_REQUIRED"]
  /\ journal = << >> /\ projection = 0
  /\ suite = [commit |-> 0, verdict |-> "none"]
  /\ tree = 1 /\ head = 0 /\ reference = 0
  /\ original = << >> /\ dirty = FALSE
  /\ expired = FALSE
  /\ op = "none" /\ pc = "idle"
  /\ verifier = [wants |-> "nothing", commit |-> 0]
  /\ moves = 0 /\ faults = 0

-----------------------------------------------------------------------------
(* Reading the journal.                                                    *)

Positions(kinds) == {i \in DOMAIN journal : journal[i].kind \in kinds}
Pending(i) == journal[i].rev > record.rev

\* The commit of the latest event of this kind before position n; 0 if none.
CommitBefore(kind, n) ==
  LET before == {i \in Positions({kind}) : i < n} IN
  IF before = {} THEN 0 ELSE journal[Max(before)].commit

\* The snapshot with the effect of an event.
Applied(e) ==
  [rev       |-> e.rev,
   state     |-> IF e.kind = "state" THEN e.value ELSE record.state,
   candidate |-> IF e.kind = "candidate" THEN e.commit ELSE record.candidate,
   promoted  |-> IF e.kind = "promoted" THEN e.commit ELSE record.promoted,
   approval  |-> IF e.kind = "approval" THEN e.value ELSE record.approval]

\* Revisions increase; only the last event is pending, and it comes next.
RevisionsHold(kinds) ==
  \A i \in Positions(kinds) :
    /\ \A j \in Positions(kinds) : j < i => journal[j].rev < journal[i].rev
    /\ Pending(i) => /\ journal[i].rev = record.rev + 1
                     /\ i = Max(Positions(kinds))

Approvals == Positions({"approval"})
Latest == journal[Max(Approvals)]
Live == Approvals # {} /\ Latest.value \in {"PENDING", "APPROVED"}

\* A request opens or follows a closed one; a decision answers a live request.
Follows(i) ==
  LET before == {j \in Approvals : j < i}
      last == journal[Max(before)] IN
  IF journal[i].value = "PENDING"
  THEN before # {} => last.value \in {"EXPIRED", "INVALIDATED"}
  ELSE /\ before # {} /\ last.value \in {"PENDING", "APPROVED"}
       /\ last.commit = journal[i].commit

\* _recover_promotion_approval_locked
ApprovalHistoryHolds ==
  /\ RevisionsHold({"approval"})
  /\ \A i \in Approvals : Follows(i)
  /\ Approvals # {} /\ ~ Pending(Max(Approvals)) => record.approval = Latest.value
  /\ projection \in Approvals \cup {0}

Outcomes == {"candidate", "promoted"}
Bound == {"promoted", "started", "dry"}

\* _recover_promotion_fields_locked
FieldHistoryHolds ==
  /\ RevisionsHold(Outcomes)
  /\ \A i \in Positions(Bound) : journal[i].commit = CommitBefore("candidate", i)
  /\ LET out == Positions(Outcomes)
         now == IF out # {} /\ Pending(Max(out))
                THEN Applied(journal[Max(out)]) ELSE record
         end == Len(journal) + 1 IN
     /\ now.candidate = CommitBefore("candidate", end)
     /\ now.promoted = CommitBefore("promoted", end)

-----------------------------------------------------------------------------
(* Sessions.                                                               *)

Ops == {"prepare", "request", "approve", "verify", "promote", "dryrun"}

Requests == {i \in Approvals : journal[i].value = "PENDING"}

Places == {"idle", "approval", "fields", "state", "act", "cas", "project",
           "commit", "publish", "record", "gates", "dry", "start", "check",
           "pick", "prove", "blocked", "outcome", "evidence", "complete"}

\* A command takes the lock.  (promote has a session before this one that
\* recovers the approval and the state only, as the first one of verify does.)
Begin(o) ==
  /\ pc = "idle"
  /\ o = "request" => Cardinality(Requests) < MaxRequests
  /\ o = "verify" => verifier.wants = "nothing"
  /\ op' = o /\ pc' = "approval"
  /\ UNCHANGED <<disk, git, checkout, expired, verifier, moves, faults>>

\* The session returns or raises: the lock is free.
Return == pc' = "idle"

Go(place) == pc' = place

\* Mutant of AfterApproval: promote does not recover the fields.
FieldsForgotten == IF op \in {"prepare", "request"} THEN "fields" ELSE "state"

\* After the approval, the fields are recovered by those who need them.
AfterApproval ==
  IF op \in {"prepare", "request", "promote", "dryrun"} THEN "fields" ELSE "state"

\* Mutant of RecoverApproval: the pending decision is left for later.
ApprovalLeftPending ==
  /\ pc = "approval"
  /\ Go(AfterApproval)
  /\ UNCHANGED <<disk, git, checkout, expired, op, verifier, moves, faults>>

\* Mutant of RecoverApproval: the projection first.
ProjectionFirst ==
  /\ pc = "approval"
  /\ IF Approvals # {} /\ projection # Max(Approvals)
     THEN projection' = Max(Approvals) /\ UNCHANGED <<record, pc>>
     ELSE /\ IF Approvals # {} /\ Pending(Max(Approvals))
             THEN record' = Applied(Latest) ELSE UNCHANGED record
          /\ Go(AfterApproval) /\ UNCHANGED projection
  /\ UNCHANGED <<journal, suite, git, checkout, expired, op, verifier, moves, faults>>

\* _recover_approval_locked: first the snapshot, then the projection.
RecoverApproval ==
  /\ pc = "approval"
  /\ \/ ~ ApprovalHistoryHolds /\ Return /\ UNCHANGED <<record, projection>>
     \/ /\ ApprovalHistoryHolds /\ Approvals # {} /\ Pending(Max(Approvals))
        /\ record' = Applied(Latest)
        /\ UNCHANGED <<projection, pc>>
     \/ /\ ApprovalHistoryHolds
        /\ Approvals # {} => ~ Pending(Max(Approvals))
        /\ projection' = IF Approvals = {} THEN projection ELSE Max(Approvals)
        /\ Go(AfterApproval)
        /\ UNCHANGED record
  /\ UNCHANGED <<journal, suite, git, checkout, expired, op, verifier, moves, faults>>

RecoverFields ==
  /\ pc = "fields"
  /\ LET out == Positions(Outcomes) IN
     \/ ~ FieldHistoryHolds /\ Return /\ UNCHANGED record
     \/ /\ FieldHistoryHolds
        /\ record' = IF out # {} /\ Pending(Max(out))
                     THEN Applied(journal[Max(out)]) ELSE record
        /\ Go("state")
  /\ UNCHANGED <<journal, projection, suite, git, checkout, expired, op,
                 verifier, moves, faults>>

\* EventSourcedStateMachine.recover (module StateMachine).
RecoverState ==
  /\ pc = "state"
  /\ LET s == Positions({"state"}) IN
     record' = IF s # {} /\ Pending(Max(s)) THEN Applied(journal[Max(s)]) ELSE record
  /\ Go("act")
  /\ UNCHANGED <<journal, projection, suite, git, checkout, expired, op,
                 verifier, moves, faults>>

Acts(ops) == pc = "act" /\ op \in ops

Note(kind, rev, commit, value) ==
  journal' = Append(journal, [kind |-> kind, rev |-> rev, commit |-> commit,
                              value |-> value])

\* Write an event that changes the record; the compare-and-set is next.
WriteAhead(kind, commit, value) ==
  Note(kind, record.rev + 1, commit, value) /\ Go("cas")

Decide(value) == WriteAhead("approval", Latest.commit, value)

\* Where a session goes on once its event e is in the snapshot.
AfterCas(e) ==
  CASE e.kind = "approval" -> "project"
    [] e.kind = "promoted" -> "evidence"
    [] e.kind = "state" /\ e.value = "PROMOTING" -> "check"
    [] e.kind = "state" /\ e.value = "GENERATING_EVIDENCE" -> "complete"
    [] OTHER -> "idle"

CompareAndSet ==
  /\ pc = "cas"
  /\ record' = Applied(journal[Len(journal)])
  /\ Go(AfterCas(journal[Len(journal)]))
  /\ UNCHANGED <<journal, projection, suite, git, checkout, expired, op,
                 verifier, moves, faults>>

PublishProjection ==
  /\ pc = "project"
  /\ projection' = Max(Approvals)
  /\ Return
  /\ UNCHANGED <<record, journal, suite, git, checkout, expired, op, verifier,
                 moves, faults>>

-----------------------------------------------------------------------------
(* prepare_candidate.                                                      *)

\* load_candidate: a recorded child of the base, checked out and clean.
Loads == reference # 0 /\ reference = head /\ tree = head

Prepare ==
  /\ Acts({"prepare"})
  /\ IF \/ record.state # "VERIFYING"
        \/ record.candidate # 0 /\ Loads /\ reference = record.candidate
     THEN Return ELSE Go("commit")
  /\ UNCHANGED <<disk, git, checkout, expired, op, verifier, moves, faults>>

OriginalAtBase == original = << >> /\ ~ dirty

\* create_candidate_commit: one child of the base, or the one already there.
CommitCandidate ==
  /\ pc = "commit"
  /\ IF OriginalAtBase /\ tree # 0
     THEN head' = tree /\ Go("publish")
     ELSE Return /\ UNCHANGED head
  /\ UNCHANGED <<disk, tree, reference, checkout, expired, op, verifier, moves, faults>>

PublishReference ==
  /\ pc = "publish"
  /\ IF tree = head /\ OriginalAtBase
     THEN reference' = head /\ Go("record")
     ELSE Return /\ UNCHANGED reference
  /\ UNCHANGED <<disk, tree, head, checkout, expired, op, verifier, moves, faults>>

RecordCandidate ==
  /\ pc = "record" /\ op = "prepare"
  /\ IF tree = head
     THEN WriteAhead("candidate", reference, "")
     ELSE Return /\ UNCHANGED journal
  /\ UNCHANGED <<record, projection, suite, git, checkout, expired, op,
                 verifier, moves, faults>>

-----------------------------------------------------------------------------
(* verify: one session to recover, a look at the worktree without the lock, *)
(* one session to run the suite or to block the execution.                  *)

VerifyReads ==
  /\ Acts({"verify"})
  /\ IF record.state = "VERIFYING"
     THEN verifier' = [wants |-> "look", commit |-> record.candidate]
     ELSE UNCHANGED verifier
  /\ Return
  /\ UNCHANGED <<disk, git, checkout, expired, op, moves, faults>>

\* The worktree is at its recorded HEAD and clean.
WorktreeAt(commit) == commit = head /\ tree = head

VerifyLooks ==
  /\ verifier.wants = "look"
  /\ verifier' =
       IF ~ WorktreeAt(reference) THEN [verifier EXCEPT !.wants = "block"]
       ELSE IF reference # 0 /\ reference = verifier.commit
            THEN [verifier EXCEPT !.wants = "suite"]
            ELSE [wants |-> "nothing", commit |-> 0]
  /\ UNCHANGED <<disk, git, checkout, expired, op, pc, moves, faults>>

\* The second session recovers the state only.
BeginSuite ==
  /\ pc = "idle" /\ verifier.wants \in {"suite", "block"}
  /\ op' = verifier.wants /\ pc' = "state"
  /\ verifier' = [verifier EXCEPT !.wants = "nothing"]
  /\ UNCHANGED <<disk, git, checkout, expired, moves, faults>>

Block == WriteAhead("state", 0, "BLOCKED_PREREQUISITE")

\* _block_verification_prerequisite
BlockExecution ==
  /\ Acts({"block"})
  /\ IF record.state = "VERIFYING" THEN Block ELSE Return /\ UNCHANGED journal
  /\ UNCHANGED <<record, projection, suite, git, checkout, expired, op,
                 verifier, moves, faults>>

\* _verify_execution: a suite that has run, or was interrupted, is not rerun.
StartSuite ==
  /\ Acts({"suite"})
  /\ IF record.state # "VERIFYING" \/ suite.verdict # "none"
     THEN Return /\ UNCHANGED <<journal, suite>>
     ELSE IF WorktreeAt(verifier.commit)
          THEN /\ suite' = [commit |-> verifier.commit, verdict |-> "torn"]
               /\ Go("gates") /\ UNCHANGED journal
          ELSE Block /\ UNCHANGED suite
  /\ UNCHANGED <<record, projection, git, checkout, expired, op, verifier,
                 moves, faults>>

FinishSuite ==
  /\ pc = "gates"
  /\ \/ ~ WorktreeAt(verifier.commit) /\ Block /\ UNCHANGED suite
     \/ /\ WorktreeAt(verifier.commit)
        /\ \E v \in {"passed", "failed"} : suite' = [suite EXCEPT !.verdict = v]
        /\ Return /\ UNCHANGED journal
  /\ UNCHANGED <<record, projection, git, checkout, expired, op, verifier,
                 moves, faults>>

-----------------------------------------------------------------------------
(* request_promotion_approval and approve.                                 *)

Passed(commit) == suite = [commit |-> commit, verdict |-> "passed"]

\* _current_promotion_approval_content can be computed.
Provable ==
  /\ Loads /\ record.candidate \in {0, reference}
  /\ Passed(reference)

\* same: the reason and the validity are those of the live request.
RequestApproval(same) ==
  /\ Acts({"request"})
  /\ IF record.state # "VERIFYING" \/ ~ Provable
        \/ (Live /\ Latest.commit = reference /\ same)
     THEN Return /\ UNCHANGED <<journal, expired>>
     ELSE IF Live THEN Decide("INVALIDATED") /\ UNCHANGED expired
     ELSE WriteAhead("approval", reference, "PENDING") /\ expired' = FALSE
  /\ UNCHANGED <<record, projection, suite, git, checkout, op, verifier, moves, faults>>

Approve ==
  /\ Acts({"approve"})
  /\ IF record.state = "VERIFYING" /\ Live /\ Latest.value = "PENDING"
        /\ (expired \/ Provable)
     THEN Decide(IF expired THEN "EXPIRED"
                 ELSE IF Latest.commit = reference THEN "APPROVED"
                 ELSE "INVALIDATED")
     ELSE Return /\ UNCHANGED journal
  /\ UNCHANGED <<record, projection, suite, git, checkout, expired, op,
                 verifier, moves, faults>>

-----------------------------------------------------------------------------
(* promote.                                                                *)

MayPromote ==
  /\ record.state \in (IF op = "dryrun" THEN {"VERIFYING"}
                       ELSE {"VERIFYING", "PROMOTING"})
  /\ Loads /\ record.candidate \in {0, reference}
  /\ Live /\ Latest.value = "APPROVED" /\ record.approval = "APPROVED"

\* Mutant of ApprovedContent: any approval will do.
ApprovedOnce == suite.verdict = "passed"

\* What was approved is what is there, and its suite passed.
ApprovedContent == Latest.commit = reference /\ Passed(reference)

Authorize ==
  /\ Acts({"promote", "dryrun"})
  /\ \/ ~ MayPromote /\ Return /\ UNCHANGED journal
     \/ MayPromote /\ expired /\ Decide("EXPIRED")
     \/ MayPromote /\ ~ expired /\ ~ ApprovedContent /\ Decide("INVALIDATED")
     \/ /\ MayPromote /\ ~ expired /\ ApprovedContent
        /\ CASE op = "dryrun" -> Go("dry") /\ UNCHANGED journal
             [] record.state = "VERIFYING" ->
                  Note("started", 0, reference, "") /\ Go("start")
             [] OTHER -> Go("check") /\ UNCHANGED journal
  /\ UNCHANGED <<record, projection, suite, git, checkout, expired, op,
                 verifier, moves, faults>>

DryRun ==
  /\ pc = "dry"
  /\ IF \E i \in Positions({"dry"}) : journal[i].commit = reference
     THEN WriteAhead("state", 0, "DRY_RUN_COMPLETED")
     ELSE IF OriginalAtBase THEN Note("dry", 0, reference, "") /\ UNCHANGED pc
     ELSE Return /\ UNCHANGED journal
  /\ UNCHANGED <<record, projection, suite, git, checkout, expired, op,
                 verifier, moves, faults>>

StartPromotion ==
  /\ pc = "start"
  /\ WriteAhead("state", 0, "PROMOTING")
  /\ UNCHANGED <<record, projection, suite, git, checkout, expired, op,
                 verifier, moves, faults>>

\* Mutant of Check: the effect is not looked for before it is repeated.
CheckNothing ==
  /\ pc \in {"check", "prove"}
  /\ Go(IF dirty THEN "idle" ELSE IF pc = "check" THEN "pick" ELSE "outcome")
  /\ UNCHANGED <<disk, git, checkout, expired, op, verifier, moves, faults>>

\* recover_promotion, before the cherry-pick and again after it.
Check ==
  /\ pc \in {"check", "prove"}
  /\ Go(IF dirty THEN "idle"
        ELSE IF original = << >> THEN (IF pc = "check" THEN "pick" ELSE "idle")
        ELSE IF original = <<reference>> THEN "outcome" ELSE "blocked")
  /\ UNCHANGED <<disk, git, checkout, expired, op, verifier, moves, faults>>

\* git cherry-pick; a conflict is aborted and raised.
CherryPick ==
  /\ pc = "pick"
  /\ \/ original' = Append(original, reference) /\ Go("prove")
     \/ (dirty \/ original # << >>) /\ Return /\ UNCHANGED original
  /\ UNCHANGED <<disk, git, dirty, expired, op, verifier, moves, faults>>

BaseChanged ==
  /\ pc = "blocked"
  /\ WriteAhead("state", 0, "BLOCKED_BASE_CHANGED")
  /\ UNCHANGED <<record, projection, suite, git, checkout, expired, op,
                 verifier, moves, faults>>

RecordOutcome ==
  /\ pc = "outcome"
  /\ IF record.promoted = 0
     THEN WriteAhead("promoted", reference, "")
     ELSE Go("evidence") /\ UNCHANGED journal
  /\ UNCHANGED <<record, projection, suite, git, checkout, expired, op,
                 verifier, moves, faults>>

\* _complete_with_evidence
Complete ==
  /\ \/ pc = "evidence" /\ WriteAhead("state", 0, "GENERATING_EVIDENCE")
     \/ pc = "complete" /\ WriteAhead("state", 0, "COMPLETED")
  /\ UNCHANGED <<record, projection, suite, git, checkout, expired, op,
                 verifier, moves, faults>>

-----------------------------------------------------------------------------
(* Crashes, the user and the clock.                                        *)

\* A cherry-pick that is killed may leave a half-written checkout.
Crash ==
  /\ pc # "idle" /\ faults < MaxFaults
  /\ faults' = faults + 1
  /\ Return
  /\ dirty' \in {dirty} \cup (IF pc = "pick" THEN {TRUE} ELSE {})
  /\ UNCHANGED <<disk, git, original, expired, op, verifier, moves>>

Edit ==
  /\ tree < MaxContent
  /\ tree' = tree + 1
  /\ UNCHANGED <<checkout, expired>>

Advance ==
  /\ ~ dirty
  /\ original' = Append(original, User)
  /\ UNCHANGED <<tree, dirty, expired>>

Dirty ==
  /\ ~ dirty /\ dirty' = TRUE
  /\ UNCHANGED <<tree, original, expired>>

Expire ==
  /\ Live /\ ~ expired /\ expired' = TRUE
  /\ UNCHANGED <<tree, checkout>>

Move ==
  /\ moves < MaxMoves
  /\ moves' = moves + 1
  /\ Edit \/ Advance \/ Dirty \/ Expire
  /\ UNCHANGED <<disk, head, reference, op, pc, verifier, faults>>

Clean ==
  /\ dirty /\ dirty' = FALSE
  /\ UNCHANGED <<disk, git, original, expired, op, pc, verifier, moves, faults>>

-----------------------------------------------------------------------------
Session ==
  \/ RecoverApproval \/ RecoverFields \/ RecoverState
  \/ CompareAndSet \/ PublishProjection
  \/ Prepare \/ CommitCandidate \/ PublishReference \/ RecordCandidate
  \/ VerifyReads \/ BlockExecution \/ StartSuite \/ FinishSuite
  \/ (\E same \in BOOLEAN : RequestApproval(same)) \/ Approve
  \/ Authorize \/ DryRun \/ StartPromotion \/ Check \/ CherryPick
  \/ BaseChanged \/ RecordOutcome \/ Complete

Next ==
  \/ Session \/ (\E o \in Ops : Begin(o)) \/ VerifyLooks \/ BeginSuite
  \/ Crash \/ Move \/ Clean

Spec == Init /\ [][Next]_vars

\* A session goes on unless it dies, and the user calls promote again and again
\* with a checkout that is clean again and again.
FairSpec ==
  /\ Spec /\ WF_vars(Session) /\ SF_vars(Begin("promote")) /\ WF_vars(Clean)

-----------------------------------------------------------------------------
(* Properties.                                                             *)

States == {"VERIFYING", "PROMOTING", "GENERATING_EVIDENCE", "COMPLETED",
           "DRY_RUN_COMPLETED", "BLOCKED_PREREQUISITE", "BLOCKED_BASE_CHANGED"}
Decisions == {"PENDING", "APPROVED", "EXPIRED", "INVALIDATED"}

Event ==
  [kind : {"approval"}, rev : Nat, commit : Commit, value : Decisions]
    \cup [kind : {"state"}, rev : Nat, commit : Commit, value : States]
    \cup [kind : {"candidate", "promoted", "started", "dry"}, rev : Nat,
          commit : Commit, value : {""}]

TypeOK ==
  /\ record \in [rev : Nat, state : States, candidate : Commit, promoted : Commit,
                 approval : Decisions \cup {"NOT_REQUIRED"}]
  /\ journal \in Seq(Event) /\ projection \in Nat
  /\ suite \in [commit : Commit,
                verdict : {"none", "torn", "passed", "failed"}]
  /\ {tree, head, reference} \subseteq Commit
  /\ original \in Seq(Commit)
  /\ dirty \in BOOLEAN /\ expired \in BOOLEAN
  /\ op \in Ops \cup {"none", "suite", "block"} /\ pc \in Places
  /\ verifier \in [wants : {"nothing", "look", "suite", "block"}, commit : Commit]
  /\ moves \in Nat /\ faults \in Nat

\* The only commit the harness ever puts on the user's branch is the recorded
\* candidate, while the execution is PROMOTING under an approval of exactly that
\* commit, with a suite that passed on it; whatever was edited in between.
LandsAuthorized ==
  [][\A c \in 1 .. MaxContent :
       original' = Append(original, c) =>
         /\ record.state = "PROMOTING" /\ record.approval = "APPROVED"
         /\ record.candidate = c /\ Passed(c) /\ Latest.commit = c]_vars

\* However often a promotion is interrupted and repeated, the cherry-pick is
\* done at most once.
LandsOnce ==
  \A i, j \in DOMAIN original :
    original[i] # User /\ original[j] # User => i = j

\* The record says promoted only of what is on the branch, and an execution
\* completes only with its promotion on record.
RecordTellsTheTruth ==
  /\ record.promoted # 0 =>
       \E i \in DOMAIN original : original[i] = record.promoted
  /\ record.state \in {"GENERATING_EVIDENCE", "COMPLETED"} => record.promoted # 0
  /\ record.state = "DRY_RUN_COMPLETED" =>
       \A i \in DOMAIN original : original[i] = User

\* Whatever crashed and whoever came next, the approval history is one that
\* recovery accepts, unless verify has blocked the execution.
ApprovalRecoversUnlessBlocked ==
  record.state # "BLOCKED_PREREQUISITE" => ApprovalHistoryHolds

\* Readers of the projection never see a decision before the snapshot has it.
ProjectionNeverAhead == projection # 0 => ~ Pending(projection)

\* Record, journal and checkouts are what the commands read back and agree on what was
\* promoted; event, snapshot and projection of a decision become visible in order.
FilesInv == TypeOK /\ RecordTellsTheTruth /\ ProjectionNeverAhead

\* What was written ahead reaches its readers, the outcome of a promotion the
\* record and a decision the projection, unless verify has blocked the execution.
ReadersAreUpToDate ==
  /\ Positions({"promoted"}) # {} => record.promoted # 0
  /\ Approvals # {} => projection = Max(Approvals) /\ ~ Pending(projection)

WrittenAheadReachesReaders ==
  ~ ReadersAreUpToDate
    ~> (ReadersAreUpToDate \/ record.state = "BLOCKED_PREREQUISITE")
=============================================================================
