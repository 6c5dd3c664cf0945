----------------------------- MODULE GitEffects -----------------------------
(***************************************************************************)
(* The git effects of one execution outside of its promotion: its worktree *)
(* (module Worktree) from the first agent's node to its cleanup, and the   *)
(* rollback of what it promoted (module Rollback).  The commands take      *)
(* turns under the execution lock, any of them may die at any step, and    *)
(* the user works in both checkouts meanwhile.                             *)
(***************************************************************************)
EXTENDS Worktree, Rollback

vars == <<record, checkout, pc, worktree, agent, rollback, moves, faults>>

Init ==
  /\ state = "EXECUTING" /\ promoted = FALSE /\ journal = << >>
  /\ original = << >> /\ work = "clean"
  /\ pc = "idle" /\ moves = 0 /\ faults = 0
  /\ reference = NoReference
  /\ branch \in {"absent", "base"}
  /\ dir \in (IF branch = "base" THEN {"absent", "whole"} ELSE {"absent", "foreign"})
  /\ edited = FALSE /\ node = "ready" /\ visits = 0
  /\ hook \in {"none", "first"} /\ expired = FALSE
  /\ previous = << >> /\ result = "none" /\ reverts = 0 /\ hookRuns = 0

\* A session of the worktree leaves the rollback's state alone, and conversely.
WorktreeSteps ==
  /\ \/ StartNode \/ WorktreeSession \/ Traverse \/ CommitCandidate \/ Finish
     \/ Cancel \/ DecideCleanup
  /\ UNCHANGED rollback

RollbackSteps ==
  /\ \/ (\E same \in BOOLEAN : RequestHookApproval(same)) \/ ApproveHook
     \/ RollbackAgain \/ DecideRollback \/ RollbackSession
  /\ UNCHANGED <<worktree, agent>>

\* The process of a session dies, maybe while git is running.
Crash ==
  /\ pc # "idle" /\ faults < MaxFaults
  /\ faults' = faults + 1
  /\ Return /\ Forget
  /\ DiesInGit /\ DiesInRevert
  /\ UNCHANGED <<record, reference, agent, hook, expired, hookRuns, moves>>

\* The user on the original branch, the clock, and the configured hook, which
\* is read once by each process.
MoveOriginal ==
  \/ /\ work = "clean" /\ original' = Append(original, "user")
     /\ UNCHANGED <<work, hook, expired>>
  \/ /\ work = "clean" /\ original # << >> /\ original' = Front(original)
     /\ UNCHANGED <<work, hook, expired>>
  \/ /\ work = "clean" /\ work' = "dirty"
     /\ UNCHANGED <<original, hook, expired>>
  \/ /\ LatestIs({"requested", "approved"}) /\ ~ expired /\ expired' = TRUE
     /\ UNCHANGED <<original, work, hook>>
  \/ /\ pc = "idle" /\ hook' \in Hooks \ {hook}
     /\ UNCHANGED <<original, work, expired>>

Move ==
  /\ moves < MaxMoves /\ moves' = moves + 1
  /\ \/ MoveWorktree /\ UNCHANGED <<checkout, hook, expired>>
     \/ MoveOriginal /\ UNCHANGED <<branch, dir, edited>>
  /\ UNCHANGED <<record, pc, reference, agent, previous, result, effects, faults>>

\* The user brings the original checkout in order.
Clean ==
  /\ pc = "idle" /\ work # "clean" /\ work' = "clean"
  /\ UNCHANGED <<record, original, pc, worktree, agent, rollback, moves, faults>>

Next == WorktreeSteps \/ RollbackSteps \/ Crash \/ Move \/ Clean

Spec == Init /\ [][Next]_vars

Proceed ==
  \/ WorktreeSession /\ UNCHANGED rollback
  \/ RollbackSession /\ UNCHANGED <<worktree, agent>>

Repeat ==
  \/ StartNode /\ UNCHANGED rollback
  \/ RollbackAgain /\ UNCHANGED <<worktree, agent>>

\* A session goes on unless it dies; the user resumes the execution and repeats a
\* rollback that was interrupted.
FairSpec ==
  /\ Spec
  /\ WF_vars(Proceed)
  /\ WF_vars(Repeat)

-----------------------------------------------------------------------------
(* Properties.                                                             *)

Places == {"idle", "load", "create", "add", "fail", "publish", "reference", "agent",
           "inspect", "remove", "removed", "cleaned", "refused", "enter",
           "try", "revert", "prove", "hook", "reconcile", "abort", "restore",
           "report", "settle"}

Kinds == {"cleanup decided", "cleanup completed", "cleanup blocked", "requested", "approved",
          "expired", "invalidated", "rollback decided", "compensated", "blocked"}
Results == {"none", "compensated", "blocked", "restored", "unrestored"}
Event == [kind : Kinds, attempt : Nat, hook : Hooks, result : Results]

TypeOK ==
  /\ state \in Terminal \cup {"EXECUTING", "VERIFYING", "ROLLBACK_IN_PROGRESS"}
  /\ promoted \in BOOLEAN
  /\ journal \in Seq(Event)
  /\ original \in Seq({"user", "pick", "revert"})
  /\ work \in {"clean", "dirty", "reverting"}
  /\ pc \in Places
  /\ reference \in [status : {"none", "CREATING", "ACTIVE", "FAILED",
                              "CLEANUP_PENDING", "REMOVED"},
                    head : {"absent", "base", "candidate"}]
  /\ branch \in {"absent", "base", "candidate", "other"}
  /\ dir \in {"absent", "unfinished", "whole", "foreign"}
  /\ edited \in BOOLEAN /\ node \in {"ready", "open", "done", "failed"}
  /\ hook \in Hooks /\ expired \in BOOLEAN
  /\ previous \in Seq({"user", "pick", "revert"})
  /\ result \in Results
  /\ {visits, reverts, hookRuns, moves, faults} \subseteq Nat

\* However often a rollback dies and is repeated, at most one revert of the
\* harness lands and its hook runs at most once.
RevertsOnce == reverts <= 1 /\ hookRuns <= 1

\* What git did halfway is visible in what is recorded: a directory that is not
\* finished never belongs to an ACTIVE or REMOVED reference, and a half-done
\* revert never to an execution that counts as completed or compensated.
PartialEffectsShow ==
  /\ dir = "unfinished" =>
       reference.status \in {"CREATING", "FAILED", "CLEANUP_PENDING"}
  /\ work = "reverting" => state \in {"ROLLBACK_IN_PROGRESS", "BLOCKED_ROLLBACK"}

\* A compensated execution has its decision, its revert and, if a hook was
\* configured, a hook that ran to its end; and a revert counts as compensation
\* only if it was made on exactly what the session had looked at, even if the
\* user commits in between; and there is never a second one.
CompensationIsProven ==
  /\ RevertsOnce
  /\ state = "COMPENSATED" =>
       /\ reverts = 1 /\ promoted
       /\ \E i \in Positions({"rollback decided"}), j \in Positions({"compensated"}) :
            i < j /\ (journal[j].hook # "none" => hookRuns = 1)
  /\ result = "compensated" =>
       \A i \in DOMAIN original :
         original[i] = "revert" => SubSeq(original, 1, i - 1) = previous

\* The history of the hook's approval is always one that the next command
\* accepts, whoever requested, approved, let expire or reconfigured.
HookHistoryReplays == ApprovalsReplay

\* Recorded states stand for what git has done, also halfway, and the approvals of the
\* hook are readable to every command.
GitInv == TypeOK /\ PartialEffectsShow /\ HookHistoryReplays

\* A destructive hook runs only in an attempt that was decided after the
\* approval of this hook, which nothing has ended since.
HookRunsApproved ==
  [][hookRuns' > hookRuns /\ Destructive =>
       /\ state = "ROLLBACK_IN_PROGRESS"
       /\ Latest.kind = "approved" /\ Latest.hook = hook
       /\ \E i \in Positions({"rollback decided"}) :
            \A j \in Approvals : j < i]_vars

\* The harness removes a directory only after a decision in a terminal state,
\* under a pending reference, and without losing what is not committed; the
\* branch stays.
NoWorkIsLost ==
  [][dir' # dir /\ dir \in {"whole", "unfinished", "foreign"} /\ moves' = moves =>
       /\ state \in Terminal /\ reference.status = "CLEANUP_PENDING"
       /\ dir = "whole" => ~ edited
       /\ branch' = branch]_vars

\* A rollback that was begun comes to an end that is not in between.
RollbackSettles ==
  state = "ROLLBACK_IN_PROGRESS" ~> state \in {"COMPENSATED", "BLOCKED_ROLLBACK"}
=============================================================================
