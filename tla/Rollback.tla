------------------------------ MODULE Rollback ------------------------------
(***************************************************************************)
(* runtime/rollback_manager.py and the commands request-rollback-hook-     *)
(* approval, approve and rollback of runtime/execution_lifecycle.py: the   *)
(* recorded promotion is reverted once, the outcome is proven from git,    *)
(* and everything that cannot be proven is blocked for a human.            *)
(*                                                                         *)
(* A revert stops at a conflict and is aborted, is refused, or runs into   *)
(* the timeout and may have done anything.  After a verified revert a hook *)
(* of the product may run; a destructive one needs an approval bound to    *)
(* this attempt.  Left out: a wall clock that goes back, a revert or merge *)
(* of the user that is in progress when the session looks.                 *)
(***************************************************************************)
EXTENDS Workspace

VARIABLES
  hook,      \* configured: none, a safe one, or one of two destructive ones
  expired,   \* the validity of the latest request is over
  previous,  \* the branch as the session found it
  result,    \* what the session will report
  reverts,   \* history: reverts of the harness that landed
  hookRuns   \* history: runs of the hook

effects == <<reverts, hookRuns>>
rollback == <<hook, expired, previous, result, effects>>

Hooks == {"none", "safe", "first", "second"}
Destructive == hook \in {"first", "second"}

-----------------------------------------------------------------------------
(* The approval of a destructive hook.                                     *)

Approvals == Positions({"requested", "approved", "expired", "invalidated"})

\* The event of the history that precedes place i of the journal.
Before(i) ==
  LET earlier == {j \in Approvals : j < i} IN
  IF earlier = {} THEN [kind |-> "none", attempt |-> 0, hook |-> "none"]
  ELSE journal[CHOOSE j \in earlier : \A k \in earlier : k <= j]

Latest == Before(Len(journal) + 1)
LatestIs(kinds) == Latest.kind \in kinds

\* A request is new and follows one that is closed; a decision answers the
\* request before it.
Follows(i, last) ==
  CASE journal[i].kind = "requested" ->
         /\ \A j \in Approvals : j < i => journal[j].attempt # journal[i].attempt
         /\ last.kind \in {"none", "expired", "invalidated"}
    [] journal[i].kind = "approved" ->
         last.kind = "requested" /\ last.attempt = journal[i].attempt
    [] OTHER ->
         last.kind \in {"requested", "approved"} /\ last.attempt = journal[i].attempt

\* _latest_rollback_hook_approval accepts the history.
ApprovalsReplay == \A i \in Approvals : Follows(i, Before(i))

Decide(kind) == Note(kind, Latest.attempt, Latest.hook, "none")

Requests == Cardinality(Positions({"requested"}))

\* request_rollback_hook_approval; same: reason and validity are unchanged.
RequestHookApproval(same) ==
  /\ Begin /\ Destructive /\ state = "COMPLETED" /\ promoted
  /\ ApprovalsReplay
  /\ \/ /\ LatestIs({"requested", "approved"}) /\ expired
        /\ Decide("expired") /\ UNCHANGED expired
     \/ /\ LatestIs({"requested", "approved"}) /\ ~ expired
        /\ ~ (same /\ Latest.hook = hook)
        /\ Decide("invalidated") /\ UNCHANGED expired
     \/ /\ ~ LatestIs({"requested", "approved"}) /\ MoreCommands
        /\ Note("requested", Requests + 1, hook, "none") /\ expired' = FALSE
  /\ UNCHANGED <<state, promoted, checkout, pc, hook, previous, result, effects,
                 moves, faults>>

\* approve of a completed execution, _approve_rollback_hook_locked.
ApproveHook ==
  /\ Begin /\ Destructive /\ state = "COMPLETED"
  /\ ApprovalsReplay
  /\ \/ LatestIs({"requested", "approved"}) /\ expired /\ Decide("expired")
     \/ LatestIs({"requested"}) /\ ~ expired /\ Latest.hook # hook /\ Decide("invalidated")
     \/ LatestIs({"requested"}) /\ ~ expired /\ Latest.hook = hook /\ Decide("approved")
  /\ UNCHANGED <<state, promoted, checkout, pc, rollback, moves, faults>>

-----------------------------------------------------------------------------
(* rollback.                                                               *)

\* Mutant of Approved: for whatever hook.
ApprovedForAny == LatestIs({"approved"})

\* _approved_rollback_hook_attempt
Approved == LatestIs({"approved"}) /\ Latest.hook = hook

\* Mutant of RollbackAgain: the command refuses and leaves the state.
RollbackRefused ==
  /\ Begin /\ state = "ROLLBACK_IN_PROGRESS"
  /\ UNCHANGED <<record, checkout, pc, rollback, moves, faults>>

\* An interrupted rollback is ambiguous: it is blocked and never repeated.
RollbackAgain ==
  /\ Begin /\ state = "ROLLBACK_IN_PROGRESS"
  /\ state' = "BLOCKED_ROLLBACK"
  /\ UNCHANGED <<promoted, journal, checkout, pc, rollback, moves, faults>>

DecideRollback ==
  /\ Begin /\ state = "COMPLETED"
  /\ CASE promoted /\ Destructive /\ ApprovalsReplay /\ LatestIs({"approved"}) /\ expired ->
            Decide("expired") /\ UNCHANGED pc
       [] promoted /\ (Destructive => ApprovalsReplay /\ Approved) ->
            Say("rollback decided") /\ Go("enter")
       [] OTHER -> UNCHANGED <<journal, pc>>
  /\ UNCHANGED <<state, promoted, checkout, rollback, moves, faults>>

EnterRollback ==
  /\ pc = "enter"
  /\ state' = "ROLLBACK_IN_PROGRESS" /\ Go("try")
  /\ UNCHANGED <<promoted, journal, checkout, rollback, moves, faults>>

\* What a session knew ends with it.
Forget == previous' = << >> /\ result' = "none"

Report(r) == result' = r /\ Go("report")

\* _authorize_hook: the approval is still valid.
Authorized == Approved /\ ~ expired

\* RollbackManager.rollback before its effect.  A trust boundary or a local
\* configuration of git that refuses may block every attempt.
TryRollback ==
  /\ pc = "try"
  /\ previous' = original
  /\ \/ Report("blocked")
     \/ /\ Destructive => Authorized
        /\ work = "clean" /\ "pick" \in ToSet(original)
        /\ Go("revert") /\ UNCHANGED result
  /\ UNCHANGED <<record, checkout, hook, expired, effects, moves, faults>>

Landed == original' = Append(original, "revert") /\ reverts' = reverts + 1

\* What a revert that does not succeed leaves: it was refused, it has stopped,
\* or it was killed at any point, the commit included.
UnfinishedRevert ==
  \/ UNCHANGED <<original, reverts>> /\ work' \in {work, "dirty", "reverting"}
  \/ Landed /\ UNCHANGED work

\* git revert --no-edit: with success, or with anything else.
Revert ==
  /\ pc = "revert"
  /\ \/ Landed /\ UNCHANGED work /\ Go("prove")
     \/ UnfinishedRevert /\ Go("reconcile")
  /\ UNCHANGED <<record, hook, expired, previous, result, hookRuns, moves, faults>>

\* Wherever git does not answer, the outcome is blocked as well.

\* Mutant of Proven: the exit code of git is believed.
Believed == TRUE

\* One commit on what the session found, whoever made it, and a clean checkout.
Proven == original # << >> /\ Front(original) = previous /\ work = "clean"

ProveRevert ==
  /\ pc = "prove"
  /\ \/ Report("blocked")
     \/ Proven /\ hook = "none" /\ Report("compensated")
     \/ Proven /\ hook # "none" /\ Go("hook") /\ UNCHANGED result
  /\ UNCHANGED <<record, checkout, hook, expired, previous, effects, moves, faults>>

\* The hook of the product runs once, and may raise.
RunHook ==
  /\ pc = "hook"
  /\ hookRuns' = hookRuns + 1
  /\ Report("compensated") \/ Report("blocked")
  /\ UNCHANGED <<record, checkout, hook, expired, previous, reverts, moves, faults>>

\* _reconcile_failed_effect looks for a revert in progress and aborts it.
ReconcileEffect ==
  /\ pc = "reconcile"
  /\ \/ work = "reverting" /\ Go("abort") /\ UNCHANGED result
     \/ Report("blocked")
  /\ UNCHANGED <<record, checkout, hook, expired, previous, effects, moves, faults>>

\* git revert --abort.  When git does not answer, RollbackCommandError leaves
\* the manager and rollback reports that nothing was attempted.
AbortRevert ==
  /\ pc = "abort"
  /\ \/ work = "reverting" /\ work' = "clean" /\ Go("restore") /\ UNCHANGED result
     \/ UNCHANGED work /\ Go("restore") /\ UNCHANGED result
     \/ work' \in {work, "clean"} /\ Report("blocked")
  /\ UNCHANGED <<record, original, hook, expired, previous, effects, moves, faults>>

\* The branch and the checkout are as the session found them.
Restored == original = previous /\ work = "clean"

ObserveRestored ==
  /\ pc = "restore"
  /\ Report(IF Restored THEN "restored" ELSE "unrestored") \/ Report("blocked")
  /\ UNCHANGED <<record, checkout, hook, expired, previous, effects, moves, faults>>

ReportRollback ==
  /\ pc = "report"
  /\ Note(IF result = "compensated" THEN "compensated" ELSE "blocked", 0, hook, result)
  /\ Go("settle")
  /\ UNCHANGED <<state, promoted, checkout, rollback, moves, faults>>

SettleRollback ==
  /\ pc = "settle"
  /\ state' = IF result = "compensated" THEN "COMPENSATED" ELSE "BLOCKED_ROLLBACK"
  /\ Return /\ Forget
  /\ UNCHANGED <<promoted, journal, checkout, hook, expired, effects, moves, faults>>

RollbackSession ==
  \/ EnterRollback \/ TryRollback \/ Revert \/ ProveRevert \/ RunHook
  \/ ReconcileEffect \/ AbortRevert \/ ObserveRestored
  \/ ReportRollback \/ SettleRollback

\* What git can leave behind when it dies with the session.
DiesInRevert ==
  CASE pc = "revert" -> UnfinishedRevert
    [] pc = "abort"  -> work' \in {work, "clean"} /\ UNCHANGED <<original, reverts>>
    [] OTHER         -> UNCHANGED <<original, work, reverts>>
=============================================================================
