------------------------------ MODULE Worktree ------------------------------
(***************************************************************************)
(* workspace/git_worktree.py: the worktree of an execution from its        *)
(* creation inside the node of an agent (runtime/composition.py) to        *)
(* cleanup_worktree of runtime/execution_lifecycle.py.                     *)
(*                                                                         *)
(* Three things have to agree that cannot be written together: the branch  *)
(* harness/<execution>, the directory checked out on it, and the durable   *)
(* reference.  The order of the writes and the status of the reference are *)
(* what makes an interruption recognisable.                                *)
(*                                                                         *)
(* Left out: identities that never change (project, root, path), a         *)
(* reference damaged from outside, files git ignores.                      *)
(***************************************************************************)
EXTENDS Workspace

CONSTANTS
  MaxNodes       \* bound: agents' nodes that are visited

ASSUME WorktreeBoundsAreNat == MaxNodes \in Nat

VARIABLES
  reference,  \* [status, head]: what the reference file says
  branch,     \* where harness/<execution> points
  dir,        \* the directory: absent, unfinished, whole, or a stranger's
  edited,     \* it has changes that are not committed
  node,       \* the agent's node: ready, open, done, failed
  visits

worktree == <<reference, branch, dir, edited>>
agent == <<node, visits>>

NoReference == [status |-> "none", head |-> "absent"]

\* _validate_worktree: a whole checkout on the branch, at the expected HEAD.
Validates(head) == dir = "whole" /\ branch = head

\* load_worktree
Loads == reference.status = "ACTIVE" /\ Validates(reference.head)

-----------------------------------------------------------------------------
(* The node of an agent asks for its worktree.                             *)

\* NODE_STARTED.  A node that is open is not started again: resume raises
\* InterruptedNodeExecutionError (module GraphExecutor).
StartNode ==
  /\ Begin /\ Go("load")
  /\ state = "EXECUTING" /\ node = "ready" /\ visits < MaxNodes
  /\ node' = "open" /\ visits' = visits + 1
  /\ UNCHANGED <<record, checkout, worktree, moves, faults>>

\* The node ends with a failure that is not retried.
NodeFails == node' = "failed" /\ Return

\* OperationalAgentBackend._worktree: load, or create when that is refused.
\* A directory in which git itself fails ends the node.
LoadWorktree ==
  /\ pc = "load"
  /\ \/ Loads /\ Go("agent") /\ UNCHANGED node
     \/ ~ Loads /\ Go("create") /\ UNCHANGED node
     \/ ~ Loads /\ dir \in {"unfinished", "foreign"} /\ NodeFails
  /\ UNCHANGED <<record, checkout, worktree, visits, moves, faults>>

Reference(status, head) == reference' = [status |-> status, head |-> head]

\* _activate_created_worktree: the complete and pristine effect of a creation.
Pristine == Validates("base") /\ ~ edited

\* create_worktree, up to the git effect.  Half of an effect is not resumed.
CreateWorktree ==
  /\ pc = "create"
  /\ LET creating == OriginalAtBase /\ reference.status = "CREATING" IN
     CASE OriginalAtBase /\ reference.status = "none" ->
            Reference("CREATING", "absent") /\ Go("add") /\ UNCHANGED node
       [] creating /\ branch = "absent" /\ dir = "absent" ->
            Go("add") /\ UNCHANGED <<reference, node>>
       [] creating /\ branch # "absent" /\ dir # "absent" /\ Pristine ->
            Go("publish") /\ UNCHANGED <<reference, node>>
       [] OriginalAtBase /\ Loads -> Go("agent") /\ UNCHANGED <<reference, node>>
       [] OTHER -> NodeFails /\ UNCHANGED reference
  /\ UNCHANGED <<record, checkout, branch, dir, edited, visits, moves, faults>>

\* What `git worktree add -b` leaves when it does not finish.
UnfinishedAdd ==
  \/ UNCHANGED <<branch, dir>>
  \/ branch' = "base" /\ dir' \in {"absent", "unfinished", "whole"}

\* Mutant of AddWorktree: a git command that ran into its timeout counts as done.
TimeoutIgnored ==
  /\ pc = "add"
  /\ UnfinishedAdd
  /\ Go("publish")
  /\ UNCHANGED <<record, checkout, reference, edited, agent, moves, faults>>

\* The checks of branch and path raise outside the handler: CREATING remains.
AddWorktree ==
  /\ pc = "add"
  /\ \/ /\ ~ (branch = "absent" /\ dir = "absent")
        /\ NodeFails /\ UNCHANGED <<branch, dir>>
     \/ /\ branch = "absent" /\ dir = "absent"
        /\ branch' = "base" /\ dir' = "whole"
        /\ Go("publish") /\ UNCHANGED node
     \/ /\ branch = "absent" /\ dir = "absent"
        /\ UnfinishedAdd
        /\ Go("fail") /\ UNCHANGED node
  /\ UNCHANGED <<record, checkout, reference, edited, visits, moves, faults>>

\* _record_controlled_failure
RecordFailure ==
  /\ pc = "fail"
  /\ Reference("FAILED", "absent")
  /\ NodeFails
  /\ UNCHANGED <<record, checkout, branch, dir, edited, visits, moves, faults>>

\* _publish_active_worktree; a write that fails leaves CREATING.
PublishActive ==
  /\ pc = "publish"
  /\ \/ Reference("ACTIVE", "base") /\ Go("agent") /\ UNCHANGED <<node, faults>>
     \/ /\ faults < MaxFaults /\ faults' = faults + 1
        /\ NodeFails /\ UNCHANGED reference
  /\ UNCHANGED <<record, checkout, branch, dir, edited, visits, moves>>

\* The agent works in the directory, and its node ends.
AgentWorks ==
  /\ pc = "agent"
  /\ \/ edited' = TRUE /\ node' = "done"
     \/ UNCHANGED edited /\ node' \in {"done", "failed"}
  /\ Return
  /\ UNCHANGED <<record, checkout, reference, branch, dir, visits, moves, faults>>

\* The traversal goes on to another agent or ends (module GraphExecutor).
Traverse ==
  /\ pc = "idle" /\ state = "EXECUTING" /\ node \in {"done", "failed"}
  /\ \/ visits < MaxNodes /\ node' = "ready" /\ UNCHANGED <<state, visits>>
     \/ /\ state' = IF node = "done" THEN "VERIFYING" ELSE "FAILED"
        /\ UNCHANGED node /\ visits' = 0
  /\ UNCHANGED <<promoted, journal, checkout, worktree, pc, moves, faults>>

-----------------------------------------------------------------------------
(* The candidate, as far as the worktree goes, and how the execution ends: *)
(* module Promotion has both in full, Cancellation has cancel.             *)

\* create_candidate_commit: one child of the base, or the one already there.
CommitCandidate ==
  /\ Begin /\ state = "VERIFYING"
  /\ OriginalAtBase /\ reference = [status |-> "ACTIVE", head |-> "base"]
  /\ dir = "whole" /\ branch = IF edited THEN "base" ELSE "candidate"
  /\ branch' = "candidate" /\ edited' = FALSE
  /\ Go("reference")
  /\ UNCHANGED <<record, checkout, reference, dir, agent, moves, faults>>

PublishReference ==
  /\ pc = "reference"
  /\ IF branch = "candidate" /\ ~ edited /\ OriginalAtBase
     THEN Reference("ACTIVE", "candidate") ELSE UNCHANGED reference
  /\ Return
  /\ UNCHANGED <<record, checkout, branch, dir, edited, agent, moves, faults>>

Finish ==
  /\ pc = "idle" /\ state = "VERIFYING" /\ Loads /\ ~ edited
  /\ \/ /\ branch = "candidate" /\ OriginalAtBase
        /\ original' = <<"pick">> /\ promoted' = TRUE /\ state' = "COMPLETED"
     \/ /\ state' \in {"COMPLETED", "DRY_RUN_COMPLETED"}
        /\ UNCHANGED <<original, promoted>>
  /\ UNCHANGED <<journal, work, worktree, pc, agent, moves, faults>>

Cancel ==
  /\ pc = "idle" /\ state \in {"EXECUTING", "VERIFYING"}
  /\ state' = "CANCELLED"
  /\ UNCHANGED <<promoted, journal, checkout, worktree, pc, agent, moves, faults>>

-----------------------------------------------------------------------------
(* cleanup-worktree.                                                       *)

Terminal == {"BLOCKED_ROLLBACK", "CANCELLED", "COMPENSATED", "COMPLETED",
             "DRY_RUN_COMPLETED", "FAILED"}

DecideCleanup ==
  /\ Begin /\ state \in Terminal /\ MoreCommands
  /\ Say("cleanup decided") /\ Go("inspect")
  /\ UNCHANGED <<state, promoted, checkout, worktree, agent, moves, faults>>

\* Only an ACTIVE worktree, at its recorded HEAD and clean, is removed.
Removable == Loads /\ ~ edited

InspectWorktree ==
  /\ pc = "inspect"
  /\ \/ reference.status = "REMOVED" /\ Go("cleaned") /\ UNCHANGED reference
     \/ /\ reference.status # "REMOVED" /\ Removable
        /\ Reference("CLEANUP_PENDING", reference.head) /\ Go("remove")
     \/ /\ reference.status # "REMOVED" /\ ~ Removable
        /\ Go("refused") /\ UNCHANGED reference
  /\ UNCHANGED <<record, checkout, branch, dir, edited, agent, moves, faults>>

\* Mutant of GitAccepts: the removal is forced.
Forced == TRUE

\* Without --force git refuses a directory with changes.
GitAccepts == dir # "whole" \/ ~ edited

\* git worktree remove, without --force.  It may be killed on the way.
RemoveWorktree ==
  /\ pc = "remove"
  /\ \/ GitAccepts /\ dir' = "absent" /\ edited' = FALSE /\ Go("removed")
     \/ GitAccepts /\ dir = "whole" /\ dir' = "unfinished" /\ Go("refused") /\ UNCHANGED edited
     \/ Go("refused") /\ UNCHANGED <<dir, edited>>
  /\ UNCHANGED <<record, checkout, reference, branch, agent, moves, faults>>

RecordRemoval ==
  /\ pc = "removed"
  /\ IF dir = "absent"
     THEN Reference("REMOVED", reference.head) /\ Go("cleaned")
     ELSE Go("refused") /\ UNCHANGED reference
  /\ UNCHANGED <<record, checkout, branch, dir, edited, agent, moves, faults>>

ReportCleanup ==
  /\ \/ pc = "cleaned" /\ Say("cleanup completed")
     \/ pc = "refused" /\ Say("cleanup blocked")
  /\ Return
  /\ UNCHANGED <<state, promoted, checkout, worktree, agent, moves, faults>>

-----------------------------------------------------------------------------
WorktreeSession ==
  \/ LoadWorktree \/ CreateWorktree \/ AddWorktree \/ RecordFailure
  \/ PublishActive \/ AgentWorks \/ PublishReference
  \/ InspectWorktree \/ RemoveWorktree \/ RecordRemoval \/ ReportCleanup

\* What else happens to the worktree: the user edits or commits in it, removes
\* it or its branch, or puts a branch or a directory where it should go.
MoveWorktree ==
  \/ dir = "whole" /\ ~ edited /\ edited' = TRUE /\ UNCHANGED <<branch, dir>>
  \/ dir = "whole" /\ branch' = "other" /\ edited' = FALSE /\ UNCHANGED dir
  \/ dir # "absent" /\ dir' = "absent" /\ edited' = FALSE /\ UNCHANGED branch
  \/ dir = "absent" /\ dir' = "foreign" /\ UNCHANGED <<branch, edited>>
  \/ branch = "absent" /\ branch' = "base" /\ UNCHANGED <<dir, edited>>
  \/ /\ dir \in {"absent", "foreign"} /\ branch # "absent"
     /\ branch' = "absent" /\ UNCHANGED <<dir, edited>>

\* What git can leave behind when it dies with the session.
DiesInGit ==
  CASE pc = "add" /\ branch = "absent" /\ dir = "absent" ->
         UnfinishedAdd /\ UNCHANGED edited
    [] pc = "remove" /\ GitAccepts ->
         /\ dir' \in {dir, "unfinished", "absent"}
         /\ edited' = (edited /\ dir' # "absent") /\ UNCHANGED branch
    [] OTHER -> UNCHANGED <<branch, dir, edited>>
=============================================================================
