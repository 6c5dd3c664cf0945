---------------------------- MODULE Cancellation ----------------------------
(***************************************************************************)
(* runtime/cancellation.py, the command loop of tools/adapters/terminal.py *)
(* and ExecutionLifecycleService.cancel, for one execution.                *)
(*                                                                         *)
(* The process that runs the graph holds the execution lock and starts one *)
(* command at a time; cancelling processes do not wait for that lock: they *)
(* leave a decision and a request in control files, look at the active     *)
(* command's slot, wait for its outcome, and only then take the lock to    *)
(* enter CANCELLED.  Runner and cancellers share nothing but these files:  *)
(* each writes its own flag before it reads the other's.                   *)
(*                                                                         *)
(* The exclusive writes (O_EXCL, then content) show a torn file in         *)
(* between; outcome and slot updates are atomic replacements.              *)
(***************************************************************************)
EXTENDS Naturals

CONSTANTS
  Canceller,     \* processes that may call cancel; each brings a decision id
  Runner,        \* the process that runs the graph
  None,          \* no file, no decision, nobody
  Torn,          \* the file exists, its content does not yet
  MaxCommands,   \* bound: commands started
  MaxMishaps     \* bound: crashes and failures

ASSUME NamesAreApart ==
  /\ {Runner, None, Torn} \cap Canceller = {}
  /\ None \notin {Runner, Torn}
ASSUME CommandBoundsAreNat == MaxCommands \in Nat /\ MaxMishaps \in Nat

VARIABLES
  policy,      \* cancellation-policy.json: a decision id
  request,     \* cancellation-request.json: a decision id
  slot,        \* active-command.json: [cmd, whole]; cmd 0: no file
  outcome,     \* the command outcome file: [cmd, result]
  running,     \* commands whose process is alive
  lock,        \* holder of the execution lock
  state,       \* state of the execution; "OVER": it cannot be cancelled
  recorded,    \* [decided, completed]: the decision id recorded in the
               \* journal, and how many CANCELLATION_COMPLETED there are
  runner,      \* where the runner is in its command
  result,      \* what the runner is about to publish of its command
  started,     \* commands started so far
  canceller,   \* canceller[c]: where canceller c is
  decision,    \* decision[c]: the decision id c works with
  watched,     \* watched[c]: the command c waits for, 0 if none
  glimpse,     \* glimpse[c]: the outcome c read first in its poll
  report,      \* report[c]: how c's last cancel ended
  mishaps      \* counter for the bound

files == <<policy, request, slot, outcome>>
runnerVars == <<runner, result, started, running>>
callerVars == <<canceller, decision, watched, glimpse, report>>
controlVars == <<files, lock, state, recorded, runnerVars, callerVars, mishaps>>

Command == 1 .. MaxCommands
NoOutcome == [cmd |-> 0, result |-> "none"]
NoSlot == [cmd |-> 0, whole |-> TRUE]

RunnerPlaces == {"out", "asking", "ready", "checked", "creating", "reserved",
                 "cleared", "spawned", "polling", "reaped", "recorded"}
CallerPlaces == {"idle", "policy", "publish", "fill_policy", "request",
                 "fill_request", "look", "poll", "compare", "lock", "decide",
                 "complete", "enter"}
Results == {"none", "completed", "timed_out", "cancelled",
            "cancelled_before_spawn", "spawn_failed"}
Reports == {"none", "cancelled", "refused", "disappeared", "not_observed",
            "integrity"}

ControlInit ==
  /\ policy = None /\ request = None
  /\ slot = NoSlot /\ outcome = NoOutcome
  /\ running = {} /\ lock = None /\ state = "EXECUTING"
  /\ recorded = [decided |-> None, completed |-> 0]
  /\ runner = "out" /\ result = "none" /\ started = 0
  /\ canceller = [c \in Canceller |-> "idle"]
  /\ decision = [c \in Canceller |-> None]
  /\ watched = [c \in Canceller |-> 0]
  /\ glimpse = [c \in Canceller |-> NoOutcome]
  /\ report = [c \in Canceller |-> "none"]
  /\ mishaps = 0

Mishap == mishaps < MaxMishaps /\ mishaps' = mishaps + 1

\* is_cancelled: any request file counts, even an unreadable one.
IsCancelled == request # None

-----------------------------------------------------------------------------
(* The runner.                                                             *)

Proceed(place) == runner' = place

\* start, or resume, which refuses at once if a request exists ...
Resume ==
  /\ runner = "out" /\ ~ IsCancelled /\ state = "EXECUTING"
  /\ Proceed("asking")
  /\ UNCHANGED <<files, lock, state, recorded, result, started, running,
                 callerVars, mishaps>>

\* ... and looks at the state again under the lock.
TakeLock ==
  /\ runner = "asking" /\ lock = None
  /\ IF state = "EXECUTING" THEN Proceed("ready") /\ lock' = Runner
                            ELSE Proceed("out") /\ UNCHANGED lock
  /\ UNCHANGED <<files, state, recorded, result, started, running,
                 callerVars, mishaps>>

\* command_started, its first look at the request.
CheckRequest ==
  /\ runner = "ready" /\ started < MaxCommands /\ ~ IsCancelled
  /\ Proceed("checked")
  /\ UNCHANGED <<files, lock, state, recorded, result, started, running,
                 callerVars, mishaps>>

\* The exclusive creation of the slot: ConcurrentCommandError if it exists.
CreateSlot ==
  /\ runner = "checked"
  /\ started' = started + 1
  /\ IF slot.cmd = 0
     THEN /\ slot' = [cmd |-> started + 1, whole |-> FALSE]
          /\ Proceed("creating")
     ELSE Proceed("ready") /\ UNCHANGED slot
  /\ UNCHANGED <<policy, request, outcome, lock, state, recorded, result,
                 running, callerVars, mishaps>>

\* Its content, or, if the write fails, its removal.
FillSlot ==
  /\ runner = "creating"
  /\ \/ /\ slot' = [slot EXCEPT !.whole = TRUE]
        /\ Proceed("reserved")
        /\ UNCHANGED mishaps
     \/ /\ Mishap
        /\ slot' = NoSlot
        /\ Proceed("ready")
  /\ UNCHANGED <<policy, request, outcome, lock, state, recorded, result,
                 started, running, callerVars>>

\* Mutant: the request is looked at once only, before the slot exists.
SlotIsEnough ==
  /\ runner = "reserved"
  /\ Proceed("cleared")
  /\ UNCHANGED <<files, lock, state, recorded, result, started, running,
                 callerVars, mishaps>>

\* The second look, now that the slot shows the command.
RecheckRequest ==
  /\ runner = "reserved"
  /\ IF IsCancelled
     THEN result' = "cancelled_before_spawn" /\ Proceed("reaped")
     ELSE Proceed("cleared") /\ UNCHANGED result
  /\ UNCHANGED <<files, lock, state, recorded, started, running, callerVars,
                 mishaps>>

\* The last authorization raises: the slot stays as it is.
RefuseCommand ==
  /\ runner = "cleared"
  /\ Mishap
  /\ Proceed("ready")
  /\ UNCHANGED <<files, lock, state, recorded, result, started, running,
                 callerVars>>

Spawn ==
  /\ runner = "cleared"
  /\ \/ /\ running' = running \cup {slot.cmd}
        /\ Proceed("spawned")
        /\ UNCHANGED <<result, mishaps>>
     \/ /\ Mishap
        /\ result' = "spawn_failed"
        /\ Proceed("reaped")
        /\ UNCHANGED running
  /\ UNCHANGED <<files, lock, state, recorded, started, callerVars>>

\* command_spawned; if it fails the process is terminated, and the slot is
\* given up only if that was seen to succeed.
BindProcess ==
  /\ runner = "spawned"
  /\ \/ Proceed("polling") /\ UNCHANGED <<result, running, mishaps>>
     \/ /\ Mishap
        /\ \/ /\ running' = running \ {slot.cmd}
              /\ result' = "spawn_failed"
              /\ Proceed("reaped")
           \/ Proceed("ready") /\ UNCHANGED <<result, running>>
  /\ UNCHANGED <<files, lock, state, recorded, started, callerVars>>

\* The poll loop: the process is over, is cancelled or runs out of time.
ObserveExit ==
  /\ runner = "polling" /\ slot.cmd \notin running
  /\ result' = "completed"
  /\ Proceed("reaped")
  /\ UNCHANGED <<files, lock, state, recorded, started, running, callerVars,
                 mishaps>>

Terminate ==
  /\ runner = "polling" /\ slot.cmd \in running
  /\ \/ /\ running' = running \ {slot.cmd}
        /\ result' = IF IsCancelled THEN "cancelled" ELSE "timed_out"
        /\ Proceed("reaped")
        /\ UNCHANGED mishaps
     \/ Mishap /\ Proceed("ready") /\ UNCHANGED <<running, result>>
  /\ UNCHANGED <<files, lock, state, recorded, started, callerVars>>

\* command_finished: publish the outcome ...
PublishOutcome ==
  /\ runner = "reaped"
  /\ outcome' = [cmd |-> slot.cmd, result |-> result]
  /\ Proceed("recorded")
  /\ UNCHANGED <<policy, request, slot, lock, state, recorded, result,
                 started, running, callerVars, mishaps>>

\* Mutant: a slot that cannot be removed is left behind silently.
SlotStays ==
  /\ runner = "recorded"
  /\ slot' \in {slot, NoSlot}
  /\ result' = "none"
  /\ Proceed("ready")
  /\ UNCHANGED <<policy, request, outcome, lock, state, recorded, started,
                 running, callerVars, mishaps>>

\* ... then clear the slot.
ClearSlot ==
  /\ runner = "recorded"
  /\ slot' = NoSlot
  /\ result' = "none"
  /\ Proceed("ready")
  /\ UNCHANGED <<policy, request, outcome, lock, state, recorded, started,
                 running, callerVars, mishaps>>

\* The run ends, in a state that can still be cancelled or not.
EndRun ==
  /\ runner = "ready"
  /\ Proceed("out") /\ lock' = None
  /\ state' \in {state, "OVER"}
  /\ UNCHANGED <<files, recorded, result, started, running, callerVars, mishaps>>

\* A process may end at any time on its own, its runner alive or not.
ProcessExits ==
  /\ \E cmd \in running : running' = running \ {cmd}
  /\ UNCHANGED <<files, lock, state, recorded, runner, result, started,
                 callerVars, mishaps>>

\* The runner dies: the lock is free, the slot and an orphan may stay behind.
RunnerCrash ==
  /\ runner # "out"
  /\ Mishap
  /\ Proceed("out") /\ result' = "none"
  /\ lock' = IF lock = Runner THEN None ELSE lock
  /\ UNCHANGED <<files, state, recorded, started, running, callerVars>>

-----------------------------------------------------------------------------
(* A canceller.                                                            *)

Advance(c, place) == canceller' = [canceller EXCEPT ![c] = place]

\* The call is over, with this report.
Return(c, how) ==
  /\ Advance(c, "idle")
  /\ report' = [report EXCEPT ![c] = how]

\* _cancel_preflight_if_unlocked: if the lock is free, look at the state.
Preflight(c) ==
  /\ canceller[c] = "idle"
  /\ IF lock # None \/ state = "EXECUTING"
     THEN Advance(c, "policy") /\ UNCHANGED report
     ELSE Return(c, IF state = "CANCELLED" THEN "cancelled" ELSE "refused")
  /\ UNCHANGED <<files, lock, state, recorded, runnerVars, decision, watched,
                 glimpse, mishaps>>

\* The decision already on disk, or a fresh one.
ReadPolicy(c) ==
  /\ canceller[c] = "policy"
  /\ IF policy = Torn
     THEN Return(c, "integrity") /\ UNCHANGED decision
     ELSE /\ decision' = [decision EXCEPT ![c] = IF policy = None THEN c
                                                                  ELSE policy]
          /\ Advance(c, "publish")
          /\ UNCHANGED report
  /\ UNCHANGED <<files, lock, state, recorded, runnerVars, watched, glimpse,
                 mishaps>>

\* _publish_policy_decision: the same decision, or a new file, or an error.
PublishPolicy(c) ==
  /\ canceller[c] = "publish"
  /\ \/ policy = None /\ policy' = Torn /\ Advance(c, "fill_policy")
        /\ UNCHANGED report
     \/ policy = decision[c] /\ Advance(c, "request") /\ UNCHANGED <<policy, report>>
     \/ policy \notin {None, decision[c]} /\ Return(c, "integrity")
        /\ UNCHANGED policy
  /\ UNCHANGED <<request, slot, outcome, lock, state, recorded, runnerVars,
                 decision, watched, glimpse, mishaps>>

FillPolicy(c) ==
  /\ canceller[c] = "fill_policy"
  /\ \/ policy' = decision[c] /\ Advance(c, "request") /\ UNCHANGED <<report, mishaps>>
     \/ Mishap /\ policy' = None /\ Return(c, "integrity")
  /\ UNCHANGED <<request, slot, outcome, lock, state, recorded, runnerVars,
                 decision, watched, glimpse>>

\* request: the decision is on disk before the request is.
PublishRequest(c) ==
  /\ canceller[c] = "request"
  /\ \/ request = None /\ request' = Torn /\ Advance(c, "fill_request")
        /\ UNCHANGED report
     \/ request = decision[c] /\ Advance(c, "look") /\ UNCHANGED <<request, report>>
     \/ request \notin {None, decision[c]} /\ Return(c, "integrity")
        /\ UNCHANGED request
  /\ UNCHANGED <<policy, slot, outcome, lock, state, recorded, runnerVars,
                 decision, watched, glimpse, mishaps>>

FillRequest(c) ==
  /\ canceller[c] = "fill_request"
  /\ \/ request' = decision[c] /\ Advance(c, "look") /\ UNCHANGED <<report, mishaps>>
     \/ Mishap /\ request' = None /\ Return(c, "integrity")
  /\ UNCHANGED <<policy, slot, outcome, lock, state, recorded, runnerVars,
                 decision, watched, glimpse>>

\* Only after the request is on disk does it look for an active command.
LookForCommand(c) ==
  /\ canceller[c] = "look"
  /\ IF ~ slot.whole
     THEN Return(c, "integrity") /\ UNCHANGED watched
     ELSE /\ watched' = [watched EXCEPT ![c] = slot.cmd]
          /\ Advance(c, IF slot.cmd = 0 THEN "lock" ELSE "poll")
          /\ UNCHANGED report
  /\ UNCHANGED <<files, lock, state, recorded, runnerVars, decision, glimpse,
                 mishaps>>

\* wait_for_quiescence: the outcome file first ...
PollOutcome(c) ==
  /\ canceller[c] = "poll"
  /\ glimpse' = [glimpse EXCEPT ![c] = outcome]
  /\ Advance(c, "compare")
  /\ UNCHANGED <<files, lock, state, recorded, runnerVars, decision, watched,
                 report, mishaps>>

\* ... then the slot; over if both agree, else another round or the deadline.
CompareSlot(c) ==
  /\ canceller[c] = "compare"
  /\ \/ /\ ~ slot.whole
        /\ Return(c, "integrity")
     \/ /\ slot.whole /\ glimpse[c].cmd = watched[c]
        /\ slot.cmd # watched[c]
        /\ Advance(c, "lock")
        /\ UNCHANGED report
     \/ /\ slot.cmd = 0 /\ glimpse[c].cmd # watched[c]
        /\ Return(c, "disappeared")
     \/ /\ slot.whole /\ slot.cmd # 0
        /\ glimpse[c].cmd = watched[c] => slot.cmd = watched[c]
        /\ \/ Advance(c, "poll") /\ UNCHANGED report
           \/ Return(c, "not_observed")
  /\ UNCHANGED <<files, lock, state, recorded, runnerVars, decision, watched,
                 glimpse, mishaps>>

\* Mutant: the state is not looked at again under the lock.
LockBlindly(c) ==
  /\ canceller[c] = "lock" /\ lock = None
  /\ Advance(c, "decide") /\ lock' = c
  /\ UNCHANGED <<files, state, recorded, runnerVars, decision, watched, glimpse,
                 report, mishaps>>

\* Quiescent: take the execution lock and look at the state again.
LockExecution(c) ==
  /\ canceller[c] = "lock" /\ lock = None
  /\ IF state = "EXECUTING"
     THEN Advance(c, "decide") /\ lock' = c /\ UNCHANGED report
     ELSE /\ Return(c, IF state = "CANCELLED" THEN "cancelled" ELSE "refused")
          /\ UNCHANGED lock
  /\ UNCHANGED <<files, state, recorded, runnerVars, decision, watched, glimpse,
                 mishaps>>

\* CANCELLATION_POLICY_DECIDED, unless the journal already has it.
RecordDecision(c) ==
  /\ canceller[c] = "decide"
  /\ IF recorded.decided \in {None, decision[c]}
     THEN /\ recorded' = [recorded EXCEPT !.decided = decision[c]]
          /\ Advance(c, "complete")
          /\ UNCHANGED <<lock, report>>
     ELSE Return(c, "integrity") /\ lock' = None /\ UNCHANGED recorded
  /\ UNCHANGED <<files, state, runnerVars, decision, watched, glimpse, mishaps>>

\* CANCELLATION_COMPLETED, appended whatever the journal holds.
RecordCompletion(c) ==
  /\ canceller[c] = "complete"
  /\ recorded' = [recorded EXCEPT !.completed = @ + 1]
  /\ Advance(c, "enter")
  /\ UNCHANGED <<files, lock, state, runnerVars, decision, watched, glimpse,
                 report, mishaps>>

EnterCancelled(c) ==
  /\ canceller[c] = "enter"
  /\ state' = "CANCELLED"
  /\ lock' = None
  /\ Return(c, "cancelled")
  /\ UNCHANGED <<files, recorded, runnerVars, decision, watched, glimpse, mishaps>>

\* The canceller dies, or a step under the lock fails.
CancellerCrash(c) ==
  /\ canceller[c] # "idle"
  /\ Mishap
  /\ Return(c, "none")
  /\ lock' = IF lock = c THEN None ELSE lock
  /\ UNCHANGED <<files, state, recorded, runnerVars, decision, watched, glimpse>>

-----------------------------------------------------------------------------
Running ==
  \/ TakeLock \/ CreateSlot \/ FillSlot \/ RecheckRequest \/ Spawn
  \/ BindProcess \/ ObserveExit \/ Terminate \/ PublishOutcome \/ ClearSlot
  \/ EndRun

Cancelling(c) ==
  \/ ReadPolicy(c) \/ PublishPolicy(c) \/ FillPolicy(c)
  \/ PublishRequest(c) \/ FillRequest(c) \/ LookForCommand(c)
  \/ PollOutcome(c) \/ CompareSlot(c) \/ LockExecution(c) \/ RecordDecision(c)
  \/ RecordCompletion(c) \/ EnterCancelled(c)

ControlNext ==
  \/ Resume \/ CheckRequest \/ Running \/ RefuseCommand \/ ProcessExits
  \/ RunnerCrash
  \/ \E c \in Canceller : Preflight(c) \/ Cancelling(c) \/ CancellerCrash(c)

ControlSpec == ControlInit /\ [][ControlNext]_controlVars

\* A runner inside a command goes on, a run comes to its end, a canceller
\* inside a call goes on, and a call that failed is repeated.
FairControl ==
  /\ ControlSpec
  /\ WF_controlVars(Running)
  /\ \A c \in Canceller :
       /\ WF_controlVars(Preflight(c) /\ state = "EXECUTING")
       /\ WF_controlVars(Cancelling(c))

-----------------------------------------------------------------------------
(* Properties.                                                             *)

Decision == Canceller \cup {None, Torn}

ControlTyped ==
  /\ policy \in Decision /\ request \in Decision
  /\ slot \in [cmd : Command \cup {0}, whole : BOOLEAN]
  /\ outcome \in [cmd : Command \cup {0}, result : Results]
  /\ running \subseteq Command
  /\ lock \in Canceller \cup {None, Runner}
  /\ state \in {"EXECUTING", "CANCELLED", "OVER"}
  /\ recorded \in [decided : Canceller \cup {None}, completed : Nat]
  /\ runner \in RunnerPlaces /\ result \in Results /\ started \in Nat
  /\ canceller \in [Canceller -> CallerPlaces]
  /\ decision \in [Canceller -> Canceller \cup {None}]
  /\ watched \in [Canceller -> Command \cup {0}]
  /\ glimpse \in [Canceller -> [cmd : Command \cup {0}, result : Results]]
  /\ report \in [Canceller -> Reports]
  /\ mishaps \in Nat

\* Once a canceller has found the execution quiescent no command is alive and
\* none can be spawned any more, though the runner may still hold the lock,
\* be between two commands or have died and left an orphan behind.
QuiescentMeansQuiet ==
  (\E c \in Canceller : canceller[c] \in {"lock", "decide", "complete", "enter"})
     \/ state = "CANCELLED"
  => running = {} /\ runner # "cleared"

\* A live process is always covered by the slot, crashed runner or not: there
\* are never two, and no canceller can miss one.
SlotCoversProcess == running \subseteq {slot.cmd}

\* All who cancel act on one decision: policy, request and journal agree, and
\* the policy was there first.
DecisionsAgree ==
  /\ request # None => policy \in Canceller
  /\ request \in Canceller => request = policy
  /\ recorded.decided # None => recorded.decided = request
  /\ state = "CANCELLED" => recorded.decided # None

\* However many cancel at once and however often they repeat it, the completion
\* is recorded once, and once more for each canceller that died with the lock.
CompletionRepeatsOnlyAfterDeath == recorded.completed <= 1 + mishaps

\* The control files have their contents, torn ones included; the slot, which is all a
\* canceller can see, stands for every process that is alive; and whoever cancels, dies
\* and repeats finds the one decision and at most his own completion of it.
ControlInv ==
  ControlTyped /\ SlotCoversProcess /\ DecisionsAgree /\ CompletionRepeatsOnlyAfterDeath

\* A request ends the command it found, and no canceller's retries are lost:
\* unless something died, the execution is cancelled, or was over before.
RequestConcludes == request # None ~> (state # "EXECUTING" \/ mishaps > 0)
=============================================================================
