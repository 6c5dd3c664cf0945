---------------------------- MODULE Verification ----------------------------
(***************************************************************************)
(* verify and the repair loop of execution_lifecycle.py, with the gates of *)
(* verification/ and the scheduling of a repair in graph_executor.py.      *)
(*                                                                         *)
(* A suite runs the gates of the policy in order, on one clean commit,     *)
(* each bracketed by its start and its result in the journal.  When the    *)
(* full suite fails, a repair visits the node again, then only the failed  *)
(* gates run, and after them the full suite once more.  What remains to be *)
(* done is derived from the journal alone; a suite that was interrupted is *)
(* never taken up again.                                                   *)
(*                                                                         *)
(* Left out: commands, outputs and digests; an optional gate that is not   *)
(* configured; the token and cost limits of the repair loop, which end it  *)
(* as its deadline does.                                                   *)
(***************************************************************************)
EXTENDS Service

Carry(c, what) == seen' = [seen EXCEPT ![c] = what]

-----------------------------------------------------------------------------
(* _recover_verification_attempts and _recover_repair_schedules.           *)

SuiteEvents == {"VERIFICATION_GATE_STARTED", "VERIFICATION_GATE_RECORDED",
                "VERIFICATION_SUITE_RECORDED"}

Suites == Positions({"VERIFICATION_SUITE_RECORDED"})
Schedules == Positions({"VERIFICATION_REPAIR_SCHEDULED"})

LastSuite == Last({"VERIFICATION_SUITE_RECORDED"})

\* The results of the gates of one attempt.
Results(attempt) ==
  {r \in Positions({"VERIFICATION_GATE_RECORDED"}) : journal[r].attempt = attempt}

GatesOf(attempt) == {journal[r].node : r \in Results(attempt)}

IsFull(suite) == GatesOf(journal[suite].attempt) = Gates

\* VerificationSuiteResult.all_passed, never vacuously.
AllPassed(attempt) ==
  LET required == {r \in Results(attempt) : journal[r].node \in Blocking}
  IN  required # {} /\ \A r \in required : journal[r].passed

Verdict(suite) == IsFull(suite) /\ journal[suite].passed

\* _failed_requirements
FailedGates(suite) ==
  {journal[r].node : r \in {r \in Results(journal[suite].attempt) :
                              journal[r].node \in Blocking /\ ~ journal[r].passed}}

\* The policy has gate g before gate h.
Precedes(g, h) == \E i, k \in DOMAIN Policy : i < k /\ Policy[i] = g /\ Policy[k] = h

\* The event of a suite before position i, 0 for none.
Preceding(i) == Max({k \in Positions(SuiteEvents) : k < i} \cup {0})

\* An event follows on the one before it: a result on the start of its gate, a start on
\* a result or a new suite, all of a suite on one commit.
Continues(i) ==
  LET before == Preceding(i)
      Follows(type) == before # 0 /\ journal[before].type = type
  IN  /\ journal[i].type = "VERIFICATION_GATE_RECORDED" <=> Follows("VERIFICATION_GATE_STARTED")
      /\ Follows("VERIFICATION_GATE_STARTED") => journal[i].node = journal[before].node
      /\ CASE before = 0 -> journal[i].attempt = 1
           [] Follows("VERIFICATION_SUITE_RECORDED") ->
                journal[i].attempt = journal[before].attempt + 1
           [] OTHER -> /\ journal[i].attempt = journal[before].attempt
                       /\ journal[i].commit = journal[before].commit

\* A suite has results in the order of the policy, the first one all of them, and
\* the verdict they give.
IsWhole(suite) ==
  LET attempt == journal[suite].attempt
  IN  /\ Results(attempt) # {}
      /\ \A q, r \in Results(attempt) : q < r => Precedes(journal[q].node, journal[r].node)
      /\ journal[suite].passed <=> AllPassed(attempt)
      /\ attempt = 1 => GatesOf(attempt) = Gates

\* The journal parses into whole suites; otherwise every command that needs it raises.
SuitesReplay ==
  /\ Last(SuiteEvents) = LastSuite
  /\ \A i \in Positions(SuiteEvents) : Continues(i)
  /\ \A i \in Suites : IsWhole(i)

\* The suite that a schedule follows.
SourceOf(schedule) == Max({i \in Suites : i < schedule} \cup {0})

\* Repairs are numbered, follow a failed suite and keep the first deadline.
SchedulesReplay ==
  \A i \in Schedules :
    LET source == SourceOf(i)
    IN  /\ source # 0 /\ ~ journal[source].passed
        /\ journal[i].source = journal[source].attempt
        /\ journal[i].repair = Cardinality({k \in Schedules : k <= i})
        /\ \A k \in Schedules : journal[k].deadline = journal[i].deadline

\* _validate_repair_verification_sequence: after each repair the failed gates, on
\* another commit, and if they pass the full suite on the same one.
RepairsWereVerified ==
  \A i \in Schedules :
    LET source == SourceOf(i)
        next == {k \in Schedules : k > i}
        after == {k \in Suites : k > i /\ \A n \in next : k < n}
        targeted == Min(after)
        final == Max(after)
    IN  /\ Cardinality(after) <= 2
        /\ after # {} =>
             /\ GatesOf(journal[targeted].attempt) = FailedGates(source)
             /\ ~ IsFull(targeted)
             /\ journal[targeted].commit # journal[source].commit
        /\ Cardinality(after) = 2 =>
             /\ journal[targeted].passed /\ IsFull(final)
             /\ journal[final].commit = journal[targeted].commit

\* A repair was scheduled after the latest suite.
RepairedSince == Last({"VERIFICATION_REPAIR_SCHEDULED"}) > LastSuite

-----------------------------------------------------------------------------
(* verify                                                                  *)

\* The record is read, with the candidate, and the lock given up.
Verify(c) ==
  /\ Enters(c, "idle")
  /\ state = "VERIFYING"
  /\ Carry(c, [Nothing EXCEPT !.commit = candidate])
  /\ Go(c, "look")
  /\ UNCHANGED <<stored, outside, bounds>>

\* _verification_worktree, without the lock: a worktree that is not clean at its
\* recorded commit blocks the execution.
LookAtWorktree(c) ==
  /\ at[c] \in {"look", "look at failure"}
  /\ CASE tree # "clean" -> Go(c, "block") /\ UNCHANGED seen
       [] tree = "clean" /\ at[c] = "look at failure" -> Go(c, "ask") /\ UNCHANGED seen
       [] tree = "clean" /\ at[c] = "look"
            /\ promotes /\ (candidate = 0 \/ seen[c].commit # head) -> Return(c)
       [] OTHER -> Go(c, "verify") /\ Carry(c, [Nothing EXCEPT !.commit = head])
  /\ UNCHANGED <<stored, outside, bounds>>

\* _block_verification_prerequisite
Block(c) ==
  /\ Enters(c, "block")
  /\ IF state = "VERIFYING" THEN Finish(c, "BLOCKED_PREREQUISITE")
     ELSE Return(c) /\ UNCHANGED state
  /\ UNCHANGED <<journal, cursor, candidate, outside, bounds>>

\* What is left to run on this commit, derived from the journal: nothing if the
\* command returns the latest suite or raises.
GatesToRun(commit) ==
  LET latest == journal[LastSuite] IN
  CASE Suites = {} -> Gates
    [] Suites # {} /\ ~ Verdict(LastSuite) /\ RepairedSince /\ commit # latest.commit ->
         FailedGates(LastSuite)
    [] Suites # {} /\ latest.passed /\ ~ IsFull(LastSuite) /\ commit = latest.commit ->
         Gates
    [] OTHER -> {}

\* Mutant of MayComplete: an interrupted completion is not taken up.
CompletesAtOnceOnly(commit) == FALSE

\* A full suite has passed on this commit, and its completion was interrupted.
MayComplete(commit) ==
  /\ Suites # {} /\ Verdict(LastSuite)
  /\ commit = journal[LastSuite].commit /\ ~ promotes

\* _verify_execution, up to the first gate.  The suite is resolved before any of its
\* gates; what it needs may be missing.
EnterVerify(c) ==
  /\ Enters(c, "verify")
  /\ LET accepted == /\ state = "VERIFYING"
                     /\ SuitesReplay /\ SchedulesReplay /\ RepairsWereVerified
         gates == GatesToRun(seen[c].commit)
     IN  \/ ~ accepted /\ Return(c) /\ UNCHANGED state
         \/ accepted /\ MayComplete(seen[c].commit) /\ Finish(c, "COMPLETED")
         \/ /\ accepted /\ ~ MayComplete(seen[c].commit) /\ gates = {}
            /\ Return(c) /\ UNCHANGED state
         \/ /\ accepted /\ gates # {}
            /\ \/ Go(c, "gates") /\ Carry(c, [seen[c] EXCEPT !.gates = gates])
                  /\ UNCHANGED state
               \/ Finish(c, "BLOCKED_PREREQUISITE")
  /\ UNCHANGED <<journal, cursor, candidate, outside, bounds>>

-----------------------------------------------------------------------------
(* _run_verification_attempt and GateRunner.run_resolved_suite.            *)

SuiteNumber == Cardinality(Suites) + 1

\* _validate_verification_worktree_commit
StillThere(c) == tree = "clean" /\ head = seen[c].commit

\* The first of the gates that are left, in the order of the policy.
NextGate(c) == Policy[Min({i \in DOMAIN Policy : Policy[i] \in seen[c].gates})]

GateStart(c) ==
  [type |-> "VERIFICATION_GATE_STARTED", node |-> NextGate(c),
   attempt |-> SuiteNumber, commit |-> seen[c].commit]

GateResult(c, passed, duration) ==
  [type |-> "VERIFICATION_GATE_RECORDED", node |-> NextGate(c),
   attempt |-> SuiteNumber, commit |-> seen[c].commit,
   passed |-> passed, duration |-> duration]

\* before_gate: the worktree is looked at again, the budget asked, the start written.
StartGate(c) ==
  /\ at[c] = "gates" /\ seen[c].gates # {}
  /\ LET gate == NextGate(c) IN
     CASE ~ StillThere(c) -> Finish(c, "BLOCKED_PREREQUISITE") /\ UNCHANGED journal
       [] StillThere(c) /\ ~ Fits(journal, gate, "attempt") ->
            Deny(c, gate, SuiteNumber, "attempt")
       [] OTHER ->
            /\ Write(GateStart(c))
            /\ Go(c, "run") /\ UNCHANGED <<state, seen>>
  /\ UNCHANGED <<cursor, candidate, outside, bounds>>

\* The gate runs and after_gate records it, if it could run and the worktree is still
\* as it was; an excess of the budget is made evident and ends the execution.
RunGate(c) ==
  /\ at[c] = "run"
  /\ LET gate == NextGate(c)
     IN  \/ /\ StillThere(c)
            /\ Affect(gate, SuiteNumber)
            /\ \E passed \in BOOLEAN, d \in Durations :
                 LET j == Append(journal, GateResult(c, passed, d)) IN
                 IF IsExceeded(j)
                 THEN /\ journal' = Append(j, Materialized(j, gate, SuiteNumber))
                      /\ Finish(c, "FAILED_BUDGET_EXCEEDED")
                 ELSE /\ journal' = j
                      /\ Go(c, "gates") /\ UNCHANGED state
                      /\ Carry(c, [seen[c] EXCEPT !.gates = @ \ {gate}])
         \/ /\ IF StillThere(c) THEN UNCHANGED effects ELSE Affect(gate, SuiteNumber)
            /\ Finish(c, "BLOCKED_PREREQUISITE") /\ UNCHANGED journal
  /\ UNCHANGED <<cursor, candidate, promotes, head, tree, stale, clock, bounds>>

RecordSuite(c) ==
  /\ at[c] = "gates" /\ seen[c].gates = {}
  /\ Write([type |-> "VERIFICATION_SUITE_RECORDED", attempt |-> SuiteNumber,
            commit |-> seen[c].commit, passed |-> AllPassed(SuiteNumber)])
  /\ Go(c, "verdict")
  /\ UNCHANGED <<state, cursor, candidate, outside, seen, bounds>>

\* Mutant of Certify: what passed completes, the targeted gates too.
CertifyTargeted(c) ==
  /\ at[c] = "verdict"
  /\ IF journal[LastSuite].passed /\ ~ promotes THEN Finish(c, "COMPLETED")
     ELSE Return(c) /\ UNCHANGED state
  /\ UNCHANGED <<journal, cursor, candidate, outside, bounds>>

\* The full suite decides; the targeted gates are followed by it in the same section.
Certify(c) ==
  /\ at[c] = "verdict"
  /\ CASE Verdict(LastSuite) /\ ~ promotes -> Finish(c, "COMPLETED")
       [] journal[LastSuite].passed /\ ~ IsFull(LastSuite) ->
            /\ \/ Go(c, "gates") /\ Carry(c, [seen[c] EXCEPT !.gates = Gates])
                  /\ UNCHANGED state
               \/ Finish(c, "BLOCKED_PREREQUISITE")
       [] OTHER -> Return(c) /\ UNCHANGED state
  /\ UNCHANGED <<journal, cursor, candidate, outside, bounds>>

-----------------------------------------------------------------------------
(* The repair: _resume_verification_repair and retry_from_verification.    *)

\* Mutant of Deadline: every repair has one of its own.
DeadlineAnew == clock + RetryDuration

\* The first repair fixes the deadline of all.
Deadline ==
  IF Schedules = {} THEN clock + RetryDuration ELSE journal[Min(Schedules)].deadline

LoopIsOver ==
  \/ Cardinality(Schedules) >= RetryMax
  \/ Visits + 1 > MaxIterations
  \/ clock >= Deadline

\* The request is made under the lock and carried out of it.
AskRepair(c) ==
  /\ Enters(c, "ask")
  /\ LET failed == /\ state = "VERIFYING" /\ SuitesReplay /\ SchedulesReplay
                   /\ Suites # {} /\ ~ journal[LastSuite].passed /\ ~ RepairedSince
     IN  \/ ~ failed /\ Return(c) /\ UNCHANGED state
         \/ failed /\ LoopIsOver /\ Finish(c, "FAILED_RETRY_EXHAUSTED")
         \/ /\ failed /\ ~ LoopIsOver
            /\ Carry(c, [commit |-> 0, gates |-> {},
                         source |-> journal[LastSuite].attempt,
                         repair |-> Cardinality(Schedules) + 1,
                         visit |-> Visits + 1, deadline |-> Deadline])
            /\ Go(c, "schedule") /\ UNCHANGED state
  /\ UNCHANGED <<journal, cursor, candidate, outside, bounds>>

\* Mutant of RequestHolds: what was read under the other lock is not compared.
RequestIsBelieved(c) == state = "VERIFYING"

\* The request is compared with what the journal says now.
RequestHolds(c) ==
  /\ state = "VERIFYING" /\ cursor = "end"
  /\ seen[c].visit = Visits + 1
  /\ seen[c].repair = Cardinality(Schedules) + 1
  /\ seen[c].source = journal[LastSuite].attempt /\ ~ journal[LastSuite].passed

ScheduleRepair(c) ==
  /\ Enters(c, "schedule")
  /\ IF RequestHolds(c) THEN MoveTo("EXECUTING") /\ Go(c, "scheduling") /\ UNCHANGED seen
     ELSE Return(c) /\ UNCHANGED state
  /\ UNCHANGED <<journal, cursor, candidate, outside, bounds>>

\* The schedule is written before the cursor goes back to the node.
RecordSchedule(c) ==
  /\ at[c] = "scheduling"
  /\ IF seen[c].deadline <= clock
     THEN Finish(c, "FAILED_RETRY_EXHAUSTED") /\ UNCHANGED journal
     ELSE /\ Write([type |-> "VERIFICATION_REPAIR_SCHEDULED", repair |-> seen[c].repair,
                    source |-> seen[c].source, deadline |-> seen[c].deadline])
          /\ Go(c, "cursor") /\ UNCHANGED <<state, seen>>
  /\ UNCHANGED <<cursor, candidate, outside, bounds>>

MoveCursor(c) ==
  /\ at[c] = "cursor"
  /\ cursor' = "work"
  /\ Go(c, "loop") /\ Carry(c, Nothing)
  /\ UNCHANGED <<state, journal, candidate, outside, bounds>>

-----------------------------------------------------------------------------
(* The candidate (modules Worktree and Promotion have its steps).          *)

\* What is in the worktree becomes one commit on the base, a new one unless it is
\* there already.
NextHead == IF tree = "clean" THEN head ELSE head + 1

PrepareCandidate(c) ==
  /\ Enters(c, "idle")
  /\ promotes /\ state = "VERIFYING" /\ NextHead # 0
  /\ head' = NextHead /\ candidate' = NextHead /\ tree' = "clean"
  /\ UNCHANGED <<state, journal, cursor, promotes, stale, clock, effects, at, seen, bounds>>

\* Without a promotion manager whoever provides the worktree commits in it.
Commit ==
  /\ ~ promotes /\ tree = "edited"
  /\ head' = head + 1 /\ tree' = "clean"
  /\ UNCHANGED <<stored, promotes, stale, clock, effects, at, seen, bounds>>

\* promote, as far as _require_passing_candidate_suite goes (module Promotion).
Promote(c) ==
  /\ Enters(c, "idle")
  /\ promotes /\ state = "VERIFYING"
  /\ tree = "clean" /\ candidate = head
  /\ SuitesReplay /\ Suites # {}
  /\ Verdict(LastSuite) /\ journal[LastSuite].commit = candidate
  /\ MoveTo("COMPLETED")
  /\ UNCHANGED <<journal, cursor, candidate, outside, at, seen, bounds>>

VerificationSession(c) ==
  \/ LookAtWorktree(c) \/ Block(c) \/ EnterVerify(c)
  \/ StartGate(c) \/ RunGate(c) \/ RecordSuite(c) \/ Certify(c)
  \/ AskRepair(c) \/ ScheduleRepair(c) \/ RecordSchedule(c) \/ MoveCursor(c)
=============================================================================
