---------------------------- MODULE StateMachine ----------------------------
(***************************************************************************)
(* runtime/state_machine.py, EventSourcedStateMachine, for one execution.  *)
(*                                                                         *)
(* A transition is written ahead: first the event, appended to the         *)
(* journal, then, for the evidenced completion, the evidence manifest,     *)
(* then the snapshot (the record), by compare-and-set.  Each of the three  *)
(* is one atomic durable file replacement of persistence/atomic_file.py.   *)
(* The process may die, or a write report a failure, with the replacement  *)
(* done or not, after any of them; the next use of the execution replays   *)
(* the journal against the snapshot and applies the transition that is     *)
(* pending, if any.                                                        *)
(*                                                                         *)
(* All of it happens while one session holds the execution lock (module    *)
(* FencedLock): one session at a time, with tokens that never decrease.    *)
(***************************************************************************)
EXTENDS ExecutionStates, Naturals, Sequences

CONSTANTS
  MaxToken,      \* bound: fencing tokens stop growing there
  MaxRevision,   \* bound: revisions of the record
  MaxClock,      \* bound: readings of the wall clock
  MaxFailures    \* bound: crashes and failed writes

ASSUME MachineBoundsAreNat ==
  /\ MaxToken \in Nat \ {0}
  /\ MaxRevision \in Nat
  /\ MaxClock \in Nat
  /\ MaxFailures \in Nat

VARIABLES
  record,     \* the snapshot: [state, revision, updated]
  journal,    \* the STATE_TRANSITIONED events of the journal, in order
  manifest,   \* the position of the event the evidence attests, 0 if none
  session,    \* where the session that holds the lock is; "closed": nobody
  granted,    \* the fencing token last granted
  failures    \* counter for the bound

disk == <<record, journal, manifest>>
machineVars == <<disk, session, granted, failures>>

Clock == 0 .. MaxClock

SessionPlaces == {"closed", "opened", "ready", "appended", "attested"}

MachineInit ==
  /\ record = [state |-> "INITIATED", revision |-> 0, updated |-> 0]
  /\ journal = << >>
  /\ manifest = 0
  /\ session = "closed"
  /\ granted = 0
  /\ failures = 0

-----------------------------------------------------------------------------
(* _analyze_locked: replay of the journal against the snapshot.            *)

Last == journal[Len(journal)]

Committed(i) == journal[i].revision <= record.revision

\* Each event continues where the one before it ended, along an edge.
ChainHolds ==
  \A i \in DOMAIN journal :
    /\ journal[i].from = IF i = 1 THEN "INITIATED" ELSE journal[i - 1].to
    /\ journal[i].to \in Edges[journal[i].from]

\* Revisions increase strictly; tokens and timestamps never regress.
OrderHolds ==
  \A i \in DOMAIN journal :
    /\ journal[i].revision > 0
    /\ i > 1 => /\ journal[i].revision > journal[i - 1].revision
                /\ journal[i].token >= journal[i - 1].token
                /\ journal[i].at >= journal[i - 1].at

\* At most the last event is pending, and it is the snapshot's next revision.
PendingIsNext ==
  \A i \in DOMAIN journal :
    IF Committed(i)
    THEN journal[i].at <= record.updated
    ELSE /\ i = Len(journal)
         /\ journal[i].revision = record.revision + 1
         /\ journal[i].at >= record.updated

\* The snapshot is in the state the last committed event led to.
CommittedIsSnapshot ==
  \/ /\ record.state = "INITIATED"
     /\ \A i \in DOMAIN journal : ~ Committed(i)
  \/ \E i \in DOMAIN journal :
       /\ Committed(i)
       /\ record.state = journal[i].to
       /\ \A j \in DOMAIN journal : Committed(j) => j <= i

ReplaySucceeds ==
  ChainHolds /\ OrderHolds /\ PendingIsNext /\ CommittedIsSnapshot

HasPending == journal # << >> /\ ~ Committed(Len(journal))

\* _handle_completed_recovery: the evidence must already be there.
RecoveryAllowed ==
  Evidenced(Last.from, Last.to) => manifest = Len(journal)

-----------------------------------------------------------------------------
(* How a write ends: it is acknowledged and the session goes on to place,  *)
(* or the process dies or the write reports a failure after all, and the   *)
(* lock is released or the caller starts over under the same lock.         *)

\* Mutant of Fail: the caller goes on under the same lock without recovering.
FailGoesOn ==
  /\ failures < MaxFailures
  /\ failures' = failures + 1
  /\ session' \in {"ready", "closed"}

Fail ==
  /\ failures < MaxFailures
  /\ failures' = failures + 1
  /\ session' \in {"opened", "closed"}

Reach(place) ==
  \/ session' = place /\ UNCHANGED failures
  \/ Fail

\* _state_replacement and compare_and_set_execution.
Publish(state, revision, updated) ==
  record' = [state |-> state, revision |-> revision, updated |-> updated]

-----------------------------------------------------------------------------
(* The session.                                                            *)

Open ==
  /\ session = "closed"
  /\ granted' = IF granted < MaxToken THEN granted + 1 ELSE granted
  /\ session' = "opened"
  /\ UNCHANGED <<disk, failures>>

\* Mutant of Recover: it validates the pending transition and drops it.
RecoverForgets ==
  /\ session = "opened"
  /\ ReplaySucceeds
  /\ session' = "ready"
  /\ UNCHANGED <<disk, granted, failures>>

\* recover: apply the pending transition by compare-and-set, append nothing.
Recover ==
  /\ session = "opened"
  /\ ReplaySucceeds
  /\ IF HasPending
     THEN /\ RecoveryAllowed
          /\ Publish(Last.to, Last.revision, Last.at)
          /\ Reach("ready")
     ELSE /\ session' = "ready"
          /\ UNCHANGED <<record, failures>>
  /\ UNCHANGED <<journal, manifest, granted>>

\* Recovery raises: the history is inconsistent or the evidence is missing.
RefuseRecovery ==
  /\ session = "opened"
  /\ ~ ReplaySucceeds \/ (HasPending /\ ~ RecoveryAllowed)
  /\ session' = "closed"
  /\ UNCHANGED <<disk, granted, failures>>

\* Mutant of AppendTransition: the table is not consulted.
AppendUnchecked(to, now) ==
  /\ session = "ready"
  /\ now >= record.updated
  /\ record.revision < MaxRevision
  /\ journal' = Append(journal,
       [from |-> record.state, to |-> to, revision |-> record.revision + 1,
        token |-> granted, at |-> now])
  /\ Reach("appended")
  /\ UNCHANGED <<record, manifest, granted>>

\* transition_to: check the edge and the clock, append the event.
AppendTransition(to, now) ==
  /\ session = "ready"
  /\ to \in Edges[record.state]
  /\ now >= record.updated
  /\ record.revision < MaxRevision
  /\ journal' = Append(journal,
       [from |-> record.state, to |-> to, revision |-> record.revision + 1,
        token |-> granted, at |-> now])
  /\ Reach("appended")
  /\ UNCHANGED <<record, manifest, granted>>

\* Mutant of HandleCompletion: the evidence is left for later.
HandlerSkipped ==
  /\ session = "appended"
  /\ session' = "attested"
  /\ UNCHANGED <<disk, granted, failures>>

\* _handle_completed_transition: publish the evidence before the snapshot.
HandleCompletion ==
  /\ session = "appended"
  /\ IF Evidenced(Last.from, Last.to)
     THEN manifest' = Len(journal) /\ Reach("attested")
     ELSE session' = "attested" /\ UNCHANGED <<manifest, failures>>
  /\ UNCHANGED <<record, journal, granted>>

CommitTransition ==
  /\ session = "attested"
  /\ Publish(Last.to, Last.revision, Last.at)
  /\ Reach("ready")
  /\ UNCHANGED <<journal, manifest, granted>>

\* Any other compare-and-set of the callers: the state stays as it is.
UpdateSnapshot(now) ==
  /\ session = "ready"
  /\ now >= record.updated
  /\ record.revision < MaxRevision
  /\ Publish(record.state, record.revision + 1, now)
  /\ Reach("ready")
  /\ UNCHANGED <<journal, manifest, granted>>

Close ==
  /\ session = "ready"
  /\ session' = "closed"
  /\ UNCHANGED <<disk, granted, failures>>

\* The process dies, or a step raises, before the step has any effect.
Abort ==
  /\ session # "closed"
  /\ Fail
  /\ UNCHANGED <<disk, granted>>

-----------------------------------------------------------------------------
Transition(now) ==
  \/ \E to \in State : AppendTransition(to, now)
  \/ UpdateSnapshot(now)

MachineNext ==
  \/ Open \/ Recover \/ RefuseRecovery \/ HandleCompletion \/ CommitTransition
  \/ Close \/ Abort
  \/ \E now \in Clock : Transition(now)

MachineSpec == MachineInit /\ [][MachineNext]_machineVars

\* Whoever is told of a failure tries again, and a session that has begun a
\* step finishes it unless it dies.
Run == Open \/ Recover \/ RefuseRecovery \/ HandleCompletion \/ CommitTransition

FairMachine == MachineSpec /\ WF_machineVars(Run)

-----------------------------------------------------------------------------
(* Properties.                                                             *)

Event == [from : State, to : State, revision : Nat, token : Nat, at : Nat]

MachineTyped ==
  /\ record \in [state : State, revision : Nat, updated : Nat]
  /\ journal \in Seq(Event)
  /\ manifest \in Nat
  /\ session \in SessionPlaces
  /\ granted \in Nat
  /\ failures \in Nat

\* Whatever died or failed between the writes, snapshot and journal can be
\* reconciled: no execution is ever left with a history that replay rejects.
ReplayNeverFails == ReplaySucceeds

\* A session that may write has nothing pending: a second transition is never
\* written ahead on top of one that the snapshot does not show yet.
ReadyIsSettled == session = "ready" => ~ HasPending

\* The evidence attests the one event that completed the execution with
\* evidence, and no completion of that kind is visible without it.
EvidenceMatches ==
  /\ manifest # 0 =>
       /\ manifest \in DOMAIN journal
       /\ Evidenced(journal[manifest].from, journal[manifest].to)
  /\ \A i \in DOMAIN journal :
       Committed(i) /\ Evidenced(journal[i].from, journal[i].to) => manifest = i

\* What a reader of the snapshot sees is a life along the table, with the
\* evidence published before the completion that needs it.
Life == INSTANCE ExecutionLife WITH
  state <- record.state, evidence <- (manifest # 0)

ImplementsExecutionLife == Life!LifeSpec

\* A transition that was written ahead, with its evidence if it needs one, is
\* eventually shown by the snapshot.
InterruptedTransitionsResume ==
  HasPending /\ RecoveryAllowed ~> ~ HasPending

\* The same for a completion interrupted before its evidence was published.
InterruptedCompletionResumes ==
  HasPending /\ Evidenced(Last.from, Last.to) ~> ~ HasPending
=============================================================================
