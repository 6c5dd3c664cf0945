--------------------------- MODULE PromotionProofs ---------------------------
(***************************************************************************)
(* What lands on the user's branch was approved and verified, it lands     *)
(* once, and what is recorded of it is true: for any number of contents of *)
(* the worktree, requests, moves of the user and deaths.                   *)
(*                                                                         *)
(* An event that is written ahead is the only one of its kind that the     *)
(* snapshot may lack, and it is one revision ahead.  Applying one makes    *)
(* every other that was pending void, which is harmless but for the        *)
(* decision that a block of verify overtakes.                              *)
(***************************************************************************)
EXTENDS Promotion, WellFoundedInduction, TLAPS

-----------------------------------------------------------------------------
(* The inductive invariant.                                                *)

NothingLanded == \A k \in DOMAIN original : original[k] = User
OnBranch(commit) == \E k \in DOMAIN original : original[k] = commit

IsState(i, values) == journal[i].kind = "state" /\ journal[i].value \in values
Ends == {"GENERATING_EVIDENCE", "COMPLETED"}

AllApplied == \A i \in DOMAIN journal : ~ Pending(i)
NonePending(kind) == \A i \in DOMAIN journal : journal[i].kind = kind => ~ Pending(i)

\* The revisions of one kind of events increase.
Increasing(kind) ==
  \A i, j \in DOMAIN journal :
    journal[i].kind = kind /\ journal[j].kind = kind /\ j < i =>
      journal[j].rev < journal[i].rev

\* What each event has behind it, and which may be pending.
EventIsBacked(i) ==
  /\ journal[i].rev <= record.rev + 1
  /\ journal[i].kind \in Outcomes => journal[i].commit # 0
  /\ journal[i].kind = "promoted" => OnBranch(journal[i].commit)
  /\ ~ IsState(i, {"VERIFYING"})
  /\ IsState(i, Ends) => record.promoted # 0
  /\ IsState(i, {"DRY_RUN_COMPLETED"}) /\ Pending(i) => NothingLanded

\* Beside a pending decision only the block of verify may be pending.
BlockOvertakes ==
  \A i, j \in DOMAIN journal :
    /\ journal[i].kind = "state" /\ journal[j].kind = "approval"
    /\ Pending(i) /\ Pending(j)
    => journal[i].value = "BLOCKED_PREREQUISITE"

JournalInv ==
  /\ \A i \in DOMAIN journal : EventIsBacked(i)
  /\ Increasing("approval") /\ Increasing("state")
  /\ BlockOvertakes

\* Snapshot and projection against the history of the approval.
ApprovalInv ==
  /\ \A i \in Approvals : Follows(i)
  /\ projection \in Approvals \cup {0}
  /\ ProjectionNeverAhead
  /\ record.state # "BLOCKED_PREREQUISITE" /\ Approvals # {} /\ ~ Pending(Max(Approvals)) =>
       record.approval = Latest.value

\* The branch against the snapshot.
LandInv ==
  /\ LandsOnce
  /\ ~ NothingLanded => record.state \notin {"VERIFYING", "DRY_RUN_COMPLETED"}
  /\ record.promoted # 0 => OnBranch(record.promoted)
  /\ record.state \in Ends => record.promoted # 0

\* Whatever verify looked at was a recorded candidate.
CandidateInv ==
  /\ tree # 0
  /\ verifier.commit # 0 \/ suite.commit # 0 => record.candidate # 0

Authorized ==
  /\ reference # 0 /\ record.candidate = reference /\ record.approval = "APPROVED"
  /\ Passed(reference) /\ Approvals # {} /\ Latest.commit = reference

\* The last event is written ahead, by a session that may.
WrittenAhead ==
  /\ journal # << >> /\ journal[Len(journal)].rev = record.rev + 1
  /\ journal[Len(journal)].kind \in {"approval", "candidate", "promoted", "state"}
  /\ \/ journal[Len(journal)].kind = "approval" \/ NonePending("approval")
     \/ IsState(Len(journal), {"BLOCKED_PREREQUISITE"})
  /\ op \in {"suite", "block"} => IsState(Len(journal), {"BLOCKED_PREREQUISITE"})
  /\ IsState(Len(journal), {"PROMOTING"}) => Authorized
  /\ journal[Len(journal)].kind = "promoted" => record.state = "PROMOTING"
  /\ journal[Len(journal)].kind = "approval" => record.state \in {"VERIFYING", "PROMOTING"}

\* What its place says of a session.
SessionInv ==
  /\ op \in {"suite", "block"} => pc \in {"idle", "state", "act", "gates", "cas"}
  /\ pc \notin {"idle", "approval", "fields", "state", "cas"} => NonePending("state")
  /\ pc \notin {"idle", "approval", "cas"} /\ op \notin {"suite", "block"} =>
       NonePending("approval")
  /\ pc \in {"commit", "publish", "record", "gates", "dry", "start"} =>
       record.state = "VERIFYING"
  /\ pc \in {"check", "pick", "prove", "blocked", "outcome", "evidence"} =>
       record.state = "PROMOTING"
  /\ pc = "complete" => record.state = "GENERATING_EVIDENCE"
  /\ pc = "cas" =>
       record.state \in {"VERIFYING", "PROMOTING", "GENERATING_EVIDENCE"} /\ WrittenAhead
  /\ pc = "project" => record.state \in {"VERIFYING", "PROMOTING"} /\ Approvals # {}
  /\ record.state = "BLOCKED_PREREQUISITE" => AllApplied
  /\ pc \in {"publish", "record"} => head # 0
  /\ pc \in {"record", "prove", "outcome"} => reference # 0
  /\ pc \in {"start", "check", "pick"} => Authorized
  /\ pc = "pick" => NothingLanded
  /\ pc = "outcome" => OnBranch(reference)
  /\ pc \in {"evidence", "complete"} => record.promoted # 0

PromotionInv ==
  TypeOK /\ JournalInv /\ ApprovalInv /\ LandInv /\ CandidateInv /\ SessionInv

-----------------------------------------------------------------------------
(* Events, positions and the latest of them.                               *)

\* Events by their kind.
LEMMA EventFacts ==
  ASSUME NEW e \in Event
  PROVE  /\ e.rev \in Nat /\ e.commit \in Commit
         /\ e.kind \in {"approval", "state", "candidate", "promoted", "started", "dry"}
         /\ e.kind = "approval" => e.value \in Decisions
         /\ e.kind = "state" => e.value \in States
BY DEF Event

\* What a session writes is an event.
LEMMA MakesEvent ==
  ASSUME NEW rev \in Nat, NEW commit \in Commit
  PROVE  /\ \A value \in Decisions :
              [kind |-> "approval", rev |-> rev, commit |-> commit, value |-> value] \in Event
         /\ \A value \in States :
              [kind |-> "state", rev |-> rev, commit |-> commit, value |-> value] \in Event
         /\ \A kind \in {"candidate", "promoted", "started", "dry"} :
              [kind |-> kind, rev |-> rev, commit |-> commit, value |-> ""] \in Event
BY DEF Event

\* A bounded set of positions has a last one.
LEMMA GreatestPosition ==
  ASSUME NEW S \in SUBSET Nat, NEW n \in Nat, \A s \in S : s <= n, S # {}
  PROVE  \E m \in S : \A k \in S : k <= m
<1> DEFINE T == {n - s : s \in S}
<1>1. T \in SUBSET Nat /\ T # {}
  <2>1. \A s \in S : n - s \in Nat
    <3>1. \A s \in S : s \in Nat /\ s <= n
      OBVIOUS
    <3> QED
      BY <3>1
  <2> QED
    BY <2>1
<1>2. PICK x \in T : \A y \in T : ~ (<<y, x>> \in OpToRel(<, Nat))
  BY <1>1, NatLessThanWellFounded, WFMin
<1>3. \A y \in T : ~ (y < x)
  BY <1>1, <1>2 DEF OpToRel
<1>4. PICK m \in S : x = n - m
  OBVIOUS
<1>5. ASSUME NEW k \in S PROVE k <= m
  <2>1. n - k \in T /\ ~ (n - k < n - m)
    BY <1>3, <1>4
  <2> QED
    BY <2>1
<1> QED
  BY <1>5

\* Max of positions is the last of them.
LEMMA MaxIsLast ==
  ASSUME NEW n \in Nat, NEW S \in SUBSET (1 .. n), S # {}
  PROVE  Max(S) \in S /\ \A k \in S : k <= Max(S)
<1>1. S \in SUBSET Nat /\ \A s \in S : s <= n
  OBVIOUS
<1>2. \E m \in S : \A k \in S : k <= m
  BY <1>1, GreatestPosition
<1>3. \E m \in S : \A k \in S : m >= k
  BY <1>1, <1>2
<1>4. Max(S) \in S /\ \A k \in S : Max(S) >= k
  BY <1>3 DEF Max
<1> QED
  BY <1>1, <1>4

\* The latest approval is there, and none is later.
LEMMA LatestIsLast ==
  ASSUME TypeOK, NEW kinds, Positions(kinds) # {}
  PROVE  /\ Max(Positions(kinds)) \in Positions(kinds)
         /\ Max(Positions(kinds)) \in DOMAIN journal
         /\ \A i \in Positions(kinds) : i <= Max(Positions(kinds))
         /\ journal[Max(Positions(kinds))] \in Event
<1>1. Positions(kinds) \in SUBSET (1 .. Len(journal)) /\ Len(journal) \in Nat
  BY DEF Positions, TypeOK
<1>2. /\ Max(Positions(kinds)) \in Positions(kinds)
      /\ \A i \in Positions(kinds) : i <= Max(Positions(kinds))
  BY <1>1, MaxIsLast
<1> QED
  BY <1>1, <1>2 DEF TypeOK, Positions

\* If the last event of a kind is in the snapshot, all of them are.
LEMMA LastApplied ==
  ASSUME TypeOK, NEW kind, Increasing(kind),
         Positions({kind}) # {} => ~ Pending(Max(Positions({kind})))
  PROVE  NonePending(kind)
<1> SUFFICES ASSUME NEW i \in DOMAIN journal, journal[i].kind = kind PROVE ~ Pending(i)
  BY DEF NonePending
<1>1. i \in Positions({kind}) /\ Positions({kind}) # {}
  BY DEF Positions
<1> DEFINE m == Max(Positions({kind}))
<1>2. m \in DOMAIN journal /\ journal[m].kind = kind /\ i <= m /\ ~ Pending(m)
  <2>1. m \in Positions({kind}) /\ m \in DOMAIN journal
    BY <1>1, LatestIsLast
  <2>2. i <= m
    BY <1>1, LatestIsLast
  <2>3. journal[m].kind = kind
    BY <2>1 DEF Positions
  <2> QED
    BY <1>1, <2>1, <2>2, <2>3
<1> HIDE DEF m
<1>3. journal[i] \in Event /\ journal[m] \in Event /\ record.rev \in Nat
  BY <1>2 DEF TypeOK
<1>4. i \in Nat /\ m \in Nat
  BY <1>2 DEF TypeOK
<1>5. i # m => journal[i].rev < journal[m].rev
  BY <1>2, <1>4 DEF Increasing
<1> QED
  BY <1>2, <1>3, <1>5, EventFacts DEF Pending

-----------------------------------------------------------------------------
(* The history of the approval, as a function of the log.                  *)

ApprovalsIn(log) == {i \in DOMAIN log : log[i].kind = "approval"}
Before(log, i) == {j \in ApprovalsIn(log) : j < i}

\* What an event may answer, when last is the latest of the approvals before it.
Answers(e, before, last) ==
  IF e.value = "PENDING"
  THEN before # {} => last.value \in {"EXPIRED", "INVALIDATED"}
  ELSE before # {} /\ last.value \in {"PENDING", "APPROVED"} /\ last.commit = e.commit

FollowsIn(log, i) == Answers(log[i], Before(log, i), log[Max(Before(log, i))])

\* The model's operators are these, of the journal.
LEMMA ApprovalsOfLog ==
  /\ Approvals = ApprovalsIn(journal) /\ Approvals' = ApprovalsIn(journal')
  /\ \A i : Follows(i) <=> FollowsIn(journal, i)
  /\ \A i : Follows(i)' <=> FollowsIn(journal', i)
  /\ Latest = journal[Max(Approvals)] /\ Latest' = journal'[Max(Approvals')]
<1>1. Approvals = ApprovalsIn(journal)
  BY DEF Approvals, Positions, ApprovalsIn
<1>2. Approvals' = ApprovalsIn(journal')
  BY DEF Approvals, Positions, ApprovalsIn
<1>3. \A i : Follows(i) <=> FollowsIn(journal, i)
  BY <1>1 DEF Follows, FollowsIn, Before, Answers
<1>4. \A i : Follows(i)' <=> FollowsIn(journal', i)
  BY <1>2 DEF Follows, FollowsIn, Before, Answers
<1> QED
  BY <1>1, <1>2, <1>3, <1>4 DEF Latest

\* An appended event.
LEMMA AppendFacts ==
  ASSUME NEW log \in Seq(Event), NEW e \in Event
  PROVE  /\ Append(log, e) \in Seq(Event)
         /\ Len(Append(log, e)) = Len(log) + 1 /\ Len(log) \in Nat
         /\ DOMAIN log = 1 .. Len(log) /\ DOMAIN Append(log, e) = 1 .. (Len(log) + 1)
         /\ \A i \in DOMAIN log : Append(log, e)[i] = log[i]
         /\ Append(log, e)[Len(log) + 1] = e
OBVIOUS

\* The history so far is what it was, and a new approval comes after all of it.
LEMMA HistoryGrows ==
  ASSUME NEW log \in Seq(Event), NEW e \in Event
  PROVE  /\ \A i \in DOMAIN log : FollowsIn(Append(log, e), i) <=> FollowsIn(log, i)
         /\ e.kind # "approval" => ApprovalsIn(Append(log, e)) = ApprovalsIn(log)
         /\ e.kind = "approval" =>
              /\ ApprovalsIn(Append(log, e)) = ApprovalsIn(log) \cup {Len(log) + 1}
              /\ Max(ApprovalsIn(Append(log, e))) = Len(log) + 1
              /\ FollowsIn(Append(log, e), Len(log) + 1) <=>
                   Answers(e, ApprovalsIn(log), log[Max(ApprovalsIn(log))])
<1> DEFINE grown == Append(log, e)
           n == Len(log)
<1>1. /\ grown \in Seq(Event) /\ n \in Nat
      /\ DOMAIN log = 1 .. n /\ DOMAIN grown = 1 .. (n + 1)
      /\ \A i \in 1 .. n : grown[i] = log[i]
      /\ grown[n + 1] = e
  BY AppendFacts
<1> HIDE DEF grown, n
<1>2. ASSUME NEW i \in DOMAIN log PROVE FollowsIn(grown, i) <=> FollowsIn(log, i)
  <2>1. Before(grown, i) = Before(log, i) /\ grown[i] = log[i]
    BY <1>1 DEF Before, ApprovalsIn
  <2>2. CASE Before(log, i) = {}
    BY <2>1, <2>2 DEF FollowsIn, Answers
  <2>3. CASE Before(log, i) # {}
    <3>1. Before(log, i) \in SUBSET (1 .. n)
      BY <1>1 DEF Before, ApprovalsIn
    <3>2. Max(Before(log, i)) \in Before(log, i)
      BY <1>1, <2>3, <3>1, MaxIsLast
    <3>3. grown[Max(Before(log, i))] = log[Max(Before(log, i))]
      BY <1>1, <3>1, <3>2
    <3> QED
      BY <2>1, <3>3 DEF FollowsIn
  <2> QED
    BY <2>2, <2>3
<1>3. e.kind # "approval" => ApprovalsIn(grown) = ApprovalsIn(log)
  BY <1>1 DEF ApprovalsIn
<1>4. e.kind = "approval" => ApprovalsIn(grown) = ApprovalsIn(log) \cup {n + 1}
  BY <1>1 DEF ApprovalsIn
<1>5. ASSUME e.kind = "approval" PROVE Max(ApprovalsIn(grown)) = n + 1
  <2>1. /\ ApprovalsIn(grown) \in SUBSET (1 .. (n + 1))
        /\ n + 1 \in ApprovalsIn(grown) /\ n + 1 \in Nat
    BY <1>1, <1>4, <1>5 DEF ApprovalsIn
  <2>2. /\ Max(ApprovalsIn(grown)) \in ApprovalsIn(grown)
        /\ n + 1 <= Max(ApprovalsIn(grown))
    BY <2>1, MaxIsLast
  <2>3. Max(ApprovalsIn(grown)) \in 1 .. (n + 1)
    BY <2>1, <2>2
  <2> QED
    BY <1>1, <2>2, <2>3
<1>6. ASSUME e.kind = "approval"
      PROVE  FollowsIn(grown, n + 1) <=>
               Answers(e, ApprovalsIn(log), log[Max(ApprovalsIn(log))])
  <2>1. Before(grown, n + 1) = ApprovalsIn(log)
    BY <1>1 DEF Before, ApprovalsIn
  <2>2. CASE ApprovalsIn(log) = {}
    BY <1>1, <2>1, <2>2 DEF FollowsIn, Answers
  <2>3. CASE ApprovalsIn(log) # {}
    <3>1. ApprovalsIn(log) \in SUBSET (1 .. n)
      BY <1>1 DEF ApprovalsIn
    <3>2. Max(ApprovalsIn(log)) \in 1 .. n
      BY <1>1, <2>3, <3>1, MaxIsLast
    <3>3. grown[Max(ApprovalsIn(log))] = log[Max(ApprovalsIn(log))]
      BY <1>1, <3>2
    <3> QED
      BY <1>1, <2>1, <3>3 DEF FollowsIn
  <2> QED
    BY <2>2, <2>3
<1> QED
  BY <1>2, <1>3, <1>4, <1>5, <1>6 DEF grown, n

-----------------------------------------------------------------------------
(* A step that writes an event.                                            *)

WritesEvent(e) == journal' = Append(journal, e) /\ UNCHANGED record

\* An event that is written ahead: nothing that its session should have
\* recovered is pending, and its session is one that may.
ComesNext(e) ==
  /\ e.rev = record.rev + 1 /\ e.kind \in {"approval", "candidate", "promoted", "state"}
  /\ NonePending("state")
  /\ NonePending("approval") \/ (e.kind = "state" /\ e.value = "BLOCKED_PREREQUISITE")

\* What an event has behind it when it is written.
HasGrounds(e) ==
  /\ e.kind \in Outcomes => e.commit # 0
  /\ e.kind = "promoted" => OnBranch(e.commit)
  /\ e.kind = "state" => e.value # "VERIFYING"
  /\ e.kind = "state" /\ e.value \in Ends => record.promoted # 0
  /\ e.kind = "state" /\ e.value = "DRY_RUN_COMPLETED" => NothingLanded
  /\ e.kind = "approval" => Answers(e, Approvals, Latest)

\* The journal after a write.
LEMMA JournalGrows ==
  ASSUME TypeOK, NEW e \in Event, WritesEvent(e)
  PROVE  /\ journal' \in Seq(Event) /\ Len(journal) \in Nat /\ record.rev \in Nat
         /\ Len(journal') = Len(journal) + 1
         /\ DOMAIN journal = 1 .. Len(journal)
         /\ DOMAIN journal' = 1 .. (Len(journal) + 1)
         /\ \A i \in 1 .. Len(journal) : journal'[i] = journal[i] /\ journal[i] \in Event
         /\ journal'[Len(journal) + 1] = e
         /\ e.kind # "approval" => Approvals' = Approvals /\ (Approvals # {} => Latest' = Latest)
         /\ e.kind = "approval" => /\ Approvals' = Approvals \cup {Len(journal) + 1}
                                   /\ Max(Approvals') = Len(journal) + 1
<1>1. journal \in Seq(Event) /\ record.rev \in Nat
  BY DEF TypeOK
<1>2. /\ journal' \in Seq(Event) /\ Len(journal) \in Nat
      /\ Len(journal') = Len(journal) + 1
      /\ DOMAIN journal = 1 .. Len(journal)
      /\ DOMAIN journal' = 1 .. (Len(journal) + 1)
      /\ \A i \in 1 .. Len(journal) : journal'[i] = journal[i]
      /\ journal'[Len(journal) + 1] = e
  BY <1>1, AppendFacts DEF WritesEvent
<1>3. \A i \in 1 .. Len(journal) : journal[i] \in Event
  BY <1>1
<1>4. /\ e.kind # "approval" => ApprovalsIn(journal') = ApprovalsIn(journal)
      /\ e.kind = "approval" => /\ ApprovalsIn(journal') = ApprovalsIn(journal) \cup {Len(journal) + 1}
                                /\ Max(ApprovalsIn(journal')) = Len(journal) + 1
  BY <1>1, HistoryGrows DEF WritesEvent
<1>5. /\ e.kind # "approval" => Approvals' = Approvals
      /\ e.kind = "approval" => /\ Approvals' = Approvals \cup {Len(journal) + 1}
                                /\ Max(Approvals') = Len(journal) + 1
  BY <1>4, ApprovalsOfLog
<1>6. ASSUME e.kind # "approval", Approvals # {} PROVE Latest' = Latest
  <2>1. Max(Approvals) \in 1 .. Len(journal)
    BY <1>2, <1>6, LatestIsLast DEF Approvals
  <2> QED
    BY <1>2, <1>5, <1>6, <2>1, ApprovalsOfLog
<1> QED
  BY <1>1, <1>2, <1>3, <1>5, <1>6

\* What was pending still is; a note is not.
LEMMA PendingGrows ==
  ASSUME TypeOK, NEW e \in Event, WritesEvent(e)
  PROVE  /\ \A i \in 1 .. Len(journal) : Pending(i)' <=> Pending(i)
         /\ \A i : i = Len(journal) + 1 => (Pending(i)' <=> e.rev > record.rev)
         /\ \A kind : e.kind # kind \/ e.rev <= record.rev =>
              (NonePending(kind)' <=> NonePending(kind))
<1>1. /\ record' = record /\ record.rev \in Nat /\ Len(journal) \in Nat
      /\ DOMAIN journal = 1 .. Len(journal) /\ DOMAIN journal' = 1 .. (Len(journal) + 1)
      /\ \A i \in 1 .. Len(journal) : journal'[i] = journal[i]
      /\ journal'[Len(journal) + 1] = e /\ e.rev \in Nat
  BY JournalGrows, EventFacts DEF WritesEvent
<1>2. \A i \in 1 .. Len(journal) : Pending(i)' <=> Pending(i)
  BY <1>1 DEF Pending
<1>3. \A i : i = Len(journal) + 1 => (Pending(i)' <=> e.rev > record.rev)
  BY <1>1 DEF Pending
<1>4. ASSUME NEW kind, e.kind # kind \/ e.rev <= record.rev
      PROVE  NonePending(kind)' <=> NonePending(kind)
  <2>1. e.kind = kind => ~ (e.rev > record.rev)
    BY <1>1, <1>4
  <2> QED
    BY <1>1, <1>2, <1>3, <2>1 DEF NonePending
<1> QED
  BY <1>2, <1>3, <1>4

\* Writing an event that has grounds keeps journal and history in order.
LEMMA WriteKeepsJournal ==
  ASSUME TypeOK, JournalInv, NEW e \in Event, WritesEvent(e), UNCHANGED original,
         ComesNext(e) \/ (e.kind \in {"started", "dry"} /\ e.rev = 0),
         HasGrounds(e)
  PROVE  JournalInv'
<1> DEFINE n == Len(journal)
<1>1. /\ n \in Nat /\ record.rev \in Nat /\ e.rev \in Nat /\ e.rev <= record.rev + 1
      /\ DOMAIN journal = 1 .. n /\ DOMAIN journal' = 1 .. (n + 1)
      /\ \A i \in 1 .. n : journal'[i] = journal[i] /\ journal[i].rev \in Nat
      /\ journal'[n + 1] = e /\ record' = record
      /\ \A i \in 1 .. n : Pending(i)' <=> Pending(i)
      /\ \A i : i = n + 1 => (Pending(i)' <=> e.rev > record.rev)
  BY JournalGrows, PendingGrows, EventFacts DEF ComesNext, WritesEvent
<1>2. (NothingLanded' <=> NothingLanded) /\ \A c : OnBranch(c)' <=> OnBranch(c)
  BY DEF NothingLanded, OnBranch
<1> HIDE DEF n
<1>3. ASSUME NEW i \in 1 .. n PROVE EventIsBacked(i)'
  <2>1. EventIsBacked(i)
    BY <1>1 DEF JournalInv
  <2> QED
    BY <1>1, <1>2, <2>1 DEF EventIsBacked, IsState
<1>4. ASSUME NEW i, i = n + 1 PROVE EventIsBacked(i)'
  <2>1. journal'[i] = e
    BY <1>1, <1>4
  <2> QED
    BY <1>1, <1>2, <2>1 DEF EventIsBacked, IsState, HasGrounds
<1>5. ASSUME NEW kind \in {"approval", "state"} PROVE Increasing(kind)'
  <2>1. Increasing(kind)
    BY DEF JournalInv
  <2>2. e.kind = kind => NonePending(kind) /\ e.rev = record.rev + 1
    BY DEF ComesNext
  <2>3. e.kind = kind => \A j \in 1 .. n : journal[j].kind = kind => journal[j].rev < e.rev
    BY <1>1, <2>2 DEF NonePending, Pending
  <2> QED
    BY <1>1, <2>1, <2>3 DEF Increasing
<1>6. BlockOvertakes'
  <2>1. BlockOvertakes
    BY DEF JournalInv
  <2>2. ASSUME NEW i \in 1 .. (n + 1), NEW j \in 1 .. (n + 1),
               journal'[i].kind = "state", journal'[j].kind = "approval",
               Pending(i)', Pending(j)'
        PROVE  journal'[i].value = "BLOCKED_PREREQUISITE"
    <3>1. CASE i \in 1 .. n /\ j \in 1 .. n
      BY <1>1, <2>1, <2>2, <3>1 DEF BlockOvertakes
    <3>2. CASE i = n + 1
      BY <1>1, <2>2, <3>2 DEF ComesNext, NonePending
    <3>3. CASE j = n + 1 /\ i \in 1 .. n
      BY <1>1, <2>2, <3>3 DEF ComesNext, NonePending
    <3> QED
      BY <1>1, <3>1, <3>2, <3>3
  <2> QED
    BY <1>1, <2>2 DEF BlockOvertakes
<1>7. \A i \in DOMAIN journal' : EventIsBacked(i)'
  <2>1. \A i \in 1 .. (n + 1) : i \in 1 .. n \/ i = n + 1
    BY <1>1
  <2> QED
    BY <1>1, <1>3, <1>4, <2>1
<1> QED
  BY <1>5, <1>6, <1>7 DEF JournalInv

\* It keeps snapshot and projection in order with the history of the approval.
LEMMA WriteKeepsApproval ==
  ASSUME TypeOK, ApprovalInv, NEW e \in Event, WritesEvent(e), UNCHANGED projection,
         e.kind = "approval" => e.rev = record.rev + 1,
         HasGrounds(e)
  PROVE  ApprovalInv'
<1>1. /\ Len(journal) \in Nat /\ record.rev \in Nat /\ record' = record
      /\ DOMAIN journal = 1 .. Len(journal)
      /\ journal'[Len(journal) + 1] = e
      /\ \A i \in 1 .. Len(journal) : Pending(i)' <=> Pending(i)
      /\ \A i : i = Len(journal) + 1 => (Pending(i)' <=> e.rev > record.rev)
  BY JournalGrows, PendingGrows DEF WritesEvent
<1>2. /\ e.kind # "approval" => Approvals' = Approvals /\ (Approvals # {} => Latest' = Latest)
      /\ e.kind = "approval" => /\ Approvals' = Approvals \cup {Len(journal) + 1}
                                /\ Max(Approvals') = Len(journal) + 1
  BY JournalGrows
<1>3. Approvals \in SUBSET (1 .. Len(journal))
  BY <1>1, ApprovalsOfLog DEF ApprovalsIn
<1>4. \A i \in Approvals' : Follows(i)'
  <2>1. journal \in Seq(Event) /\ journal' = Append(journal, e)
    BY DEF TypeOK, WritesEvent
  <2>2. ASSUME NEW i \in Approvals PROVE Follows(i)'
    <3>1. FollowsIn(journal, i) /\ i \in DOMAIN journal
      BY <1>1, <1>3, ApprovalsOfLog DEF ApprovalInv
    <3>2. FollowsIn(journal', i)
      BY <2>1, <3>1, HistoryGrows
    <3> QED
      BY <3>2, ApprovalsOfLog
  <2>3. ASSUME e.kind = "approval", NEW i, i = Len(journal) + 1 PROVE Follows(i)'
    <3>1. Answers(e, ApprovalsIn(journal), journal[Max(ApprovalsIn(journal))])
      BY <2>3, ApprovalsOfLog DEF HasGrounds
    <3>2. FollowsIn(journal', i)
      BY <2>1, <2>3, <3>1, HistoryGrows
    <3> QED
      BY <3>2, ApprovalsOfLog
  <2> QED
    BY <1>2, <2>2, <2>3
<1>5. projection' \in Approvals' \cup {0}
  BY <1>2 DEF ApprovalInv
<1>6. ProjectionNeverAhead'
  <2>1. projection # 0 => projection \in 1 .. Len(journal) /\ ~ Pending(projection)
    BY <1>3 DEF ApprovalInv, ProjectionNeverAhead
  <2>2. ASSUME NEW p, p = projection PROVE p # 0 => ~ Pending(p)'
    BY <1>1, <2>1, <2>2
  <2> QED
    BY <2>2 DEF ProjectionNeverAhead, Pending
<1>7. (record.state # "BLOCKED_PREREQUISITE" /\ Approvals # {} /\ ~ Pending(Max(Approvals))
         => record.approval = Latest.value)'
  <2>1. CASE e.kind = "approval"
    <3>1. ASSUME NEW m, m = Max(Approvals') PROVE Pending(m)'
      BY <1>1, <1>2, <2>1, <3>1
    <3> QED
      BY <3>1 DEF Pending
  <2>2. CASE e.kind # "approval" /\ Approvals # {}
    <3>1. Approvals' = Approvals /\ Latest' = Latest
      BY <1>2, <2>2
    <3>2. Max(Approvals) \in 1 .. Len(journal)
      BY <1>1, <2>2, LatestIsLast DEF Approvals
    <3>3. ASSUME NEW m, m = Max(Approvals) PROVE Pending(m)' <=> Pending(m)
      BY <1>1, <3>2, <3>3
    <3>4. Pending(Max(Approvals))' <=> Pending(Max(Approvals))
      BY <3>1, <3>3 DEF Pending
    <3> QED
      BY <1>1, <2>2, <3>1, <3>4 DEF ApprovalInv
  <2>3. CASE e.kind # "approval" /\ Approvals = {}
    BY <1>2, <2>3
  <2> QED
    BY <2>1, <2>2, <2>3
<1> QED
  BY <1>4, <1>5, <1>6, <1>7 DEF ApprovalInv

\* The authority of a promotion does not depend on what else is written.
LEMMA AuthorityStays ==
  ASSUME TypeOK, NEW e \in Event, WritesEvent(e), e.kind # "approval",
         UNCHANGED <<suite, reference>>, Authorized
  PROVE  Authorized'
<1>1. Approvals # {} /\ Approvals' = Approvals /\ Latest' = Latest /\ record' = record
  BY JournalGrows DEF Authorized, WritesEvent
<1> QED
  BY <1>1 DEF Authorized, Passed

\* After it, the compare-and-set has its event at the end of the journal.
LEMMA CompareIsNext ==
  ASSUME TypeOK, NEW e \in Event, WritesEvent(e), ComesNext(e),
         UNCHANGED <<op, suite, reference>>,
         op \in {"suite", "block"} => e.kind = "state" /\ e.value = "BLOCKED_PREREQUISITE",
         e.kind = "state" /\ e.value = "PROMOTING" => Authorized,
         e.kind = "promoted" => record.state = "PROMOTING",
         e.kind = "approval" => record.state \in {"VERIFYING", "PROMOTING"}
  PROVE  WrittenAhead'
<1>1. /\ record' = record /\ Len(journal') = Len(journal) + 1 /\ Len(journal) \in Nat
      /\ journal'[Len(journal')] = e /\ journal' \in Seq(Event)
  BY JournalGrows DEF WritesEvent
<1>2. journal' # << >>
  BY <1>1
<1>3. e.kind # "approval" => (NonePending("approval")' <=> NonePending("approval"))
  BY PendingGrows
<1>4. e.kind = "state" /\ e.value = "PROMOTING" => Authorized'
  BY AuthorityStays
<1> QED
  BY <1>1, <1>2, <1>3, <1>4 DEF WrittenAhead, ComesNext, IsState

-----------------------------------------------------------------------------
(* A step that applies an event.                                           *)

\* The event that a session applies: it is pending, and it is the decision or
\* the transition, or no decision is pending.
LEMMA ApplyKeeps ==
  ASSUME TypeOK, JournalInv, ApprovalInv, LandInv, CandidateInv,
         record.state = "BLOCKED_PREREQUISITE" => AllApplied,
         NEW n \in DOMAIN journal, Pending(n), record' = Applied(journal[n]),
         journal[n].kind \in {"approval", "candidate", "promoted", "state"},
         \/ journal[n].kind \in {"approval", "state"}
         \/ NonePending("approval"),
         UNCHANGED <<journal, projection, suite, original, tree, verifier>>
  PROVE  /\ record' \in [rev : Nat, state : States, candidate : Commit, promoted : Commit,
                         approval : Decisions \cup {"NOT_REQUIRED"}]
         /\ JournalInv' /\ ApprovalInv' /\ LandInv' /\ CandidateInv'
         /\ AllApplied' /\ NonePending("approval")' /\ NonePending("state")'
<1> DEFINE e == journal[n]
<1>1. /\ e \in Event /\ e.rev \in Nat /\ e.commit \in Commit
      /\ e.kind = "approval" => e.value \in Decisions
      /\ e.kind = "state" => e.value \in States
      /\ \A i \in DOMAIN journal : journal[i] \in Event /\ journal[i].rev \in Nat
      /\ record.rev \in Nat /\ DOMAIN journal \subseteq Nat
  BY EventFacts DEF TypeOK
<1>2. EventIsBacked(n) /\ \A i \in DOMAIN journal : EventIsBacked(i)
  BY DEF JournalInv
<1>3. e.rev = record.rev + 1 /\ record'.rev = e.rev
  BY <1>1, <1>2 DEF EventIsBacked, Pending, Applied
<1>4. /\ record'.state = IF e.kind = "state" THEN e.value ELSE record.state
      /\ record'.candidate = IF e.kind = "candidate" THEN e.commit ELSE record.candidate
      /\ record'.promoted = IF e.kind = "promoted" THEN e.commit ELSE record.promoted
      /\ record'.approval = IF e.kind = "approval" THEN e.value ELSE record.approval
  BY DEF Applied
<1>5. record' \in [rev : Nat, state : States, candidate : Commit, promoted : Commit,
                   approval : Decisions \cup {"NOT_REQUIRED"}]
  <2>1. /\ record.state \in States /\ record.candidate \in Commit /\ record.promoted \in Commit
        /\ record.approval \in Decisions \cup {"NOT_REQUIRED"}
    BY DEF TypeOK
  <2> QED
    BY <1>1, <2>1 DEF Applied
<1>6. AllApplied'
  <2>1. ASSUME NEW i \in DOMAIN journal PROVE ~ (journal[i].rev > record'.rev)
    BY <1>1, <1>2, <1>3 DEF EventIsBacked
  <2> QED
    BY <2>1 DEF AllApplied, Pending
<1>7. NonePending("approval")' /\ NonePending("state")' /\ \A i \in DOMAIN journal : ~ Pending(i)'
  BY <1>6 DEF AllApplied, NonePending
<1>8. JournalInv'
  <2>1. ASSUME NEW i \in DOMAIN journal PROVE EventIsBacked(i)'
    <3>1. EventIsBacked(i) /\ ~ Pending(i)' /\ journal' = journal
      BY <1>2, <1>7
    <3>2. (IsState(i, Ends)' <=> IsState(i, Ends)) /\ (IsState(i, {"VERIFYING"})' <=> IsState(i, {"VERIFYING"}))
      BY DEF IsState
    <3>3. record.promoted # 0 => record'.promoted # 0
      BY <1>2, <1>4 DEF EventIsBacked, Outcomes
    <3>4. journal[i].kind = "promoted" => OnBranch(journal[i].commit)'
      BY <3>1 DEF EventIsBacked, OnBranch
    <3>5. journal[i].rev <= record'.rev + 1
      BY <1>1, <1>2, <1>3 DEF EventIsBacked
    <3> QED
      BY <3>1, <3>2, <3>3, <3>4, <3>5 DEF EventIsBacked, OnBranch
  <2>2. Increasing("approval")' /\ Increasing("state")'
    BY DEF JournalInv, Increasing
  <2>3. BlockOvertakes'
    BY <1>7 DEF BlockOvertakes
  <2> QED
    BY <2>1, <2>2, <2>3 DEF JournalInv
<1>9. ApprovalInv'
  <2>1. Approvals' = Approvals /\ Latest' = Latest /\ \A i : Follows(i)' <=> Follows(i)
    BY ApprovalsOfLog
  <2>2. ProjectionNeverAhead'
    <3>1. projection # 0 => projection \in DOMAIN journal
      BY ApprovalsOfLog DEF ApprovalInv, ApprovalsIn
    <3>2. ASSUME NEW p, p = projection PROVE p # 0 => ~ Pending(p)'
      BY <1>7, <3>1, <3>2
    <3> QED
      BY <3>2 DEF ProjectionNeverAhead, Pending
  <2>3. ASSUME record'.state # "BLOCKED_PREREQUISITE", Approvals # {}
        PROVE  record'.approval = Latest.value
    <3> DEFINE m == Max(Approvals)
    <3>1. /\ m \in Approvals /\ m \in DOMAIN journal
          /\ \A i \in Approvals : i <= m
      BY <2>3, LatestIsLast DEF Approvals
    <3>2. Latest = journal[m] /\ journal[m].kind = "approval"
      BY <3>1, ApprovalsOfLog DEF ApprovalsIn
    <3>3. record.state # "BLOCKED_PREREQUISITE"
      BY DEF AllApplied
    <3> HIDE DEF m
    <3>4. CASE e.kind = "approval"
      <4>1. n \in Approvals /\ n <= m
        BY <3>1, <3>4, ApprovalsOfLog DEF ApprovalsIn
      <4>2. n # m => journal[n].rev < journal[m].rev
        BY <1>1, <3>1, <3>2, <3>4, <4>1 DEF JournalInv, Increasing
      <4>3. journal[m].rev <= record.rev + 1
        BY <1>2, <3>1 DEF EventIsBacked
      <4>4. n = m
        BY <1>1, <1>3, <3>1, <4>2, <4>3
      <4> QED
        BY <1>4, <3>2, <3>4, <4>4
    <3>5. CASE e.kind # "approval"
      <4>1. ASSUME Pending(m) PROVE FALSE
        <5>1. e.kind = "state"
          BY <3>1, <3>2, <3>5, <4>1 DEF NonePending
        <5>2. e.value = "BLOCKED_PREREQUISITE"
          BY <3>1, <3>2, <4>1, <5>1 DEF JournalInv, BlockOvertakes
        <5> QED
          BY <1>4, <2>3, <5>1, <5>2
      <4>2. record.approval = Latest.value
        BY <2>3, <3>3, <4>1 DEF ApprovalInv, m
      <4> QED
        BY <1>4, <3>5, <4>2
    <3> QED
      BY <3>4, <3>5
  <2> QED
    BY <2>1, <2>2, <2>3 DEF ApprovalInv
<1>10. LandInv'
  <2>1. (NothingLanded' <=> NothingLanded) /\ (LandsOnce' <=> LandsOnce)
        /\ \A c : OnBranch(c)' <=> OnBranch(c)
    BY DEF NothingLanded, LandsOnce, OnBranch
  <2>2. LandsOnce'
    BY <2>1 DEF LandInv
  <2>3. ~ NothingLanded => record'.state \notin {"VERIFYING", "DRY_RUN_COMPLETED"}
    BY <1>2, <1>4 DEF LandInv, EventIsBacked, IsState
  <2>4. record'.promoted # 0 => OnBranch(record'.promoted)
    BY <1>2, <1>4 DEF LandInv, EventIsBacked
  <2>5. record'.state \in Ends => record'.promoted # 0
    BY <1>2, <1>4 DEF LandInv, EventIsBacked, IsState, Outcomes
  <2>6. ASSUME NEW c, c = record'.promoted, c # 0 PROVE OnBranch(c)'
    BY <2>1, <2>4, <2>6
  <2>7. (record.promoted # 0 => OnBranch(record.promoted))'
    BY <2>6 DEF OnBranch
  <2> QED
    BY <2>1, <2>2, <2>3, <2>5, <2>7 DEF LandInv
<1>11. CandidateInv'
  <2>1. record.candidate # 0 => record'.candidate # 0
    BY <1>2, <1>4 DEF EventIsBacked, Outcomes
  <2> QED
    BY <2>1 DEF CandidateInv
<1> QED
  BY <1>5, <1>6, <1>7, <1>8, <1>9, <1>10, <1>11

-----------------------------------------------------------------------------
(* Steps that leave snapshot and journal alone.                            *)

\* Snapshot and journal as they were: so is all that is read from them.
LEMMA SameReading ==
  ASSUME UNCHANGED <<record, journal>>
  PROVE  /\ \A kind : NonePending(kind)' <=> NonePending(kind)
         /\ AllApplied' <=> AllApplied
         /\ Approvals' = Approvals /\ Latest' = Latest
         /\ \A i : Follows(i)' <=> Follows(i)
         /\ UNCHANGED <<suite, reference>> => (Authorized' <=> Authorized)
         /\ UNCHANGED <<op, suite, reference>> => (WrittenAhead' <=> WrittenAhead)
<1>1. (\A kind : NonePending(kind)' <=> NonePending(kind)) /\ (AllApplied' <=> AllApplied)
  BY DEF NonePending, AllApplied, Pending
<1>2. Approvals' = Approvals /\ Latest' = Latest /\ \A i : Follows(i)' <=> Follows(i)
  BY ApprovalsOfLog
<1>3. UNCHANGED <<suite, reference>> => (Authorized' <=> Authorized)
  BY <1>2 DEF Authorized, Passed
<1>4. UNCHANGED <<op, suite, reference>> => (WrittenAhead' <=> WrittenAhead)
  BY <1>1, <1>3 DEF WrittenAhead, IsState
<1> QED
  BY <1>1, <1>2, <1>3, <1>4

\* The branch as it was.
LEMMA SameBranch ==
  ASSUME UNCHANGED original
  PROVE  /\ NothingLanded' <=> NothingLanded
         /\ LandsOnce' <=> LandsOnce
         /\ \A c : OnBranch(c)' <=> OnBranch(c)
BY DEF NothingLanded, LandsOnce, OnBranch

\* The branch may grow, as long as no dry run is waiting for it not to.
LEMMA QuietKeepsJournal ==
  ASSUME TypeOK, JournalInv, ApprovalInv, UNCHANGED <<record, journal, projection>>,
         \A c : OnBranch(c) => OnBranch(c)',
         NothingLanded => NothingLanded' \/ NonePending("state")
  PROVE  JournalInv' /\ ApprovalInv'
<1>1. ASSUME NEW i \in DOMAIN journal PROVE EventIsBacked(i)'
  <2>1. EventIsBacked(i) /\ (Pending(i)' <=> Pending(i))
    BY DEF JournalInv, Pending
  <2>2. \A values : IsState(i, values)' <=> IsState(i, values)
    BY DEF IsState
  <2>3. journal[i].kind = "promoted" => OnBranch(journal[i].commit)'
    BY <2>1 DEF EventIsBacked
  <2>4. ASSUME NEW c, c = journal[i].commit PROVE journal[i].kind = "promoted" => OnBranch(c)'
    BY <2>1, <2>4 DEF EventIsBacked
  <2>5. (journal[i].kind = "promoted" => OnBranch(journal[i].commit))'
    BY <2>4 DEF OnBranch
  <2>6. IsState(i, {"DRY_RUN_COMPLETED"}) /\ Pending(i) => NothingLanded'
    BY <2>1 DEF EventIsBacked, NonePending, IsState
  <2> QED
    BY <2>1, <2>2, <2>5, <2>6 DEF EventIsBacked
<1>2. JournalInv'
  BY <1>1 DEF JournalInv, Increasing, BlockOvertakes, Pending
<1>3. ApprovalInv'
  BY SameReading DEF ApprovalInv, ProjectionNeverAhead, Pending
<1> QED
  BY <1>2, <1>3

\* What a quiet step leaves to show.
LEMMA QuietKeeps ==
  ASSUME PromotionInv, UNCHANGED <<record, journal, projection, original>>,
         TypeOK', SessionInv', tree' # 0,
         verifier'.commit # 0 \/ suite'.commit # 0 => record.candidate # 0
  PROVE  PromotionInv'
<1>1. TypeOK /\ JournalInv /\ ApprovalInv /\ LandInv
  BY DEF PromotionInv
<1>2. JournalInv' /\ ApprovalInv'
  BY <1>1, SameBranch, QuietKeepsJournal
<1>3. LandInv'
  BY <1>1, SameBranch DEF LandInv, OnBranch
<1>4. CandidateInv'
  BY DEF CandidateInv
<1> QED
  BY <1>2, <1>3, <1>4 DEF PromotionInv

\* A session that returns leaves only what recovery will find.
LEMMA ReturnKeepsSession ==
  ASSUME SessionInv, pc' = "idle", UNCHANGED <<record, journal>>
  PROVE  SessionInv'
BY SameReading DEF SessionInv

\* A session that begins will recover first.
LEMMA BeginKeepsSession ==
  ASSUME SessionInv, UNCHANGED <<record, journal>>,
         \/ pc' = "approval" /\ op' \notin {"suite", "block"}
         \/ pc' = "state" /\ op' \in {"suite", "block"}
  PROVE  SessionInv'
BY SameReading DEF SessionInv

\* A session that is in the same place, and finds nothing changed.
LEMMA SamePlace ==
  ASSUME SessionInv, UNCHANGED <<record, journal, op, pc, suite, reference, head>>,
         NothingLanded => NothingLanded', \A c : OnBranch(c) => OnBranch(c)'
  PROVE  SessionInv'
<1>1. OnBranch(reference) => OnBranch(reference)'
  BY DEF OnBranch
<1> QED
  BY <1>1, SameReading DEF SessionInv

-----------------------------------------------------------------------------
(* The steps, one by one: those that only look or that return.             *)

\* A command takes the lock.
LEMMA BeginKeeps ==
  ASSUME PromotionInv, NEW o \in Ops, Begin(o)
  PROVE  PromotionInv'
<1> USE DEF PromotionInv, Begin, disk, git, checkout
<1>1. TypeOK'
  BY DEF TypeOK, Places, Ops
<1>2. SessionInv'
  BY BeginKeepsSession DEF Ops
<1> QED
  BY <1>1, <1>2, QuietKeeps DEF CandidateInv

\* The second session of verify recovers the state only.
LEMMA BeginSuiteKeeps ==
  ASSUME PromotionInv, BeginSuite
  PROVE  PromotionInv'
<1> USE DEF PromotionInv, BeginSuite, disk, git, checkout
<1>1. TypeOK'
  BY DEF TypeOK, Places
<1>2. SessionInv'
  BY BeginKeepsSession
<1>3. verifier'.commit = verifier.commit
  OBVIOUS
<1> QED
  BY <1>1, <1>2, <1>3, QuietKeeps DEF CandidateInv

\* A session that dies leaves what it has written, pending or not.
LEMMA CrashKeeps ==
  ASSUME PromotionInv, Crash
  PROVE  PromotionInv'
<1> USE DEF PromotionInv, Crash, Return, disk, git
<1>1. TypeOK'
  <2>1. dirty' = dirty \/ dirty' = TRUE
    OBVIOUS
  <2>2. dirty' \in BOOLEAN
    BY <2>1 DEF TypeOK
  <2>3. pc' \in Places /\ faults' \in Nat
    BY DEF TypeOK, Places
  <2> QED
    BY <2>2, <2>3 DEF TypeOK
<1>2. SessionInv'
  BY ReturnKeepsSession
<1> QED
  BY <1>1, <1>2, QuietKeeps DEF CandidateInv

\* The checkout of the user is cleaned.
LEMMA CleanKeeps ==
  ASSUME PromotionInv, Clean
  PROVE  PromotionInv'
<1> USE DEF PromotionInv, Clean, disk, git
<1>1. TypeOK'
  BY DEF TypeOK
<1>2. SessionInv'
  BY SamePlace, SameBranch
<1> QED
  BY <1>1, <1>2, QuietKeeps DEF CandidateInv

\* verify looks at the worktree before it has the lock.
LEMMA VerifyLooksKeeps ==
  ASSUME PromotionInv, VerifyLooks
  PROVE  PromotionInv'
<1> USE DEF PromotionInv, VerifyLooks, disk, git, checkout
<1>1. verifier'.commit \in {verifier.commit, 0}
      /\ verifier' \in [wants : {"nothing", "look", "suite", "block"}, commit : Commit]
  <2>1. 0 \in Commit
    BY PromotionBoundsAreNat DEF Commit
  <2>2. verifier \in [wants : {"nothing", "look", "suite", "block"}, commit : Commit]
    BY DEF TypeOK
  <2> QED
    BY <2>1, <2>2
<1>2. TypeOK'
  BY <1>1 DEF TypeOK
<1>3. SessionInv'
  BY SamePlace, SameBranch
<1> QED
  BY <1>1, <1>2, <1>3, QuietKeeps DEF CandidateInv

\* verify reads state and candidate under the lock.
LEMMA VerifyReadsKeeps ==
  ASSUME PromotionInv, VerifyReads
  PROVE  PromotionInv'
<1> USE DEF PromotionInv, VerifyReads, Return, disk, git, checkout
<1>1. verifier' \in {verifier, [wants |-> "look", commit |-> record.candidate]}
  OBVIOUS
<1>2. TypeOK'
  BY <1>1 DEF TypeOK, Places
<1>3. SessionInv'
  BY ReturnKeepsSession
<1> QED
  BY <1>1, <1>2, <1>3, QuietKeeps DEF CandidateInv

\* prepare_candidate returns what is there, or goes on to commit.
LEMMA PrepareKeeps ==
  ASSUME PromotionInv, Prepare
  PROVE  PromotionInv'
<1> USE DEF PromotionInv, Prepare, Acts, Return, Go, disk, git, checkout
<1>1. TypeOK'
  BY DEF TypeOK, Places
<1>2. SessionInv'
  <2>1. CASE pc' = "idle"
    BY <2>1, ReturnKeepsSession
  <2>2. CASE pc' = "commit" /\ record.state = "VERIFYING"
    BY <2>2, SameReading DEF SessionInv
  <2> QED
    BY <2>1, <2>2
<1> QED
  BY <1>1, <1>2, QuietKeeps DEF CandidateInv

\* The candidate is committed in the worktree,
LEMMA CommitCandidateKeeps ==
  ASSUME PromotionInv, CommitCandidate
  PROVE  PromotionInv'
<1> USE DEF PromotionInv, CommitCandidate, Return, Go, disk, checkout
<1>1. TypeOK'
  BY DEF TypeOK, Places
<1>2. SessionInv'
  <2>1. CASE pc' = "idle"
    BY <2>1, ReturnKeepsSession
  <2>2. CASE pc' = "publish" /\ head' # 0
    BY <2>2, SameReading DEF SessionInv
  <2> QED
    BY <2>1, <2>2
<1> QED
  BY <1>1, <1>2, QuietKeeps DEF CandidateInv

\* its reference is published,
LEMMA PublishReferenceKeeps ==
  ASSUME PromotionInv, PublishReference
  PROVE  PromotionInv'
<1> USE DEF PromotionInv, PublishReference, Return, Go, disk, checkout
<1>1. TypeOK'
  BY DEF TypeOK, Places
<1>2. SessionInv'
  <2>1. CASE pc' = "idle"
    BY <2>1, ReturnKeepsSession
  <2>2. CASE pc' = "record" /\ reference' = head
    BY <2>2, SameReading DEF SessionInv
  <2> QED
    BY <2>1, <2>2
<1> QED
  BY <1>1, <1>2, QuietKeeps DEF CandidateInv

\* and recover_promotion looks at the branch, before the cherry-pick and after it.
LEMMA CheckKeeps ==
  ASSUME PromotionInv, Check
  PROVE  PromotionInv'
<1> USE DEF PromotionInv, Check, Go, disk, git, checkout
<1>1. TypeOK'
  BY DEF TypeOK, Places
<1>2. SessionInv'
  <2>1. CASE pc' = "idle"
    BY <2>1, ReturnKeepsSession
  <2>2. CASE pc' = "pick" /\ pc = "check" /\ original = << >>
    <3>1. NothingLanded'
      BY <2>2 DEF NothingLanded
    <3> QED
      BY <2>2, <3>1, SameReading DEF SessionInv
  <2>3. CASE pc' = "outcome" /\ original = <<reference>>
    <3>1. OnBranch(reference)'
      BY <2>3 DEF OnBranch
    <3>2. reference # 0
      BY DEF SessionInv, Authorized
    <3> QED
      BY <2>3, <3>1, <3>2, SameReading DEF SessionInv
  <2>4. CASE pc' = "blocked"
    BY <2>4, SameReading DEF SessionInv
  <2> QED
    BY <2>1, <2>2, <2>3, <2>4
<1> QED
  BY <1>1, <1>2, QuietKeeps DEF CandidateInv

-----------------------------------------------------------------------------
(* Those that change the branch: the user, and the cherry-pick.            *)

\* A commit more on the branch leaves those that are on it.
LEMMA BranchGrows ==
  ASSUME TypeOK, NEW c \in Commit, original' = Append(original, c)
  PROVE  /\ original' \in Seq(Commit)
         /\ \A x : OnBranch(x) => OnBranch(x)'
         /\ c = User /\ NothingLanded => NothingLanded'
         /\ LandsOnce /\ (c = User \/ NothingLanded) => LandsOnce'
<1>1. original \in Seq(Commit)
  BY DEF TypeOK
<1>2. /\ original' \in Seq(Commit) /\ Len(original) \in Nat
      /\ DOMAIN original = 1 .. Len(original)
      /\ DOMAIN original' = 1 .. (Len(original) + 1)
      /\ \A k \in 1 .. Len(original) : original'[k] = original[k]
      /\ original'[Len(original) + 1] = c
  BY <1>1
<1>3. \A x : OnBranch(x) => OnBranch(x)'
  BY <1>2 DEF OnBranch
<1>4. c = User /\ NothingLanded => NothingLanded'
  BY <1>2 DEF NothingLanded
<1>5. ASSUME LandsOnce, c = User PROVE LandsOnce'
  BY <1>2, <1>5 DEF LandsOnce
<1>6. ASSUME NothingLanded PROVE LandsOnce'
  BY <1>2, <1>6 DEF LandsOnce, NothingLanded
<1> QED
  BY <1>2, <1>3, <1>4, <1>5, <1>6

\* The user commits on the branch.
LEMMA AdvanceKeeps ==
  ASSUME PromotionInv, Advance,
         UNCHANGED <<record, journal, projection, suite, head, reference, op, pc,
                     verifier, faults>>, moves' \in Nat
  PROVE  PromotionInv'
<1> USE DEF PromotionInv, Advance
<1>1. /\ original' \in Seq(Commit) /\ (NothingLanded => NothingLanded')
      /\ (LandsOnce => LandsOnce')
      /\ \A x : OnBranch(x) => OnBranch(x)'
  <2>1. User \in Commit
    BY PromotionBoundsAreNat DEF User, Commit
  <2> QED
    BY <2>1, BranchGrows
<1>2. TypeOK'
  BY <1>1 DEF TypeOK
<1>3. JournalInv' /\ ApprovalInv'
  BY <1>1, QuietKeepsJournal
<1>4. SessionInv'
  BY <1>1, SamePlace
<1>5. LandInv'
  <2>1. record.promoted # 0 => OnBranch(record.promoted)'
    <3>1. ASSUME NEW c, c = record.promoted, c # 0 PROVE OnBranch(c)'
      BY <1>1, <3>1 DEF LandInv
    <3> QED
      BY <3>1 DEF OnBranch
  <2>2. ~ NothingLanded' => ~ NothingLanded
    BY <1>1
  <2>3. record.state \in Ends => record.promoted # 0
    BY DEF LandInv
  <2>4. (~ NothingLanded => record.state \notin {"VERIFYING", "DRY_RUN_COMPLETED"})'
    BY <2>2 DEF LandInv
  <2>5. LandsOnce'
    BY <1>1 DEF LandInv
  <2> QED
    BY <2>1, <2>3, <2>4, <2>5 DEF LandInv
<1>6. CandidateInv'
  BY DEF CandidateInv
<1> QED
  BY <1>2, <1>3, <1>4, <1>5, <1>6

\* The user works in both checkouts, and approvals expire.
LEMMA MoveKeeps ==
  ASSUME PromotionInv, Move
  PROVE  PromotionInv'
<1> USE DEF PromotionInv, Move, disk, checkout
<1>1. moves' \in Nat
  BY DEF TypeOK
<1>2. CASE Advance
  BY <1>1, <1>2, AdvanceKeeps
<1>3. CASE Edit \/ Dirty \/ Expire
  <2>1. tree' \in Commit /\ tree' # 0
    <3>1. tree \in 0 .. MaxContent /\ tree # 0
      BY DEF TypeOK, Commit, CandidateInv
    <3> QED
      BY <1>3, <3>1, PromotionBoundsAreNat DEF Edit, Dirty, Expire, Commit
  <2>2. UNCHANGED original /\ dirty' \in BOOLEAN /\ expired' \in BOOLEAN
    BY <1>3 DEF Edit, Dirty, Expire, TypeOK
  <2>3. TypeOK'
    BY <1>1, <2>1, <2>2 DEF TypeOK
  <2>4. SessionInv'
    BY <2>2, SamePlace, SameBranch
  <2> QED
    BY <2>1, <2>2, <2>3, <2>4, QuietKeeps DEF CandidateInv
<1> QED
  BY <1>2, <1>3

\* The one cherry-pick, of what was authorized.
LEMMA CherryPickKeeps ==
  ASSUME PromotionInv, CherryPick
  PROVE  PromotionInv'
<1> USE DEF PromotionInv, CherryPick, disk, git
<1>1. CASE UNCHANGED original /\ Return
  <2>1. TypeOK'
    BY <1>1 DEF TypeOK, Places, Return
  <2>2. SessionInv'
    BY <1>1, ReturnKeepsSession DEF Return
  <2> QED
    BY <1>1, <2>1, <2>2, QuietKeeps DEF CandidateInv
<1>2. CASE original' = Append(original, reference) /\ Go("prove")
  <2>1. /\ NothingLanded /\ reference # 0 /\ reference \in Commit
        /\ record.state = "PROMOTING"
        /\ NonePending("state") /\ NonePending("approval")
    BY DEF SessionInv, Authorized, TypeOK
  <2>2. /\ original' \in Seq(Commit) /\ LandsOnce'
        /\ \A x : OnBranch(x) => OnBranch(x)'
    BY <1>2, <2>1, BranchGrows DEF LandInv
  <2>3. TypeOK'
    BY <1>2, <2>2 DEF TypeOK, Places, Go
  <2>4. JournalInv' /\ ApprovalInv'
    BY <2>1, <2>2, QuietKeepsJournal
  <2>5. SessionInv'
    BY <1>2, <2>1, SameReading DEF SessionInv, Go
  <2>6. LandInv'
    <3>1. record.promoted # 0 => OnBranch(record.promoted)'
      <4>1. ASSUME NEW c, c = record.promoted, c # 0 PROVE OnBranch(c)'
        BY <2>2, <4>1 DEF LandInv
      <4> QED
        BY <4>1 DEF OnBranch
    <3> QED
      BY <2>1, <2>2, <3>1 DEF LandInv, Ends
  <2>7. CandidateInv'
    BY DEF CandidateInv
  <2> QED
    BY <2>3, <2>4, <2>5, <2>6, <2>7
<1> QED
  BY <1>1, <1>2

-----------------------------------------------------------------------------
(* Those that recover, apply or publish what was written.                  *)

\* The snapshot takes an event over.
LEMMA ApplyKeepsAll ==
  ASSUME PromotionInv,
         NEW n \in DOMAIN journal, Pending(n), record' = Applied(journal[n]),
         journal[n].kind \in {"approval", "candidate", "promoted", "state"},
         \/ journal[n].kind \in {"approval", "state"}
         \/ NonePending("approval"),
         UNCHANGED <<journal, projection, suite, git, checkout, expired, op, verifier,
                     moves, faults>>,
         pc' \in Places,
         AllApplied' /\ NonePending("approval")' /\ NonePending("state")' => SessionInv'
  PROVE  PromotionInv'
<1> USE DEF PromotionInv, git, checkout
<1>1. record.state = "BLOCKED_PREREQUISITE" => AllApplied
  BY DEF SessionInv
<1>2. /\ record' \in [rev : Nat, state : States, candidate : Commit, promoted : Commit,
                      approval : Decisions \cup {"NOT_REQUIRED"}]
      /\ JournalInv' /\ ApprovalInv' /\ LandInv' /\ CandidateInv'
      /\ AllApplied' /\ NonePending("approval")' /\ NonePending("state")'
  BY <1>1, ApplyKeeps
<1>3. TypeOK'
  BY <1>2 DEF TypeOK
<1> QED
  BY <1>2, <1>3

\* The record takes over the last event; every other one written ahead is void then.
LEMMA CompareAndSetKeeps ==
  ASSUME PromotionInv, CompareAndSet
  PROVE  PromotionInv'
<1> USE DEF PromotionInv, CompareAndSet
<1> DEFINE n == Len(journal)
           e == journal[n]
<1>1. /\ journal # << >> /\ e.rev = record.rev + 1
      /\ e.kind \in {"approval", "candidate", "promoted", "state"}
      /\ \/ e.kind = "approval" \/ NonePending("approval")
         \/ e.kind = "state" /\ e.value = "BLOCKED_PREREQUISITE"
      /\ op \in {"suite", "block"} => e.kind = "state" /\ e.value = "BLOCKED_PREREQUISITE"
      /\ e.kind = "state" /\ e.value = "PROMOTING" => Authorized
      /\ e.kind = "promoted" => record.state = "PROMOTING"
      /\ e.kind = "approval" => record.state \in {"VERIFYING", "PROMOTING"}
  BY DEF SessionInv, WrittenAhead, IsState
<1>2. n \in DOMAIN journal /\ record.rev \in Nat /\ e \in Event
  BY <1>1 DEF TypeOK
<1>3. Pending(n)
  BY <1>1, <1>2 DEF Pending
<1>4. pc' = CASE e.kind = "approval" -> "project"
              [] e.kind = "promoted" -> "evidence"
              [] e.kind = "state" /\ e.value = "PROMOTING" -> "check"
              [] e.kind = "state" /\ e.value = "GENERATING_EVIDENCE" -> "complete"
              [] OTHER -> "idle"
  BY DEF Go, AfterCas
<1>5. EventIsBacked(n)
  BY <1>2 DEF JournalInv
<1>6. /\ record'.state = IF e.kind = "state" THEN e.value ELSE record.state
      /\ record'.candidate = IF e.kind = "candidate" THEN e.commit ELSE record.candidate
      /\ record'.promoted = IF e.kind = "promoted" THEN e.commit ELSE record.promoted
      /\ record'.approval = IF e.kind = "approval" THEN e.value ELSE record.approval
  BY DEF Applied
<1>7. ASSUME AllApplied', NonePending("approval")', NonePending("state")' PROVE SessionInv'
  <2>1. CASE e.kind = "approval"
    <3>1. pc' = "project" /\ record'.state \in {"VERIFYING", "PROMOTING"}
      BY <1>1, <1>4, <1>6, <2>1
    <3>2. Approvals' # {}
      BY <1>2, <2>1 DEF Approvals, Positions
    <3> QED
      BY <1>1, <1>7, <2>1, <3>1, <3>2 DEF SessionInv
  <2>2. CASE e.kind = "promoted"
    <3>1. pc' = "evidence" /\ record'.state = "PROMOTING" /\ record'.promoted # 0
      BY <1>1, <1>4, <1>5, <1>6, <2>2 DEF EventIsBacked, Outcomes
    <3> QED
      BY <1>1, <1>7, <2>2, <3>1 DEF SessionInv
  <2>3. CASE e.kind = "state" /\ e.value = "PROMOTING"
    <3>1. pc' = "check" /\ record'.state = "PROMOTING"
      BY <1>4, <1>6, <2>3
    <3>2. Authorized'
      <4>1. Authorized /\ Approvals' = Approvals /\ Latest' = Latest
        BY <1>1, <2>3, ApprovalsOfLog
      <4> QED
        BY <1>6, <2>3, <4>1 DEF Authorized, Passed, git
    <3> QED
      BY <1>1, <1>7, <2>3, <3>1, <3>2 DEF SessionInv
  <2>4. CASE e.kind = "state" /\ e.value = "GENERATING_EVIDENCE"
    <3>1. pc' = "complete" /\ record'.state = "GENERATING_EVIDENCE" /\ record'.promoted # 0
      BY <1>4, <1>5, <1>6, <2>4 DEF EventIsBacked, IsState, Ends
    <3> QED
      BY <1>1, <1>7, <2>4, <3>1 DEF SessionInv
  <2>5. CASE pc' = "idle"
    BY <1>7, <2>5 DEF SessionInv
  <2> QED
    BY <1>4, <2>1, <2>2, <2>3, <2>4, <2>5
<1>8. pc' \in Places
  BY <1>4 DEF Places
<1>9. e.kind \in {"approval", "state"} \/ NonePending("approval")
  BY <1>1
<1> QED
  BY <1>1, <1>2, <1>3, <1>7, <1>8, <1>9, ApplyKeepsAll

\* A pending decision of the approver is shown, unless a block overtook it.
LEMMA RecoverApprovalKeeps ==
  ASSUME PromotionInv, RecoverApproval
  PROVE  PromotionInv'
<1> USE DEF PromotionInv, RecoverApproval, git, checkout
<1>1. pc = "approval" /\ op \notin {"suite", "block"}
  BY DEF SessionInv
<1>2. CASE Return /\ UNCHANGED <<record, projection>>
  <2>1. TypeOK'
    BY <1>2 DEF TypeOK, Places, Return
  <2>2. SessionInv'
    BY <1>2, ReturnKeepsSession DEF Return
  <2> QED
    BY <1>2, <2>1, <2>2, QuietKeeps DEF CandidateInv
<1>3. CASE /\ Approvals # {} /\ Pending(Max(Approvals))
           /\ record' = Applied(Latest) /\ UNCHANGED <<projection, pc>>
  <2> DEFINE m == Max(Approvals)
  <2>1. m \in DOMAIN journal /\ m \in Approvals
    BY <1>3, LatestIsLast DEF Approvals
  <2>2. journal[m].kind = "approval" /\ record' = Applied(journal[m]) /\ Pending(m)
    BY <1>3, <2>1, ApprovalsOfLog DEF ApprovalsIn
  <2>3. pc' \in Places
    BY <1>1, <1>3 DEF Places
  <2>4. AllApplied' => SessionInv'
    BY <1>1, <1>3 DEF SessionInv
  <2> HIDE DEF m
  <2> QED
    BY <1>3, <2>1, <2>2, <2>3, <2>4, ApplyKeepsAll
<1>4. CASE /\ Approvals # {} => ~ Pending(Max(Approvals))
           /\ projection' = IF Approvals = {} THEN projection ELSE Max(Approvals)
           /\ Go(AfterApproval) /\ UNCHANGED record
  <2>1. pc' \in {"fields", "state"} /\ UNCHANGED <<record, journal, original>>
    BY <1>4 DEF Go, AfterApproval
  <2>2. NonePending("approval")
    BY <1>4, LastApplied DEF Approvals, JournalInv
  <2>3. SessionInv'
    BY <1>1, <2>1, <2>2, SameReading DEF SessionInv
  <2>4. projection' \in Approvals \cup {0} /\ projection' \in Nat
        /\ (projection' # 0 => ~ Pending(projection'))
    <3>1. CASE Approvals = {}
      BY <1>4, <3>1 DEF ApprovalInv, ProjectionNeverAhead, TypeOK
    <3>2. CASE Approvals # {}
      <4>1. Max(Approvals) \in Approvals /\ Max(Approvals) \in DOMAIN journal
        BY <3>2, LatestIsLast DEF Approvals
      <4>2. Max(Approvals) \in Nat
        BY <4>1 DEF TypeOK
      <4> QED
        BY <1>4, <3>2, <4>1, <4>2
    <3> QED
      BY <3>1, <3>2
  <2>5. TypeOK'
    BY <2>1, <2>4 DEF TypeOK, Places
  <2>6. JournalInv' /\ LandInv' /\ CandidateInv'
    BY <2>1 DEF JournalInv, EventIsBacked, IsState, OnBranch, NothingLanded, Pending,
                Increasing, BlockOvertakes, LandInv, LandsOnce, CandidateInv
  <2>7. ApprovalInv'
    BY <2>1, <2>4, SameReading DEF ApprovalInv, ProjectionNeverAhead, Pending
  <2> QED
    BY <2>3, <2>5, <2>6, <2>7
<1> QED
  BY <1>2, <1>3, <1>4

\* A pending candidate or outcome is shown,
LEMMA RecoverFieldsKeeps ==
  ASSUME PromotionInv, RecoverFields
  PROVE  PromotionInv'
<1> USE DEF PromotionInv, RecoverFields, git, checkout
<1> DEFINE m == Max(Positions(Outcomes))
<1>1. pc = "fields" /\ op \notin {"suite", "block"} /\ NonePending("approval")
  BY DEF SessionInv
<1>2. CASE Return /\ UNCHANGED record
  <2>1. TypeOK'
    BY <1>2 DEF TypeOK, Places, Return
  <2>2. SessionInv'
    BY <1>2, ReturnKeepsSession DEF Return
  <2> QED
    BY <1>2, <2>1, <2>2, QuietKeeps DEF CandidateInv
<1>3. CASE /\ Positions(Outcomes) # {} /\ Pending(m)
           /\ record' = Applied(journal[m]) /\ Go("state")
  <2>1. m \in DOMAIN journal /\ journal[m].kind \in Outcomes
    BY <1>3, LatestIsLast DEF Positions
  <2>2. pc' = "state" /\ pc' \in Places
    BY <1>3 DEF Go, Places
  <2>3. AllApplied' /\ NonePending("approval")' => SessionInv'
    BY <1>1, <2>2 DEF SessionInv
  <2> HIDE DEF m
  <2> QED
    BY <1>1, <1>3, <2>1, <2>2, <2>3, ApplyKeepsAll DEF Outcomes
<1>4. CASE UNCHANGED record /\ Go("state")
  <2>1. pc' = "state" /\ pc' \in Places
    BY <1>4 DEF Go, Places
  <2>2. SessionInv'
    BY <1>1, <1>4, <2>1, SameReading DEF SessionInv
  <2>3. TypeOK'
    BY <1>4, <2>1 DEF TypeOK
  <2> QED
    BY <1>4, <2>2, <2>3, QuietKeeps DEF CandidateInv
<1> QED
  BY <1>2, <1>3, <1>4

\* and then a pending transition.
LEMMA RecoverStateKeeps ==
  ASSUME PromotionInv, RecoverState
  PROVE  PromotionInv'
<1> USE DEF PromotionInv, RecoverState, git, checkout
<1> DEFINE s == Positions({"state"})
           m == Max(s)
<1>1. pc = "state" /\ pc' = "act" /\ pc' \in Places
  BY DEF Go, Places
<1>2. CASE s # {} /\ Pending(m) /\ record' = Applied(journal[m])
  <2>1. m \in DOMAIN journal /\ journal[m].kind = "state"
    <3>1. m \in s /\ m \in DOMAIN journal
      BY <1>2, LatestIsLast
    <3> QED
      BY <3>1 DEF Positions
  <2>2. AllApplied' /\ NonePending("approval")' /\ NonePending("state")' => SessionInv'
    BY <1>1 DEF SessionInv
  <2> HIDE DEF m
  <2> QED
    BY <1>1, <1>2, <2>1, <2>2, ApplyKeepsAll
<1>3. CASE (s # {} => ~ Pending(m)) /\ UNCHANGED record
  <2>1. NonePending("state")
    BY <1>3, LastApplied DEF JournalInv
  <2>2. SessionInv'
    BY <1>1, <1>3, <2>1, SameReading DEF SessionInv
  <2>3. TypeOK'
    BY <1>1, <1>3 DEF TypeOK
  <2> QED
    BY <1>3, <2>2, <2>3, QuietKeeps DEF CandidateInv
<1> QED
  BY <1>2, <1>3

\* The projection follows the record.
LEMMA PublishProjectionKeeps ==
  ASSUME PromotionInv, PublishProjection
  PROVE  PromotionInv'
<1> USE DEF PromotionInv, PublishProjection, git, checkout
<1>1. Approvals # {} /\ NonePending("approval")
  BY DEF SessionInv
<1>2. Max(Approvals) \in Approvals /\ Max(Approvals) \in DOMAIN journal
  BY <1>1, LatestIsLast DEF Approvals
<1>3. Max(Approvals) \in Nat /\ ~ Pending(Max(Approvals))
  <2>1. journal[Max(Approvals)].kind = "approval"
    BY <1>2, ApprovalsOfLog DEF ApprovalsIn
  <2> QED
    BY <1>1, <1>2, <2>1 DEF TypeOK, NonePending
<1>4. TypeOK'
  BY <1>3 DEF TypeOK, Places, Return
<1>5. SessionInv'
  BY ReturnKeepsSession DEF Return
<1>6. JournalInv' /\ LandInv' /\ CandidateInv'
  BY DEF JournalInv, EventIsBacked, IsState, OnBranch, NothingLanded, Pending,
         Increasing, BlockOvertakes, LandInv, LandsOnce, CandidateInv
<1>7. ApprovalInv'
  BY <1>2, <1>3, SameReading DEF ApprovalInv, ProjectionNeverAhead, Pending
<1> QED
  BY <1>4, <1>5, <1>6, <1>7

-----------------------------------------------------------------------------
(* Those that write an event ahead.                                        *)

\* The write-ahead of a session that may.
LEMMA WriteAheadKeeps ==
  ASSUME PromotionInv, NEW e \in Event, WritesEvent(e), pc' = "cas",
         UNCHANGED <<projection, suite, git, checkout, op, verifier, moves, faults>>,
         expired' \in BOOLEAN,
         ComesNext(e), HasGrounds(e),
         record.state \in {"VERIFYING", "PROMOTING", "GENERATING_EVIDENCE"},
         op \in {"suite", "block"} => e.kind = "state" /\ e.value = "BLOCKED_PREREQUISITE",
         e.kind = "state" /\ e.value = "PROMOTING" => Authorized,
         e.kind = "promoted" => record.state = "PROMOTING",
         e.kind = "approval" => record.state \in {"VERIFYING", "PROMOTING"}
  PROVE  PromotionInv'
<1> USE DEF PromotionInv, git, checkout
<1>1. record' = record /\ journal' \in Seq(Event)
  BY JournalGrows DEF WritesEvent
<1>2. TypeOK'
  BY <1>1 DEF TypeOK, Places
<1>3. JournalInv'
  BY WriteKeepsJournal
<1>4. ApprovalInv'
  BY WriteKeepsApproval DEF ComesNext
<1>5. LandInv' /\ CandidateInv'
  BY <1>1 DEF LandInv, LandsOnce, NothingLanded, OnBranch, CandidateInv
<1>6. WrittenAhead'
  BY CompareIsNext
<1>7. SessionInv'
  BY <1>1, <1>6 DEF SessionInv
<1> QED
  BY <1>2, <1>3, <1>4, <1>5, <1>7

\* A note of what is about to be done.
LEMMA NoteKeeps ==
  ASSUME PromotionInv, NEW e \in Event, WritesEvent(e), pc' \in Places,
         UNCHANGED <<projection, suite, git, checkout, expired, op, verifier, moves, faults>>,
         e.kind \in {"started", "dry"}, e.rev = 0,
         SessionInv'
  PROVE  PromotionInv'
<1> USE DEF PromotionInv, git, checkout
<1>1. record' = record /\ journal' \in Seq(Event)
  BY JournalGrows DEF WritesEvent
<1>2. TypeOK'
  BY <1>1 DEF TypeOK
<1>3. HasGrounds(e)
  BY DEF HasGrounds, Outcomes
<1>4. JournalInv'
  BY <1>3, WriteKeepsJournal
<1>5. ApprovalInv'
  BY <1>3, WriteKeepsApproval
<1>6. LandInv' /\ CandidateInv'
  BY <1>1 DEF LandInv, LandsOnce, NothingLanded, OnBranch, CandidateInv
<1> QED
  BY <1>2, <1>4, <1>5, <1>6

\* A transition.
LEMMA TransitionKeeps ==
  ASSUME PromotionInv, NEW value \in States, WriteAhead("state", 0, value),
         UNCHANGED <<record, projection, suite, git, checkout, expired, op, verifier,
                     moves, faults>>,
         NonePending("state"),
         NonePending("approval") \/ value = "BLOCKED_PREREQUISITE",
         record.state \in {"VERIFYING", "PROMOTING", "GENERATING_EVIDENCE"},
         value # "VERIFYING",
         value \in Ends => record.promoted # 0,
         value = "DRY_RUN_COMPLETED" => NothingLanded,
         value = "PROMOTING" => Authorized,
         op \in {"suite", "block"} => value = "BLOCKED_PREREQUISITE"
  PROVE  PromotionInv'
<1> DEFINE e == [kind |-> "state", rev |-> record.rev + 1, commit |-> 0, value |-> value]
<1>1. e.kind = "state" /\ e.rev = record.rev + 1 /\ e.value = value
  OBVIOUS
<1>2. e \in Event
  <2>1. record.rev + 1 \in Nat /\ 0 \in Commit
    BY PromotionBoundsAreNat DEF PromotionInv, TypeOK, Commit
  <2> QED
    BY <2>1, MakesEvent
<1>3. WritesEvent(e) /\ pc' = "cas"
  BY DEF WriteAhead, Note, Go, WritesEvent
<1>4. expired' \in BOOLEAN
  BY DEF PromotionInv, TypeOK
<1> HIDE DEF e
<1>5. ComesNext(e)
  BY <1>1 DEF ComesNext
<1>6. HasGrounds(e)
  BY <1>1 DEF HasGrounds, Outcomes
<1> QED
  BY <1>1, <1>2, <1>3, <1>4, <1>5, <1>6, WriteAheadKeeps

\* The latest approval names a commit and carries a decision.
LEMMA LatestCommit ==
  ASSUME TypeOK, Approvals # {}
  PROVE  Latest.commit \in Commit /\ Latest.value \in Decisions
<1>1. Max(Approvals) \in Approvals /\ journal[Max(Approvals)] \in Event
  BY LatestIsLast DEF Approvals
<1>2. Latest \in Event /\ Latest.kind = "approval"
  BY <1>1, ApprovalsOfLog DEF ApprovalsIn
<1> QED
  BY <1>2, EventFacts

\* A request or a decision.
LEMMA DecisionKeeps ==
  ASSUME PromotionInv, NEW commit \in Commit, NEW value \in Decisions,
         WriteAhead("approval", commit, value),
         UNCHANGED <<record, projection, suite, git, checkout, op, verifier, moves, faults>>,
         expired' \in BOOLEAN,
         NonePending("state"), NonePending("approval"),
         record.state \in {"VERIFYING", "PROMOTING"}, op \notin {"suite", "block"},
         value = "PENDING" => ~ Live,
         value # "PENDING" => Live /\ commit = Latest.commit
  PROVE  PromotionInv'
<1> DEFINE e == [kind |-> "approval", rev |-> record.rev + 1, commit |-> commit,
                 value |-> value]
<1>1. e.kind = "approval" /\ e.rev = record.rev + 1 /\ e.value = value /\ e.commit = commit
  OBVIOUS
<1>2. e \in Event
  <2>1. record.rev + 1 \in Nat
    BY DEF PromotionInv, TypeOK
  <2> QED
    BY <2>1, MakesEvent
<1>3. WritesEvent(e) /\ pc' = "cas"
  BY DEF WriteAhead, Note, Go, WritesEvent
<1>4. Approvals # {} => Latest.value \in Decisions
  BY LatestCommit DEF PromotionInv
<1> HIDE DEF e
<1>5. ComesNext(e)
  BY <1>1 DEF ComesNext
<1>6. Answers(e, Approvals, Latest)
  BY <1>1, <1>4 DEF Answers, Live, Decisions
<1>7. HasGrounds(e)
  BY <1>1, <1>6 DEF HasGrounds, Outcomes
<1>8. record.state \in {"VERIFYING", "PROMOTING", "GENERATING_EVIDENCE"}
  OBVIOUS
<1> QED
  BY <1>1, <1>2, <1>3, <1>5, <1>7, <1>8, WriteAheadKeeps

\* The candidate, or the outcome of the promotion.
LEMMA OutcomeKeeps ==
  ASSUME PromotionInv, NEW kind \in Outcomes, NEW commit \in Commit \ {0},
         WriteAhead(kind, commit, ""),
         UNCHANGED <<record, projection, suite, git, checkout, expired, op, verifier,
                     moves, faults>>,
         NonePending("state"), NonePending("approval"),
         record.state \in {"VERIFYING", "PROMOTING"}, op \notin {"suite", "block"},
         kind = "promoted" => record.state = "PROMOTING" /\ OnBranch(commit)
  PROVE  PromotionInv'
<1> DEFINE e == [kind |-> kind, rev |-> record.rev + 1, commit |-> commit, value |-> ""]
<1>1. e.kind = kind /\ e.rev = record.rev + 1 /\ e.commit = commit
  OBVIOUS
<1>2. e \in Event
  <2>1. record.rev + 1 \in Nat
    <3>1. record.rev \in Nat
      BY ONLY PromotionInv DEF PromotionInv, TypeOK
    <3> QED
      BY ONLY <3>1
  <2>2. commit \in Commit /\ kind \in {"candidate", "promoted", "started", "dry"}
    BY DEF Outcomes
  <2> QED
    BY <2>1, <2>2, MakesEvent
<1>3. WritesEvent(e) /\ pc' = "cas"
  BY DEF WriteAhead, Note, Go, WritesEvent
<1>4. expired' \in BOOLEAN
  BY DEF PromotionInv, TypeOK
<1> HIDE DEF e
<1>5. e.kind \in {"candidate", "promoted"}
  BY <1>1 DEF Outcomes
<1>6. ComesNext(e)
  BY <1>1, <1>5 DEF ComesNext
<1>7. HasGrounds(e)
  BY <1>1, <1>5 DEF HasGrounds
<1>8. record.state \in {"VERIFYING", "PROMOTING", "GENERATING_EVIDENCE"}
  OBVIOUS
<1> QED
  BY <1>1, <1>2, <1>3, <1>4, <1>5, <1>6, <1>7, <1>8, WriteAheadKeeps

\* A session that only returns.
LEMMA ReturnKeeps ==
  ASSUME PromotionInv, Return,
         UNCHANGED <<record, journal, projection, suite, git, checkout, op, verifier,
                     moves, faults>>,
         expired' \in BOOLEAN
  PROVE  PromotionInv'
<1>1. TypeOK'
  BY DEF PromotionInv, TypeOK, Places, Return, git, checkout
<1>2. SessionInv'
  BY ReturnKeepsSession DEF PromotionInv, Return
<1> QED
  BY <1>1, <1>2, QuietKeeps DEF PromotionInv, CandidateInv, git, checkout

\* The candidate is written ahead of the record.
LEMMA RecordCandidateKeeps ==
  ASSUME PromotionInv, RecordCandidate
  PROVE  PromotionInv'
<1> USE DEF RecordCandidate
<1>1. CASE WriteAhead("candidate", reference, "")
  <2>1. /\ reference \in Commit \ {0} /\ "candidate" \in Outcomes
        /\ NonePending("state") /\ NonePending("approval")
        /\ record.state = "VERIFYING" /\ op \notin {"suite", "block"}
    BY DEF PromotionInv, SessionInv, TypeOK, Outcomes
  <2> QED
    BY <1>1, <2>1, OutcomeKeeps
<1>2. CASE Return /\ UNCHANGED journal
  BY <1>2, ReturnKeeps DEF PromotionInv, TypeOK
<1> QED
  BY <1>1, <1>2

\* Verify blocks the execution: the one transition that may overtake a decision.
LEMMA BlockKeeps ==
  ASSUME PromotionInv, Block, record.state = "VERIFYING", NonePending("state"),
         UNCHANGED <<record, projection, suite, git, checkout, expired, op, verifier,
                     moves, faults>>
  PROVE  PromotionInv'
<1>1. WriteAhead("state", 0, "BLOCKED_PREREQUISITE") /\ "BLOCKED_PREREQUISITE" \in States
  BY DEF Block, States
<1> QED
  BY <1>1, TransitionKeeps DEF Ends

\* verify blocks the execution, also while a decision is pending.
LEMMA BlockExecutionKeeps ==
  ASSUME PromotionInv, BlockExecution
  PROVE  PromotionInv'
<1> USE DEF BlockExecution, Acts
<1>1. CASE Block /\ record.state = "VERIFYING"
  <2>1. NonePending("state")
    BY DEF PromotionInv, SessionInv
  <2> QED
    BY <1>1, <2>1, BlockKeeps
<1>2. CASE Return /\ UNCHANGED journal
  BY <1>2, ReturnKeeps DEF PromotionInv, TypeOK
<1> QED
  BY <1>1, <1>2

\* A suite starts only when there is none.
LEMMA StartSuiteKeeps ==
  ASSUME PromotionInv, StartSuite
  PROVE  PromotionInv'
<1> USE DEF StartSuite, Acts
<1>1. NonePending("state")
  BY DEF PromotionInv, SessionInv
<1>2. CASE Return /\ UNCHANGED <<journal, suite>>
  BY <1>2, ReturnKeeps DEF PromotionInv, TypeOK
<1>3. CASE Block /\ UNCHANGED suite /\ record.state = "VERIFYING"
  BY <1>1, <1>3, BlockKeeps
<1>4. CASE /\ suite' = [commit |-> verifier.commit, verdict |-> "torn"]
           /\ Go("gates") /\ UNCHANGED journal /\ record.state = "VERIFYING"
  <2>1. TypeOK'
    BY <1>4 DEF PromotionInv, TypeOK, Places, Go, git, checkout
  <2>2. SessionInv'
    BY <1>1, <1>4, SameReading DEF PromotionInv, SessionInv, Go
  <2> QED
    BY <1>4, <2>1, <2>2, QuietKeeps DEF PromotionInv, CandidateInv, git, checkout
<1> QED
  BY <1>2, <1>3, <1>4

\* Its verdict is that of the commit it started on.
LEMMA FinishSuiteKeeps ==
  ASSUME PromotionInv, FinishSuite
  PROVE  PromotionInv'
<1> USE DEF FinishSuite
<1>1. NonePending("state") /\ record.state = "VERIFYING"
  BY DEF PromotionInv, SessionInv
<1>2. CASE Block /\ UNCHANGED suite
  BY <1>1, <1>2, BlockKeeps
<1>3. CASE /\ \E v \in {"passed", "failed"} : suite' = [suite EXCEPT !.verdict = v]
           /\ Return /\ UNCHANGED journal
  <2>1. /\ suite' \in [commit : Commit, verdict : {"none", "torn", "passed", "failed"}]
        /\ suite'.commit = suite.commit
    BY <1>3 DEF PromotionInv, TypeOK
  <2>2. TypeOK'
    BY <1>3, <2>1 DEF PromotionInv, TypeOK, Places, Return, git, checkout
  <2>3. SessionInv'
    BY <1>3, ReturnKeepsSession DEF PromotionInv, Return
  <2> QED
    BY <1>3, <2>1, <2>2, <2>3, QuietKeeps DEF PromotionInv, CandidateInv, git, checkout
<1> QED
  BY <1>2, <1>3

\* A request names a candidate that was proven.
LEMMA RequestApprovalKeeps ==
  ASSUME PromotionInv, NEW same \in BOOLEAN, RequestApproval(same)
  PROVE  PromotionInv'
<1> USE DEF RequestApproval, Acts
<1>1. /\ NonePending("state") /\ NonePending("approval") /\ op \notin {"suite", "block"}
      /\ reference \in Commit /\ expired \in BOOLEAN
  BY DEF PromotionInv, SessionInv, TypeOK
<1>2. CASE Return /\ UNCHANGED <<journal, expired>>
  BY <1>1, <1>2, ReturnKeeps
<1>3. CASE Live /\ Decide("INVALIDATED") /\ UNCHANGED expired /\ record.state = "VERIFYING"
  <2>1. Latest.commit \in Commit /\ "INVALIDATED" \in Decisions
    BY <1>3, LatestCommit DEF PromotionInv, Live, Decisions
  <2> QED
    BY <1>1, <1>3, <2>1, DecisionKeeps DEF Decide
<1>4. CASE /\ ~ Live /\ WriteAhead("approval", reference, "PENDING")
           /\ expired' = FALSE /\ record.state = "VERIFYING"
  <2>1. "PENDING" \in Decisions /\ expired' \in BOOLEAN
    BY <1>4 DEF Decisions
  <2> QED
    BY <1>1, <1>4, <2>1, DecisionKeeps
<1> QED
  BY <1>2, <1>3, <1>4

\* The approver decides on the live request.
LEMMA ApproveKeeps ==
  ASSUME PromotionInv, Approve
  PROVE  PromotionInv'
<1> USE DEF Approve, Acts
<1>1. /\ NonePending("state") /\ NonePending("approval") /\ op \notin {"suite", "block"}
      /\ expired' \in BOOLEAN
  BY DEF PromotionInv, SessionInv, TypeOK
<1>2. CASE Return /\ UNCHANGED journal
  BY <1>1, <1>2, ReturnKeeps
<1>3. ASSUME NEW value \in {"EXPIRED", "APPROVED", "INVALIDATED"},
             Live, Decide(value), record.state = "VERIFYING"
      PROVE  PromotionInv'
  <2>1. Latest.commit \in Commit /\ value \in Decisions
    BY <1>3, LatestCommit DEF PromotionInv, Live, Decisions
  <2> QED
    BY <1>1, <1>3, <2>1, DecisionKeeps DEF Decide
<1> QED
  BY <1>2, <1>3

\* promote authorizes what is approved and has not expired.
LEMMA AuthorizeKeeps ==
  ASSUME PromotionInv, Authorize
  PROVE  PromotionInv'
<1> USE DEF Authorize, Acts
<1>1. /\ NonePending("state") /\ NonePending("approval") /\ op \notin {"suite", "block"}
      /\ expired' \in BOOLEAN /\ reference \in Commit
  BY DEF PromotionInv, SessionInv, TypeOK
<1>2. CASE Return /\ UNCHANGED journal
  BY <1>1, <1>2, ReturnKeeps
<1>3. ASSUME NEW value \in {"EXPIRED", "INVALIDATED"}, MayPromote, Decide(value)
      PROVE  PromotionInv'
  <2>1. record.state \in {"VERIFYING", "PROMOTING"} /\ Live
    BY <1>3 DEF MayPromote
  <2>2. Latest.commit \in Commit /\ value \in Decisions
    BY <1>3, <2>1, LatestCommit DEF PromotionInv, Live, Decisions
  <2> QED
    BY <1>1, <1>3, <2>1, <2>2, DecisionKeeps DEF Decide
<1>4. ASSUME MayPromote, ApprovedContent PROVE Authorized
  <2>1. /\ reference # 0 /\ record.candidate \in {0, reference} /\ Passed(reference)
        /\ record.approval = "APPROVED" /\ Approvals # {} /\ Latest.commit = reference
    BY <1>4 DEF MayPromote, Loads, Live, ApprovedContent
  <2>2. record.candidate # 0
    BY <2>1 DEF Passed, PromotionInv, CandidateInv
  <2> QED
    BY <2>1, <2>2 DEF Authorized
<1>5. CASE MayPromote /\ op = "dryrun" /\ Go("dry") /\ UNCHANGED journal
  <2>1. record.state = "VERIFYING"
    BY <1>5 DEF MayPromote
  <2>2. TypeOK'
    BY <1>5 DEF PromotionInv, TypeOK, Places, Go, git, checkout
  <2>3. SessionInv'
    BY <1>1, <1>5, <2>1, SameReading DEF PromotionInv, SessionInv, Go
  <2> QED
    BY <1>5, <2>2, <2>3, QuietKeeps DEF PromotionInv, CandidateInv, git, checkout
<1>6. CASE /\ MayPromote /\ ApprovedContent /\ record.state = "VERIFYING"
           /\ Note("started", 0, reference, "") /\ Go("start")
  <2> DEFINE e == [kind |-> "started", rev |-> 0, commit |-> reference, value |-> ""]
  <2>1. e \in Event
    BY <1>1, MakesEvent
  <2>2. WritesEvent(e) /\ e.kind = "started" /\ e.rev = 0
    BY <1>6 DEF Note, WritesEvent
  <2> HIDE DEF e
  <2>3. record.rev \in Nat /\ TypeOK
    BY DEF PromotionInv, TypeOK
  <2>4. NonePending("state")' /\ NonePending("approval")'
    BY <1>1, <2>1, <2>2, <2>3, PendingGrows
  <2>5. Authorized'
    BY <1>4, <1>6, <2>1, <2>2, <2>3, AuthorityStays DEF git
  <2>6. SessionInv'
    BY <1>1, <1>6, <2>4, <2>5 DEF PromotionInv, SessionInv, Go
  <2>7. pc' \in Places
    BY <1>6 DEF Go, Places
  <2> QED
    BY <2>1, <2>2, <2>6, <2>7, NoteKeeps
<1>7. CASE /\ MayPromote /\ ApprovedContent /\ op = "promote" /\ record.state # "VERIFYING"
           /\ Go("check") /\ UNCHANGED journal
  <2>1. record.state = "PROMOTING" /\ Authorized
    BY <1>4, <1>7 DEF MayPromote
  <2>2. TypeOK'
    BY <1>7 DEF PromotionInv, TypeOK, Places, Go, git, checkout
  <2>3. SessionInv'
    BY <1>1, <1>7, <2>1, SameReading DEF PromotionInv, SessionInv, Go, git
  <2> QED
    BY <1>7, <2>2, <2>3, QuietKeeps DEF PromotionInv, CandidateInv, git, checkout
<1> QED
  BY <1>2, <1>3, <1>5, <1>6, <1>7

\* A dry run is noted once and leaves the branch alone.
LEMMA DryRunKeeps ==
  ASSUME PromotionInv, DryRun
  PROVE  PromotionInv'
<1> USE DEF DryRun
<1>1. /\ NonePending("state") /\ NonePending("approval") /\ op \notin {"suite", "block"}
      /\ expired' \in BOOLEAN /\ reference \in Commit
      /\ record.state = "VERIFYING" /\ NothingLanded
  BY DEF PromotionInv, SessionInv, TypeOK, LandInv
<1>2. CASE WriteAhead("state", 0, "DRY_RUN_COMPLETED")
  <2>1. "DRY_RUN_COMPLETED" \in States
    BY DEF States
  <2> QED
    BY <1>1, <1>2, <2>1, TransitionKeeps DEF Ends
<1>3. CASE Note("dry", 0, reference, "") /\ UNCHANGED pc
  <2> DEFINE e == [kind |-> "dry", rev |-> 0, commit |-> reference, value |-> ""]
  <2>1. e \in Event
    BY <1>1, MakesEvent
  <2>2. WritesEvent(e) /\ e.kind = "dry" /\ e.rev = 0
    BY <1>3 DEF Note, WritesEvent
  <2> HIDE DEF e
  <2>3. record.rev \in Nat /\ TypeOK
    BY DEF PromotionInv, TypeOK
  <2>4. NonePending("state")' /\ NonePending("approval")'
    BY <1>1, <2>1, <2>2, <2>3, PendingGrows
  <2>5. SessionInv'
    BY <1>1, <1>3, <2>4 DEF PromotionInv, SessionInv
  <2>6. pc' \in Places
    BY <1>3 DEF Places
  <2> QED
    BY <2>1, <2>2, <2>5, <2>6, NoteKeeps
<1>4. CASE Return /\ UNCHANGED journal
  BY <1>1, <1>4, ReturnKeeps
<1> QED
  BY <1>2, <1>3, <1>4

\* PROMOTING is entered before the branch is touched.
LEMMA StartPromotionKeeps ==
  ASSUME PromotionInv, StartPromotion
  PROVE  PromotionInv'
<1>1. /\ NonePending("state") /\ NonePending("approval") /\ op \notin {"suite", "block"}
      /\ record.state = "VERIFYING" /\ Authorized /\ "PROMOTING" \in States
  BY DEF PromotionInv, SessionInv, States, StartPromotion
<1> QED
  BY <1>1, TransitionKeeps DEF StartPromotion, Ends

\* A branch that moved under the candidate ends the promotion.
LEMMA BaseChangedKeeps ==
  ASSUME PromotionInv, BaseChanged
  PROVE  PromotionInv'
<1>1. /\ NonePending("state") /\ NonePending("approval") /\ op \notin {"suite", "block"}
      /\ record.state = "PROMOTING" /\ "BLOCKED_BASE_CHANGED" \in States
  BY DEF PromotionInv, SessionInv, States, BaseChanged
<1> QED
  BY <1>1, TransitionKeeps DEF BaseChanged, Ends

\* The evidence, then the completion, after the outcome was recorded.
LEMMA CompleteKeeps ==
  ASSUME PromotionInv, Complete
  PROVE  PromotionInv'
<1>1. /\ NonePending("state") /\ NonePending("approval") /\ op \notin {"suite", "block"}
      /\ record.state \in {"PROMOTING", "GENERATING_EVIDENCE"} /\ record.promoted # 0
      /\ "GENERATING_EVIDENCE" \in States /\ "COMPLETED" \in States
  BY DEF PromotionInv, SessionInv, States, Complete
<1>2. CASE WriteAhead("state", 0, "GENERATING_EVIDENCE")
  BY <1>1, <1>2, TransitionKeeps DEF Complete
<1>3. CASE WriteAhead("state", 0, "COMPLETED")
  BY <1>1, <1>3, TransitionKeeps DEF Complete
<1> QED
  BY <1>2, <1>3 DEF Complete

\* The record names what did land.
LEMMA RecordOutcomeKeeps ==
  ASSUME PromotionInv, RecordOutcome
  PROVE  PromotionInv'
<1> USE DEF RecordOutcome
<1>1. /\ NonePending("state") /\ NonePending("approval") /\ op \notin {"suite", "block"}
      /\ record.state = "PROMOTING" /\ reference \in Commit \ {0} /\ OnBranch(reference)
      /\ "promoted" \in Outcomes
  BY DEF PromotionInv, SessionInv, TypeOK, Outcomes
<1>2. CASE WriteAhead("promoted", reference, "")
  BY <1>1, <1>2, OutcomeKeeps
<1>3. CASE record.promoted # 0 /\ Go("evidence") /\ UNCHANGED journal
  <2>1. TypeOK'
    BY <1>3 DEF PromotionInv, TypeOK, Places, Go, git, checkout
  <2>2. SessionInv'
    BY <1>1, <1>3, SameReading DEF PromotionInv, SessionInv, Go
  <2> QED
    BY <1>3, <2>1, <2>2, QuietKeeps DEF PromotionInv, CandidateInv, git, checkout
<1> QED
  BY <1>2, <1>3

-----------------------------------------------------------------------------
(* The theorems.                                                           *)

\* Nothing was prepared, approved or landed at the start.
LEMMA PromotionBegins ==
  Init => PromotionInv
<1> SUFFICES ASSUME Init PROVE PromotionInv
  OBVIOUS
<1> USE DEF Init
<1>1. /\ journal = << >> /\ original = << >> /\ DOMAIN journal = {} /\ DOMAIN original = {}
  OBVIOUS
<1>2. TypeOK
  <2>1. {0, 1} \subseteq Commit
    BY PromotionBoundsAreNat DEF Commit
  <2>2. record \in [rev : Nat, state : States, candidate : Commit, promoted : Commit,
                    approval : Decisions \cup {"NOT_REQUIRED"}]
    BY <2>1 DEF States
  <2>3. journal \in Seq(Event) /\ original \in Seq(Commit)
    BY <1>1
  <2>4. /\ suite \in [commit : Commit, verdict : {"none", "torn", "passed", "failed"}]
        /\ verifier \in [wants : {"nothing", "look", "suite", "block"}, commit : Commit]
    BY <2>1
  <2> QED
    BY <2>1, <2>2, <2>3, <2>4 DEF TypeOK, Places
<1>3. Approvals = {}
  BY <1>1 DEF Approvals, Positions
<1>4. JournalInv
  BY <1>1 DEF JournalInv, Increasing, BlockOvertakes
<1>5. ApprovalInv
  BY <1>3 DEF ApprovalInv, ProjectionNeverAhead
<1>6. LandInv
  BY <1>1 DEF LandInv, LandsOnce, NothingLanded, Ends
<1>7. CandidateInv
  BY DEF CandidateInv
<1>8. SessionInv
  BY <1>1 DEF SessionInv
<1> QED
  BY <1>2, <1>4, <1>5, <1>6, <1>7, <1>8 DEF PromotionInv

\* Every step of a session, of the user and every death keeps the invariant.
LEMMA PromotionSteps ==
  PromotionInv /\ [Next]_vars => PromotionInv'
<1> SUFFICES ASSUME PromotionInv, [Next]_vars PROVE PromotionInv'
  OBVIOUS
<1>1. CASE RecoverApproval
  BY <1>1, RecoverApprovalKeeps
<1>2. CASE RecoverFields
  BY <1>2, RecoverFieldsKeeps
<1>3. CASE RecoverState
  BY <1>3, RecoverStateKeeps
<1>4. CASE CompareAndSet
  BY <1>4, CompareAndSetKeeps
<1>5. CASE PublishProjection
  BY <1>5, PublishProjectionKeeps
<1>6. CASE Prepare \/ CommitCandidate \/ PublishReference \/ RecordCandidate
  BY <1>6, PrepareKeeps, CommitCandidateKeeps, PublishReferenceKeeps, RecordCandidateKeeps
<1>7. CASE VerifyReads \/ VerifyLooks \/ BeginSuite
  BY <1>7, VerifyReadsKeeps, VerifyLooksKeeps, BeginSuiteKeeps
<1>8. CASE BlockExecution \/ StartSuite \/ FinishSuite
  BY <1>8, BlockExecutionKeeps, StartSuiteKeeps, FinishSuiteKeeps
<1>9. CASE (\E same \in BOOLEAN : RequestApproval(same)) \/ Approve
  BY <1>9, RequestApprovalKeeps, ApproveKeeps
<1>10. CASE Authorize \/ DryRun \/ StartPromotion
  BY <1>10, AuthorizeKeeps, DryRunKeeps, StartPromotionKeeps
<1>11. CASE Check \/ CherryPick \/ BaseChanged \/ RecordOutcome \/ Complete
  BY <1>11, CheckKeeps, CherryPickKeeps, BaseChangedKeeps, RecordOutcomeKeeps, CompleteKeeps
<1>12. CASE \E o \in Ops : Begin(o)
  BY <1>12, BeginKeeps
<1>13. CASE Crash \/ Move \/ Clean
  BY <1>13, CrashKeeps, MoveKeeps, CleanKeeps
<1>14. CASE UNCHANGED vars
  <2>1. TypeOK'
    BY <1>14 DEF vars, disk, git, checkout, PromotionInv, TypeOK
  <2>2. SessionInv'
    BY <1>14, SamePlace, SameBranch DEF vars, disk, git, checkout, PromotionInv
  <2> QED
    BY <1>14, <2>1, <2>2, QuietKeeps
       DEF vars, disk, git, checkout, PromotionInv, CandidateInv
<1> QED
  BY <1>1, <1>2, <1>3, <1>4, <1>5, <1>6, <1>7, <1>8, <1>9, <1>10, <1>11, <1>12, <1>13, <1>14
     DEF Next, Session

\* The invariant holds, for every bound on commits, faults and moves.
LEMMA PromotionAlways == Spec => []PromotionInv
<1>1. Init => PromotionInv
  BY PromotionBegins
<1>2. PromotionInv /\ [Next]_vars => PromotionInv'
  BY PromotionSteps
<1> QED
  BY <1>1, <1>2, PTL DEF Spec

\* However often a promotion is interrupted, repeated or raced by the user, one
\* commit of the harness at most is on the branch: the cherry-pick is only reached
\* with nothing of the harness there.
THEOREM OneCherryPick == Spec => []LandsOnce
<1>1. PromotionInv => LandsOnce
  BY DEF PromotionInv, LandInv
<1> QED
  BY <1>1, PromotionAlways, PTL

\* What the record says was promoted is on the branch, an execution that completes
\* has its promotion on record, a dry run lands nothing, and the projection of the
\* approval never shows a decision that the snapshot does not have.
THEOREM RecordIsTrue == Spec => []FilesInv
<1>1. PromotionInv => FilesInv
  <2> SUFFICES ASSUME PromotionInv PROVE FilesInv
    OBVIOUS
  <2>1. RecordTellsTheTruth
    BY DEF PromotionInv, LandInv, OnBranch, NothingLanded, Ends, RecordTellsTheTruth
  <2> QED
    BY <2>1 DEF FilesInv, PromotionInv, ApprovalInv
<1> QED
  BY <1>1, PromotionAlways, PTL

\* Whoever died, and in whatever order events were applied, the history of the
\* approval is one that recovery accepts, unless verify has blocked the execution.
THEOREM ApprovalRecovers == Spec => []ApprovalRecoversUnlessBlocked
<1>1. PromotionInv => ApprovalRecoversUnlessBlocked
  <2> SUFFICES ASSUME PromotionInv, record.state # "BLOCKED_PREREQUISITE"
               PROVE  ApprovalHistoryHolds
    BY DEF ApprovalRecoversUnlessBlocked
  <2>1. TypeOK /\ JournalInv /\ ApprovalInv
    BY DEF PromotionInv
  <2>2. /\ \A i \in Approvals : i \in DOMAIN journal /\ journal[i].kind = "approval"
        /\ \A i \in DOMAIN journal : journal[i].kind = "approval" => i \in Approvals
    BY ApprovalsOfLog DEF ApprovalsIn
  <2>3. ASSUME NEW i \in Approvals
        PROVE  /\ \A j \in Approvals : j < i => journal[j].rev < journal[i].rev
               /\ Pending(i) => journal[i].rev = record.rev + 1 /\ i = Max(Approvals)
    <3>1. \A j \in Approvals : j < i => journal[j].rev < journal[i].rev
      BY <2>1, <2>2 DEF JournalInv, Increasing
    <3>2. /\ record.rev \in Nat
          /\ \A j \in Approvals : /\ journal[j].rev \in Nat /\ j \in Nat
                                  /\ journal[j].rev <= record.rev + 1
      BY <2>1, <2>2, EventFacts DEF TypeOK, JournalInv, EventIsBacked
    <3>3. ASSUME Pending(i) PROVE journal[i].rev = record.rev + 1
      BY <3>2, <3>3 DEF Pending
    <3> DEFINE m == Max(Approvals)
    <3>4. m \in Approvals /\ i <= m
      BY <2>1, LatestIsLast DEF Approvals
    <3> HIDE DEF m
    <3>5. ASSUME Pending(i), i # m PROVE FALSE
      <4>1. journal[i].rev < journal[m].rev
        BY <2>1, <2>2, <3>2, <3>4, <3>5 DEF JournalInv, Increasing
      <4> QED
        BY <3>2, <3>3, <3>4, <3>5, <4>1
    <3> QED
      BY <3>1, <3>3, <3>5 DEF m
  <2>4. RevisionsHold({"approval"})
    BY <2>3 DEF RevisionsHold, Approvals
  <2> QED
    BY <2>1, <2>4 DEF ApprovalHistoryHolds, ApprovalInv
<1> QED
  BY <1>1, PromotionAlways, PTL

\* The only commit the harness puts on the user's branch is the recorded candidate,
\* under an approval of exactly that commit, with a suite that passed on it.
THEOREM OnlyTheApprovedLands == Spec => LandsAuthorized
<1> DEFINE Kept ==
      \A c \in 1 .. MaxContent :
        original' = Append(original, c) =>
          /\ record.state = "PROMOTING" /\ record.approval = "APPROVED"
          /\ record.candidate = c /\ Passed(c) /\ Latest.commit = c
<1>1. PromotionInv /\ [Next]_vars => [Kept]_vars
  <2> SUFFICES ASSUME PromotionInv, Next, NEW c \in 1 .. MaxContent,
                      original' = Append(original, c)
               PROVE  /\ record.state = "PROMOTING" /\ record.approval = "APPROVED"
                      /\ record.candidate = c /\ Passed(c) /\ Latest.commit = c
    OBVIOUS
  <2>1. /\ original \in Seq(Commit) /\ Len(original) \in Nat
        /\ Len(original') = Len(original) + 1 /\ original'[Len(original) + 1] = c
    BY DEF PromotionInv, TypeOK
  <2>2. UNCHANGED original => FALSE
    BY <2>1
  <2>3. ~ Advance
    <3>1. Advance => original'[Len(original) + 1] = User
      BY <2>1 DEF Advance
    <3> QED
      BY <2>1, <3>1 DEF User
  <2>4. CASE CherryPick
    <3>1. original' = Append(original, reference)
      BY <2>2, <2>4 DEF CherryPick
    <3>2. original'[Len(original) + 1] = reference
      BY <2>1, <3>1
    <3>3. c = reference
      BY <2>1, <3>2
    <3>4. record.state = "PROMOTING" /\ Authorized
      BY <2>4 DEF CherryPick, PromotionInv, SessionInv
    <3> QED
      BY <3>3, <3>4 DEF Authorized
  <2>5. CASE Move
    BY <2>2, <2>3, <2>5 DEF Move, Edit, Dirty, Expire, checkout
  <2>6. CASE ~ CherryPick /\ ~ Move
    <3>1. UNCHANGED original
      BY <2>6 DEF Next, Session, checkout, RecoverApproval, RecoverFields, RecoverState,
             CompareAndSet, PublishProjection, Prepare, CommitCandidate, PublishReference,
             RecordCandidate, VerifyReads, BlockExecution, StartSuite, FinishSuite,
             RequestApproval, Approve, Authorize, DryRun, StartPromotion, Check,
             BaseChanged, RecordOutcome, Complete, Begin, VerifyLooks, BeginSuite,
             Crash, Clean
    <3> QED
      BY <2>2, <3>1
  <2> QED
    BY <2>4, <2>5, <2>6
<1>2. Spec => [][Kept]_vars
  BY <1>1, PromotionAlways, PTL DEF Spec
<1> QED
  BY <1>2 DEF LandsAuthorized
=============================================================================
