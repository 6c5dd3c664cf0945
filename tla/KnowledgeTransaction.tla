------------------------ MODULE KnowledgeTransaction ------------------------
(***************************************************************************)
(* knowledge/transaction.py, KnowledgeTransactionManager.                  *)
(*                                                                         *)
(* A transaction merges one knowledge item into the current index: it      *)
(* stages the new index, records PREPARED, moves the staged file among the *)
(* immutable snapshots, swaps the current pointer and records COMMITTED.   *)
(* The process may die, or a write report a failure though it was done,    *)
(* between any two of them.  Every call first recovers what an earlier one *)
(* left behind.  All of it happens under one lock (module FencedLock): one *)
(* session at a time, each with a greater token.                           *)
(*                                                                         *)
(* Indexes are content addressed, so an index stands for its digest; the   *)
(* content of a transaction and its commit are fixed by its identifier.    *)
(* The schema 1 formats (legacy pointer and journal) are left out.         *)
(***************************************************************************)
EXTENDS Naturals, Sequences, FiniteSets

CONSTANTS
  Tx,              \* transactions
  Ki,              \* identifiers of knowledge items
  KiOf,            \* the identifier a transaction writes
  None,            \* no transaction
  Absent,          \* there is no such file
  Corrupt,         \* the file does not hold an index
  RetentionLimit,  \* retention_limit
  MaxCalls,        \* bound: sessions
  MaxFaults,       \* bound: crashes and failed writes
  MaxDamage        \* bound: staged files and commits lost or damaged

Index == [Ki -> Tx \cup {None}]

ASSUME ItemsAreNamed == KiOf \in [Tx -> Ki]
ASSUME NoneIsNoTx == None \notin Tx
ASSUME FilesAreApart == Absent # Corrupt /\ {Absent, Corrupt} \cap Index = {}
ASSUME KnowledgeBoundsAreNat ==
  /\ RetentionLimit \in Nat \ {0}
  /\ MaxCalls \in Nat /\ MaxFaults \in Nat /\ MaxDamage \in Nat

VARIABLES
  journal,    \* records [tx, state, prev, index, token]
  staging,    \* staging[tx]: the staged file of tx
  snapshots,  \* snapshots[tx]: the snapshot of tx
  pointer,    \* current.json: [tx, prev, index, token]; tx None: no file
  pruned,     \* transactions whose commit is gone from the repository
  asked,      \* callers whose commit was verified and who wait for the lock
  pc,         \* where the session that holds the lock is
  op,         \* what it was called for
  me,         \* the transaction it was called with
  token,      \* its fencing token
  prep,       \* the prepared transaction it is carrying through
  answer,     \* answer[tx]: how the last call with tx ended
  faults, damage

files == <<journal, staging, snapshots, pointer>>
session == <<pc, op, me, token, prep>>
vars == <<files, pruned, asked, session, answer, faults, damage>>

Empty == [k \in Ki |-> None]
NoPointer == [tx |-> None, prev |-> None, index |-> Empty, token |-> 0]
NoPrep == NoPointer

Places == {"free", "recover", "execute", "prepare", "publish", "point",
           "finish", "retain"}

Init ==
  /\ journal = << >>
  /\ staging = [tx \in Tx |-> Absent]
  /\ snapshots = [tx \in Tx |-> Absent]
  /\ pointer = NoPointer
  /\ pruned = {} /\ asked = {}
  /\ pc = "free" /\ op = "none" /\ me = None /\ token = 0 /\ prep = NoPrep
  /\ answer = [tx \in Tx |-> "none"]
  /\ faults = 0 /\ damage = 0

-----------------------------------------------------------------------------
(* What a session reads.                                                   *)

\* _validate_journal_history: PREPARED comes first, once, and ends once.
JournalIsValid ==
  \A i \in DOMAIN journal :
    LET before == {j \in 1 .. i - 1 : journal[j].tx = journal[i].tx} IN
    IF journal[i].state = "PREPARED"
    THEN before = {}
    ELSE \E j \in before : before = {j} /\ journal[j].state = "PREPARED"

IsIn(tx, state) ==
  \E i \in DOMAIN journal : journal[i].tx = tx /\ journal[i].state = state

Known(tx) == \E i \in DOMAIN journal : journal[i].tx = tx

\* _unresolved_prepared
Unresolved ==
  {i \in DOMAIN journal :
     /\ journal[i].state = "PREPARED"
     /\ ~ IsIn(journal[i].tx, "COMMITTED") /\ ~ IsIn(journal[i].tx, "ABORTED")}

\* _prepared_from_record
Prepared(r) == [tx |-> r.tx, prev |-> r.prev, index |-> r.index, token |-> r.token]

\* _load_current: the commit exists and the snapshot is what was pointed to.
CurrentLoads ==
  pointer.tx # None =>
    /\ pointer.tx \notin pruned
    /\ snapshots[pointer.tx] = pointer.index
    /\ pointer.index[KiOf[pointer.tx]] # None

Merged(tx) == [pointer.index EXCEPT ![KiOf[tx]] = tx]

-----------------------------------------------------------------------------
(* How a step ends.                                                        *)

\* The process dies or the write raises: the lock is free again.
Fail ==
  /\ faults < MaxFaults
  /\ faults' = faults + 1
  /\ pc' = "free"

Reach(place) ==
  \/ pc' = place /\ UNCHANGED faults
  \/ Fail

\* The call returns, or raises, with this answer.
Return(how) ==
  /\ pc' = "free"
  /\ answer' = IF op = "execute" THEN [answer EXCEPT ![me] = how] ELSE answer

AppendRecord(tx, state, prev, index) ==
  journal' = Append(journal, [tx |-> tx, state |-> state, prev |-> prev,
                              index |-> index, token |-> token])

\* After recovery a session does what it was called for.
AfterRecovery == IF op = "recover" THEN "free" ELSE op

-----------------------------------------------------------------------------
(* The calls.                                                              *)

\* execute_transaction verifies the commit before it takes the lock.
Ask(tx) ==
  /\ tx \notin pruned /\ token < MaxCalls
  /\ asked' = asked \cup {tx}
  /\ UNCHANGED <<files, pruned, session, answer, faults, damage>>

Begin(what, tx) ==
  /\ pc = "free"
  /\ pc' = "recover" /\ op' = what /\ me' = tx /\ prep' = NoPrep
  /\ token' = IF token < MaxCalls THEN token + 1 ELSE token
  /\ UNCHANGED <<files, pruned, answer, faults, damage>>

Execute(tx) ==
  /\ tx \in asked /\ token < MaxCalls
  /\ asked' = asked \ {tx}
  /\ Begin("execute", tx)

\* cleanup_retained_snapshots
Retain == token < MaxCalls /\ Begin("retain", None) /\ UNCHANGED asked

\* recover_if_needed: the one call that is always possible, so that nothing
\* stays interrupted because the bound is reached.
RecoverIfNeeded == Begin("recover", None) /\ UNCHANGED asked

-----------------------------------------------------------------------------
(* _recover_locked.                                                        *)

RecoverClean ==
  /\ pc = "recover" /\ JournalIsValid /\ Unresolved = {} /\ CurrentLoads
  /\ pc' = AfterRecovery
  /\ UNCHANGED <<files, pruned, asked, op, me, token, prep, answer, faults, damage>>

\* The prepared transaction p can be carried on from this place.
Continues(p, place) ==
  /\ p.tx \notin pruned
  /\ \/ /\ place = "finish" /\ pointer.tx = p.tx
        /\ staging[p.tx] = Absent
        /\ pointer.prev = p.prev /\ pointer.index = p.index
     \/ /\ place = "publish" /\ pointer.tx = p.prev
        /\ staging[p.tx] = p.index /\ snapshots[p.tx] = Absent
     \/ /\ place = "point" /\ pointer.tx = p.prev
        /\ staging[p.tx] = Absent /\ snapshots[p.tx] = p.index

\* It is shown not to have taken effect, and not to be able to.
IsLost(p) ==
  /\ pointer.tx # p.tx
  /\ \/ p.tx \in pruned
     \/ staging[p.tx] = Absent /\ snapshots[p.tx] \notin {p.index}
     \/ snapshots[p.tx] = Absent /\ staging[p.tx] \notin {p.index}
     \/ pointer.tx # p.prev /\ Absent \in {staging[p.tx], snapshots[p.tx]}

\* Mutant of RecoverContinues: intention passes for effect.
IntentionIsEnough ==
  /\ pc = "recover" /\ JournalIsValid /\ CurrentLoads
  /\ \E i \in Unresolved :
       /\ Unresolved = {i} /\ ~ IsLost(journal[i])
       /\ prep' = Prepared(journal[i])
       /\ pc' = "finish"
  /\ UNCHANGED <<files, pruned, asked, op, me, token, answer, faults, damage>>

RecoverContinues ==
  /\ pc = "recover" /\ JournalIsValid /\ CurrentLoads
  /\ \E i \in Unresolved, place \in {"publish", "point", "finish"} :
       /\ Unresolved = {i} /\ Continues(journal[i], place)
       /\ prep' = Prepared(journal[i])
       /\ pc' = place
  /\ UNCHANGED <<files, pruned, asked, op, me, token, answer, faults, damage>>

\* Mutant of RecoverAborts: missing files are left to a human.
AbortOnlyDamaged ==
  /\ pc = "recover" /\ JournalIsValid /\ CurrentLoads
  /\ \E i \in Unresolved :
       LET p == journal[i] IN
       /\ Unresolved = {i} /\ IsLost(p)
       /\ staging[p.tx] # Absent \/ snapshots[p.tx] # Absent
       /\ AppendRecord(p.tx, "ABORTED", p.prev, p.index)
  /\ Reach(AfterRecovery)
  /\ UNCHANGED <<staging, snapshots, pointer, pruned, asked, op, me, token,
                 prep, answer, damage>>

RecoverAborts ==
  /\ pc = "recover" /\ JournalIsValid /\ CurrentLoads
  /\ \E i \in Unresolved :
       /\ Unresolved = {i} /\ IsLost(journal[i])
       /\ AppendRecord(journal[i].tx, "ABORTED", journal[i].prev, journal[i].index)
  /\ Reach(AfterRecovery)
  /\ UNCHANGED <<staging, snapshots, pointer, pruned, asked, op, me, token,
                 prep, answer, damage>>

\* Anything else needs a human.
RecoverRefuses ==
  /\ pc = "recover"
  /\ \/ ~ JournalIsValid \/ ~ CurrentLoads \/ Cardinality(Unresolved) > 1
     \/ \E i \in Unresolved :
          /\ ~ IsLost(journal[i])
          /\ \A place \in Places : ~ Continues(journal[i], place)
  /\ Return("integrity")
  /\ UNCHANGED <<files, pruned, asked, op, me, token, prep, faults, damage>>

-----------------------------------------------------------------------------
(* _execute_locked.                                                        *)

\* A transaction with history: the committed one may be repeated.
AnswerKnown ==
  /\ pc = "execute" /\ Known(me)
  /\ Return(IF ~ IsIn(me, "COMMITTED") THEN "conflict"
            ELSE IF \E i \in DOMAIN journal :
                      /\ journal[i].tx = me /\ journal[i].state = "COMMITTED"
                      /\ snapshots[me] = journal[i].index
                 THEN "committed" ELSE "integrity")
  /\ UNCHANGED <<files, pruned, asked, op, me, token, prep, faults, damage>>

Refuse ==
  /\ pc = "execute" /\ ~ Known(me)
  /\ \/ ~ CurrentLoads /\ Return("integrity")
     \/ CurrentLoads /\ snapshots[me] # Absent /\ Return("conflict")
     \/ /\ CurrentLoads /\ snapshots[me] = Absent
        /\ staging[me] \notin {Absent, Merged(me)}
        /\ Return("integrity")
  /\ UNCHANGED <<files, pruned, asked, op, me, token, prep, faults, damage>>

\* Mutant of Stage: the index holds the new item only.
StageAlone ==
  /\ pc = "execute" /\ ~ Known(me) /\ CurrentLoads /\ snapshots[me] = Absent
  /\ staging[me] = Absent
  /\ staging' = [staging EXCEPT ![me] = [Empty EXCEPT ![KiOf[me]] = me]]
  /\ prep' = [tx |-> me, prev |-> pointer.tx, token |-> token,
              index |-> [Empty EXCEPT ![KiOf[me]] = me]]
  /\ Reach("prepare")
  /\ UNCHANGED <<journal, snapshots, pointer, pruned, asked, op, me, token,
                 answer, damage>>

\* Stage the merged index, or reuse a staged file with the same content.
Stage ==
  /\ pc = "execute" /\ ~ Known(me) /\ CurrentLoads /\ snapshots[me] = Absent
  /\ staging[me] \in {Absent, Merged(me)}
  /\ staging' = [staging EXCEPT ![me] = Merged(me)]
  /\ prep' = [tx |-> me, prev |-> pointer.tx, token |-> token,
              index |-> Merged(me)]
  /\ Reach("prepare")
  /\ UNCHANGED <<journal, snapshots, pointer, pruned, asked, op, me, token,
                 answer, damage>>

Prepare ==
  /\ pc = "prepare"
  /\ AppendRecord(prep.tx, "PREPARED", prep.prev, prep.index)
  /\ Reach("publish")
  /\ UNCHANGED <<staging, snapshots, pointer, pruned, asked, op, me, token,
                 prep, answer, damage>>

-----------------------------------------------------------------------------
(* The rest is common to execution and recovery.                           *)

\* Move the staged file among the snapshots; then it is read back.
PublishSnapshot ==
  /\ pc = "publish"
  /\ staging[prep.tx] # Absent /\ snapshots[prep.tx] = Absent
  /\ snapshots' = [snapshots EXCEPT ![prep.tx] = staging[prep.tx]]
  /\ staging' = [staging EXCEPT ![prep.tx] = Absent]
  /\ IF staging[prep.tx] = prep.index
     THEN Reach("point") /\ UNCHANGED answer
     ELSE Return("integrity") /\ UNCHANGED faults
  /\ UNCHANGED <<journal, pointer, pruned, asked, op, me, token, prep, damage>>

\* The swap, on condition that the predecessor is still current.
PublishCurrent ==
  /\ pc = "point" /\ CurrentLoads /\ pointer.tx = prep.prev
  /\ pointer' = [prep EXCEPT !.token = token]
  /\ Reach("finish")
  /\ UNCHANGED <<journal, staging, snapshots, pruned, asked, op, me, token,
                 prep, answer, damage>>

PublicationFails ==
  /\ \/ pc = "publish"
        /\ (staging[prep.tx] = Absent \/ snapshots[prep.tx] # Absent)
     \/ pc = "point" /\ ~ (CurrentLoads /\ pointer.tx = prep.prev)
  /\ Return("failed")
  /\ UNCHANGED <<files, pruned, asked, op, me, token, prep, faults, damage>>

Finish ==
  /\ pc = "finish"
  /\ AppendRecord(prep.tx, "COMMITTED", prep.prev, prep.index)
  /\ \/ prep.token < token /\ pc' = AfterRecovery /\ UNCHANGED <<answer, faults>>
     \/ prep.token = token /\ Return("committed") /\ UNCHANGED faults
     \/ Fail /\ UNCHANGED answer
  /\ UNCHANGED <<staging, snapshots, pointer, pruned, asked, op, me, token,
                 prep, damage>>

-----------------------------------------------------------------------------
(* cleanup_retained_snapshots.                                             *)

\* The committed transactions, as places of their record in the journal.
Commits == {i \in DOMAIN journal : journal[i].state = "COMMITTED"}

\* The newest RetentionLimit of them, and the current one.
Kept ==
  {journal[i].tx : i \in {c \in Commits :
     Cardinality({d \in Commits : d > c}) < RetentionLimit}} \cup {pointer.tx}

Expendable == {tx \in Tx : /\ snapshots[tx] # Absent
                           /\ IsIn(tx, "COMMITTED") /\ tx \notin Kept}

Remove ==
  /\ pc = "retain"
  /\ \E tx \in Expendable : snapshots' = [snapshots EXCEPT ![tx] = Absent]
  /\ Reach("retain")
  /\ UNCHANGED <<journal, staging, pointer, pruned, asked, op, me, token, prep,
                 answer, damage>>

RetentionEnds ==
  /\ pc = "retain" /\ Expendable = {}
  /\ pc' = "free"
  /\ UNCHANGED <<files, pruned, asked, op, me, token, prep, answer, faults, damage>>

-----------------------------------------------------------------------------
(* Faults.                                                                 *)

Crash ==
  /\ pc # "free"
  /\ Fail
  /\ UNCHANGED <<files, pruned, asked, op, me, token, prep, answer, damage>>

\* A staged file is lost or damaged, a commit is pruned from the repository.
Damage(tx) ==
  /\ damage < MaxDamage
  /\ damage' = damage + 1
  /\ \/ /\ staging[tx] # Absent
        /\ \E left \in {Absent, Corrupt} :
             staging' = [staging EXCEPT ![tx] = left]
        /\ UNCHANGED pruned
     \/ /\ tx \notin pruned
        /\ pruned' = pruned \cup {tx}
        /\ UNCHANGED staging
  /\ UNCHANGED <<journal, snapshots, pointer, asked, session, answer, faults>>

-----------------------------------------------------------------------------
Work ==
  \/ RecoverClean \/ RecoverContinues \/ RecoverAborts \/ RecoverRefuses
  \/ AnswerKnown \/ Refuse \/ Stage \/ Prepare \/ PublishSnapshot
  \/ PublishCurrent \/ PublicationFails \/ Finish \/ Remove \/ RetentionEnds

Next ==
  \/ Work \/ Retain \/ RecoverIfNeeded \/ Crash
  \/ \E tx \in Tx : Ask(tx) \/ Execute(tx) \/ Damage(tx)

Spec == Init /\ [][Next]_vars

\* A session goes on unless it dies, and recovery is called again.
FairSpec == Spec /\ WF_vars(Work) /\ WF_vars(RecoverIfNeeded)

-----------------------------------------------------------------------------
(* Properties.                                                             *)

Pointer == [tx : Tx \cup {None}, prev : Tx \cup {None}, index : Index, token : Nat]
Record == [tx : Tx, state : {"PREPARED", "COMMITTED", "ABORTED"},
           prev : Tx \cup {None}, index : Index, token : Nat]
File == Index \cup {Absent, Corrupt}

TypeOK ==
  /\ journal \in Seq(Record)
  /\ staging \in [Tx -> File] /\ snapshots \in [Tx -> File]
  /\ pointer \in Pointer /\ prep \in Pointer
  /\ pruned \subseteq Tx /\ asked \subseteq Tx
  /\ pc \in Places
  /\ op \in {"none", "execute", "recover", "retain"}
  /\ me \in Tx \cup {None} /\ token \in Nat
  /\ answer \in [Tx -> {"none", "committed", "conflict", "integrity", "failed"}]
  /\ faults \in Nat /\ damage \in Nat

\* The current pointer never dangles: whatever was interrupted, damaged in
\* staging or cleaned up, it leads to a snapshot with the digest it names.
PointerResolves ==
  pointer.tx # None => snapshots[pointer.tx] = pointer.index

\* The journal is always one replay accepts, with at most one transaction to
\* recover; the committed transactions form one chain of predecessors; the
\* pointer is at its end, or one swap ahead with that transaction unresolved.
HistoryIsAChain ==
  /\ JournalIsValid /\ Cardinality(Unresolved) <= 1
  /\ \A i, j \in Commits :
       (i < j /\ \A k \in Commits : ~ (i < k /\ k < j))
         => journal[j].prev = journal[i].tx
  /\ \A i \in Commits : (\A j \in Commits : j <= i) =>
       \/ pointer.tx = journal[i].tx
       \/ /\ pointer.prev = journal[i].tx
          /\ \E u \in Unresolved : journal[u].tx = pointer.tx
  /\ \A i \in Commits, j \in DOMAIN journal : j > i => journal[j].token >= journal[i].token

\* The files have their contents, lost and corrupt ones included, and the journal
\* that recovery replays is one chain to which the pointer belongs, itself never dangling.
HistoryInv == TypeOK /\ HistoryIsAChain /\ PointerResolves

\* What a reader of the pointer sees is an index that transactions enter whole,
\* once each, without losing what was there.
Outcome(tx) ==
  IF IsIn(tx, "ABORTED") THEN "aborted"
  ELSE IF tx = pointer.tx \/ IsIn(tx, "COMMITTED") THEN "published" ELSE "open"

Base == INSTANCE KnowledgeBase WITH
  items <- pointer.index, outcome <- [tx \in Tx |-> Outcome(tx)]

ImplementsKnowledgeBase == Base!BaseSpec

\* A transaction that was interrupted after PREPARED is committed or aborted by
\* the calls that follow, unless the repository lost a commit.
InterruptedResolves == Unresolved # {} ~> (Unresolved = {} \/ pruned # {})
=============================================================================
