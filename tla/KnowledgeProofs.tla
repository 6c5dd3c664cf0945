--------------------------- MODULE KnowledgeProofs ---------------------------
(***************************************************************************)
(* The history of the knowledge is one chain that never dangles, and what  *)
(* readers see of it is the abstract knowledge base: for every set of      *)
(* transactions and items, every retention limit and every bound.          *)
(*                                                                         *)
(* The journal is a sequence of pairs, PREPARED and how it ended, with at  *)
(* most its last record still open; the pointer is at the last commit or   *)
(* at the open record, and the session that holds the lock knows which.    *)
(***************************************************************************)
EXTENDS KnowledgeTransaction, FiniteSetTheorems, TLAPS

-----------------------------------------------------------------------------
(* The inductive invariant.                                                *)

Last == journal[Len(journal)]

\* The last record is PREPARED: the only one recovery may have to deal with.
Pending == journal # << >> /\ Last.state = "PREPARED"

\* What a session was called for, and with which transaction.
CallInv ==
  /\ pc # "free" => op # "none"
  /\ pc \in {"execute", "prepare"} => op = "execute"
  /\ op = "execute" => me \in Tx
  /\ pc \in {"prepare", "publish", "point", "finish"} => prep.tx \in Tx

\* A record PREPARED is the first of its transaction, and only the next one ends it.
InPairs(log) ==
  \A i \in 1 .. Len(log) :
    /\ log[i].state = "PREPARED" =>
         /\ \A j \in 1 .. i - 1 : log[j].tx # log[i].tx
         /\ i > 1 => log[i - 1].state # "PREPARED"
    /\ log[i].state # "PREPARED" =>
         i > 1 /\ log[i - 1].state = "PREPARED" /\ log[i - 1].tx = log[i].tx

\* No record is older than one before it, nor newer than the present session.
InOrder(log, now) ==
  \A i \in 1 .. Len(log) :
    log[i].token <= now /\ \A j \in 1 .. i : log[j].token <= log[i].token

IsCommit(log, i) == i \in 1 .. Len(log) /\ log[i].state = "COMMITTED"

\* The transaction of the last commit before place n of the journal, None if there is none.
IsHeadBefore(log, n, head) ==
  \/ head = None /\ \A i \in 1 .. n - 1 : ~ IsCommit(log, i)
  \/ \E i \in 1 .. n - 1 :
       /\ IsCommit(log, i) /\ head = log[i].tx
       /\ \A j \in 1 .. n - 1 : IsCommit(log, j) => j <= i

IsHead(log, head) == IsHeadBefore(log, Len(log) + 1, head)

IsChain(log) ==
  \A i \in 1 .. Len(log) : IsCommit(log, i) => IsHeadBefore(log, i, log[i].prev)

RecordsInv == InPairs(journal) /\ InOrder(journal, token) /\ IsChain(journal)

\* The pointer is at the head, or one swap ahead, at the pending transaction, which was
\* merged into what the head points to.
PointerInv ==
  /\ \/ IsHead(journal, pointer.tx)
     \/ Pending /\ pointer.tx = Last.tx /\ pointer.prev = Last.prev
  /\ Pending => IsHead(journal, Last.prev)
  /\ Pending /\ pointer.tx = Last.prev => Last.index = Merged(Last.tx)
  /\ PointerResolves

\* What its place tells a session about journal, pointer and snapshots.
SessionInv ==
  /\ pc \in {"execute", "prepare", "retain"} => ~ Pending
  /\ pc = "prepare" =>
       ~ Known(prep.tx) /\ prep.prev = pointer.tx /\ prep.index = Merged(prep.tx)
  /\ pc \in {"publish", "point", "finish"} =>
       Pending /\ Last.tx = prep.tx /\ Last.prev = prep.prev /\ Last.index = prep.index
  /\ pc \in {"publish", "point"} => pointer.tx = prep.prev
  /\ pc = "point" => snapshots[prep.tx] = prep.index
  /\ pc = "finish" => pointer.tx = prep.tx

KnowledgeInv ==
  TypeOK /\ CallInv /\ RecordsInv /\ PointerInv /\ SessionInv

-----------------------------------------------------------------------------
(* Types.                                                                  *)

\* Where there is no pointer, the knowledge is an index without items.
LEMMA EmptyIsIndex == Empty \in Index
BY DEF Empty, Index

\* A merge writes the item of its transaction into an index and leaves an index.
LEMMA MergedIsIndex ==
  ASSUME TypeOK, NEW tx \in Tx
  PROVE  Merged(tx) \in Index
BY ItemsAreNamed DEF TypeOK, Merged, Pointer, Index

\* What recovery takes from a record is a prepared transaction.
LEMMA PreparedIsPointer ==
  ASSUME NEW r \in Record
  PROVE  Prepared(r) \in Pointer /\ Prepared(r).tx \in Tx
BY DEF Record, Pointer, Prepared

\* Whatever _load_journal returns is a record.
LEMMA RecordsAreTyped ==
  ASSUME TypeOK, NEW i \in DOMAIN journal
  PROVE  journal[i] \in Record
BY DEF TypeOK

\* Appending keeps the journal a sequence of records.
LEMMA AppendIsTyped ==
  ASSUME TypeOK, NEW tx \in Tx, NEW prev \in Tx \cup {None}, NEW index \in Index,
         NEW state \in {"PREPARED", "COMMITTED", "ABORTED"},
         AppendRecord(tx, state, prev, index)
  PROVE  journal' \in Seq(Record)
<1> DEFINE r == [tx |-> tx, state |-> state, prev |-> prev, index |-> index,
                 token |-> token]
<1>1. r \in Record
  BY DEF TypeOK, Record
<1>2. journal' = Append(journal, r)
  BY DEF AppendRecord
<1> QED
  BY <1>1, <1>2 DEF TypeOK

\* Every call leaves its files, its session and the journal with their types, and a
\* session that got past its recovery was called for something.
LEMMA TypeStep ==
  ASSUME TypeOK, CallInv, [Next]_vars
  PROVE  TypeOK' /\ CallInv'
<1> USE DEF CallInv, files, session, Fail, Reach, Return, AfterRecovery
<1> USE KnowledgeBoundsAreNat
<1> HIDE DEF Index, File, Pointer, Record
<1>1. CASE RecoverClean
  BY <1>1 DEF RecoverClean, TypeOK, Places
<1>2. CASE RecoverContinues
  <2>1. PICK i \in Unresolved, place \in {"publish", "point", "finish"} :
          prep' = Prepared(journal[i]) /\ pc' = place
    BY <1>2 DEF RecoverContinues
  <2>2. prep' \in Pointer /\ prep'.tx \in Tx
    BY <2>1, RecordsAreTyped, PreparedIsPointer DEF Unresolved
  <2> QED
    BY <1>2, <2>1, <2>2 DEF RecoverContinues, TypeOK, Places
<1>3. CASE RecoverAborts
  <2>1. PICK i \in Unresolved :
          AppendRecord(journal[i].tx, "ABORTED", journal[i].prev, journal[i].index)
    BY <1>3 DEF RecoverAborts
  <2>2. journal' \in Seq(Record)
    BY <2>1, RecordsAreTyped, AppendIsTyped DEF Unresolved, Record
  <2> QED
    BY <1>3, <2>2 DEF RecoverAborts, TypeOK, Places
<1>4. CASE RecoverRefuses
  BY <1>4 DEF RecoverRefuses, TypeOK, Places
<1>5. CASE AnswerKnown
  BY <1>5 DEF AnswerKnown, TypeOK, Places
<1>6. CASE Refuse
  BY <1>6 DEF Refuse, TypeOK, Places
<1>7. CASE Stage
  <2>1. Merged(me) \in Index /\ me \in Tx
    BY <1>7, MergedIsIndex DEF Stage
  <2>2. staging' \in [Tx -> File]
    BY <1>7, <2>1 DEF Stage, TypeOK, File
  <2>3. prep' \in Pointer /\ prep'.tx \in Tx
    BY <1>7, <2>1 DEF Stage, TypeOK, Pointer
  <2> QED
    BY <1>7, <2>2, <2>3 DEF Stage, TypeOK, Places
<1>8. CASE Prepare
  <2>1. journal' \in Seq(Record)
    BY <1>8, AppendIsTyped DEF Prepare, TypeOK, Pointer
  <2> QED
    BY <1>8, <2>1 DEF Prepare, TypeOK, Places
<1>9. CASE PublishSnapshot
  <2>1. staging' \in [Tx -> File] /\ snapshots' \in [Tx -> File]
    BY <1>9 DEF PublishSnapshot, TypeOK, File
  <2> QED
    BY <1>9, <2>1 DEF PublishSnapshot, TypeOK, Places
<1>10. CASE PublishCurrent
  <2>1. pointer' \in Pointer
    BY <1>10 DEF PublishCurrent, TypeOK, Pointer
  <2> QED
    BY <1>10, <2>1 DEF PublishCurrent, TypeOK, Places
<1>11. CASE PublicationFails
  BY <1>11 DEF PublicationFails, TypeOK, Places
<1>12. CASE Finish
  <2>1. journal' \in Seq(Record)
    BY <1>12, AppendIsTyped DEF Finish, TypeOK, Pointer
  <2> QED
    BY <1>12, <2>1 DEF Finish, TypeOK, Places
<1>13. CASE Remove
  <2>1. snapshots' \in [Tx -> File]
    BY <1>13 DEF Remove, Expendable, TypeOK, File
  <2> QED
    BY <1>13, <2>1 DEF Remove, TypeOK, Places
<1>14. CASE RetentionEnds
  BY <1>14 DEF RetentionEnds, TypeOK, Places
<1>15. CASE Retain
  BY <1>15, EmptyIsIndex
  DEF Retain, Begin, NoPrep, NoPointer, TypeOK, Places, Pointer
<1>16. CASE RecoverIfNeeded
  BY <1>16, EmptyIsIndex
  DEF RecoverIfNeeded, Begin, NoPrep, NoPointer, TypeOK, Places, Pointer
<1>17. CASE Crash
  BY <1>17 DEF Crash, TypeOK, Places
<1>18. ASSUME NEW tx \in Tx, Ask(tx)
       PROVE  TypeOK' /\ CallInv'
  BY <1>18 DEF Ask, TypeOK
<1>19. ASSUME NEW tx \in Tx, Execute(tx)
       PROVE  TypeOK' /\ CallInv'
  BY <1>19, EmptyIsIndex
  DEF Execute, Begin, NoPrep, NoPointer, TypeOK, Places, Pointer
<1>20. ASSUME NEW tx \in Tx, Damage(tx)
       PROVE  TypeOK' /\ CallInv'
  BY <1>20 DEF Damage, TypeOK, File
<1>21. CASE UNCHANGED vars
  BY <1>21 DEF vars, TypeOK
<1> QED
  BY <1>1, <1>2, <1>3, <1>4, <1>5, <1>6, <1>7, <1>8, <1>9, <1>10, <1>11, <1>12, <1>13,
     <1>14, <1>15, <1>16, <1>17, <1>18, <1>19, <1>20, <1>21
  DEF Next, Work

-----------------------------------------------------------------------------
(* Journals that grow.                                                     *)

\* A record at the end leaves every earlier one in its place.
LEMMA Appended ==
  ASSUME NEW log \in Seq(Record), NEW r \in Record
  PROVE  /\ Append(log, r) \in Seq(Record) /\ Append(log, r) # << >>
         /\ Len(log) \in Nat /\ Len(Append(log, r)) = Len(log) + 1
         /\ Append(log, r)[Len(log) + 1] = r
         /\ \A i \in 1 .. Len(log) : Append(log, r)[i] = log[i]
OBVIOUS

\* A transaction without history may be prepared when nothing is pending ...
LEMMA PairsOpen ==
  ASSUME NEW log \in Seq(Record), NEW r \in Record, InPairs(log),
         log # << >> => log[Len(log)].state # "PREPARED",
         r.state = "PREPARED", \A i \in 1 .. Len(log) : log[i].tx # r.tx
  PROVE  InPairs(Append(log, r))
<1> DEFINE new == Append(log, r)
<1> SUFFICES ASSUME NEW i \in 1 .. Len(new)
             PROVE  /\ new[i].state = "PREPARED" =>
                         /\ \A j \in 1 .. i - 1 : new[j].tx # new[i].tx
                         /\ i > 1 => new[i - 1].state # "PREPARED"
                    /\ new[i].state # "PREPARED" =>
                         /\ i > 1 /\ new[i - 1].state = "PREPARED"
                         /\ new[i - 1].tx = new[i].tx
  BY DEF InPairs
<1>1. /\ Len(log) \in Nat /\ Len(new) = Len(log) + 1 /\ new[Len(log) + 1] = r
      /\ \A k \in 1 .. Len(log) : new[k] = log[k]
  BY Appended
<1> HIDE DEF new
<1>2. CASE i \in 1 .. Len(log)
  <2>1. new[i] = log[i] /\ \A j \in 1 .. i - 1 : new[j] = log[j]
    BY <1>1, <1>2
  <2>2. i > 1 => new[i - 1] = log[i - 1]
    BY <1>1, <1>2
  <2> QED
    BY <1>2, <2>1, <2>2 DEF InPairs
<1>3. CASE i = Len(log) + 1
  BY <1>1, <1>3
<1> QED
  BY <1>1, <1>2, <1>3

\* ... and a record that ends the pending transaction may follow it.
LEMMA PairsClose ==
  ASSUME NEW log \in Seq(Record), NEW r \in Record, InPairs(log), log # << >>,
         log[Len(log)].state = "PREPARED", r.state # "PREPARED",
         r.tx = log[Len(log)].tx
  PROVE  InPairs(Append(log, r))
<1> DEFINE new == Append(log, r)
<1> SUFFICES ASSUME NEW i \in 1 .. Len(new)
             PROVE  /\ new[i].state = "PREPARED" =>
                         /\ \A j \in 1 .. i - 1 : new[j].tx # new[i].tx
                         /\ i > 1 => new[i - 1].state # "PREPARED"
                    /\ new[i].state # "PREPARED" =>
                         /\ i > 1 /\ new[i - 1].state = "PREPARED"
                         /\ new[i - 1].tx = new[i].tx
  BY DEF InPairs
<1>1. /\ Len(log) \in Nat /\ Len(log) > 0
      /\ Len(new) = Len(log) + 1 /\ new[Len(log) + 1] = r
      /\ \A k \in 1 .. Len(log) : new[k] = log[k]
  BY Appended
<1> HIDE DEF new
<1>2. CASE i \in 1 .. Len(log)
  BY <1>1, <1>2 DEF InPairs
<1>3. CASE i = Len(log) + 1
  BY <1>1, <1>3
<1> QED
  BY <1>1, <1>2, <1>3

\* Sessions come one after the other, each with a token that is not smaller.
LEMMA OrderGrows ==
  ASSUME NEW log \in Seq(Record), NEW r \in Record, NEW now \in Nat,
         InOrder(log, now), r.token = now
  PROVE  InOrder(Append(log, r), now)
<1> DEFINE new == Append(log, r)
<1>1. /\ Len(log) \in Nat /\ Len(new) = Len(log) + 1 /\ new[Len(log) + 1] = r
      /\ \A k \in 1 .. Len(log) : new[k] = log[k]
  BY Appended
<1> HIDE DEF new
<1>2. InOrder(new, now)
  BY <1>1 DEF InOrder
<1> QED
  BY <1>2 DEF new

\* A record at the end does not change which earlier ones are commits.
LEMMA CommitsStay ==
  ASSUME NEW log \in Seq(Record), NEW r \in Record
  PROVE  \A i \in 1 .. Len(log) : IsCommit(Append(log, r), i) <=> IsCommit(log, i)
BY Appended DEF IsCommit

\* What was the head before a place stays it when the journal grows behind that place.
LEMMA HeadsStay ==
  ASSUME NEW log \in Seq(Record), NEW r \in Record, NEW n \in 1 .. Len(log) + 1, NEW head
  PROVE  IsHeadBefore(Append(log, r), n, head) <=> IsHeadBefore(log, n, head)
<1> DEFINE new == Append(log, r)
<1>1. Len(log) \in Nat /\ \A k \in 1 .. Len(log) : new[k] = log[k]
  BY Appended
<1>2. \A k \in 1 .. Len(log) : IsCommit(new, k) <=> IsCommit(log, k)
  BY CommitsStay
<1> HIDE DEF new
<1>3. \A k \in 1 .. n - 1 : k \in 1 .. Len(log)
  BY <1>1
<1>4. IsHeadBefore(new, n, head) <=> IsHeadBefore(log, n, head)
  BY <1>1, <1>2, <1>3 DEF IsHeadBefore
<1> QED
  BY <1>4 DEF new

\* A commit at the end is the new head, any other record leaves the head alone.
LEMMA HeadMoves ==
  ASSUME NEW log \in Seq(Record), NEW r \in Record, NEW head
  PROVE  /\ r.state = "COMMITTED" => IsHead(Append(log, r), r.tx)
         /\ r.state # "COMMITTED" =>
              (IsHead(Append(log, r), head) <=> IsHead(log, head))
<1> DEFINE new == Append(log, r)
           n == Len(log) + 1
<1>1. n \in 1 .. n /\ Len(new) = n /\ new[n] = r
  BY Appended
<1>2. IsHeadBefore(new, n, head) <=> IsHeadBefore(log, n, head)
  BY <1>1, HeadsStay
<1>3. IsCommit(new, n) <=> r.state = "COMMITTED"
  BY <1>1 DEF IsCommit
<1> HIDE DEF new, n
<1>4. n \in Nat /\ \A i \in 1 .. n : i = n \/ i \in 1 .. n - 1
  BY <1>1
<1>5. ASSUME r.state = "COMMITTED"
      PROVE  IsHeadBefore(new, n + 1, r.tx)
  <2>1. \A j \in 1 .. n : j <= n
    OBVIOUS
  <2> QED
    BY <1>1, <1>3, <1>4, <1>5, <2>1 DEF IsHeadBefore
<1>6. ASSUME r.state # "COMMITTED"
      PROVE  IsHeadBefore(new, n + 1, head) <=> IsHeadBefore(new, n, head)
  <2>1. \A i \in 1 .. n : IsCommit(new, i) => i \in 1 .. n - 1
    BY <1>3, <1>4, <1>6
  <2>2. 1 .. (n + 1) - 1 = 1 .. n /\ \A i \in 1 .. n - 1 : i \in 1 .. n
    BY <1>4
  <2>3. IsHeadBefore(new, n + 1, head) <=>
          \/ head = None /\ \A i \in 1 .. n : ~ IsCommit(new, i)
          \/ \E i \in 1 .. n : /\ IsCommit(new, i) /\ head = new[i].tx
                               /\ \A j \in 1 .. n : IsCommit(new, j) => j <= i
    BY Zenon, <2>2 DEF IsHeadBefore
  <2>4. IsHeadBefore(new, n, head) <=>
          \/ head = None /\ \A i \in 1 .. n - 1 : ~ IsCommit(new, i)
          \/ \E i \in 1 .. n - 1 : /\ IsCommit(new, i) /\ head = new[i].tx
                                   /\ \A j \in 1 .. n - 1 : IsCommit(new, j) => j <= i
    BY Zenon DEF IsHeadBefore
  <2> HIDE DEF IsHeadBefore
  <2> QED
    BY Zenon, <2>1, <2>2, <2>3, <2>4
<1> QED
  BY <1>1, <1>2, <1>5, <1>6 DEF IsHead, n, new

\* A commit that names the head as its predecessor continues the chain.
LEMMA ChainGrows ==
  ASSUME NEW log \in Seq(Record), NEW r \in Record, IsChain(log),
         r.state = "COMMITTED" => IsHead(log, r.prev)
  PROVE  IsChain(Append(log, r))
<1> DEFINE new == Append(log, r)
<1>1. /\ Len(log) \in Nat /\ Len(new) = Len(log) + 1 /\ new[Len(log) + 1] = r
      /\ \A k \in 1 .. Len(log) : new[k] = log[k]
  BY Appended
<1>2. \A k \in 1 .. Len(log) : IsCommit(new, k) <=> IsCommit(log, k)
  BY CommitsStay
<1>3. \A k \in 1 .. Len(log) :
        IsHeadBefore(new, k, log[k].prev) <=> IsHeadBefore(log, k, log[k].prev)
  BY <1>1, HeadsStay
<1>4. IsHeadBefore(new, Len(log) + 1, r.prev) <=> IsHead(log, r.prev)
  BY <1>1, HeadsStay DEF IsHead
<1>5. IsCommit(new, Len(log) + 1) => r.state = "COMMITTED"
  BY <1>1 DEF IsCommit
<1> HIDE DEF new
<1>6. IsChain(new)
  <2> SUFFICES ASSUME NEW i \in 1 .. Len(new), IsCommit(new, i)
               PROVE  IsHeadBefore(new, i, new[i].prev)
    BY DEF IsChain
  <2>1. CASE i \in 1 .. Len(log)
    BY <1>1, <1>2, <1>3, <2>1 DEF IsChain
  <2>2. CASE i = Len(log) + 1
    BY <1>1, <1>4, <1>5, <2>2
  <2> QED
    BY <1>1, <2>1, <2>2
<1> QED
  BY <1>6 DEF new

-----------------------------------------------------------------------------
(* What recovery finds.                                                    *)

\* The journal as its readers see it: numbered from 1, every entry a record.
LEMMA JournalShape ==
  ASSUME TypeOK
  PROVE  /\ Len(journal) \in Nat /\ DOMAIN journal = 1 .. Len(journal)
         /\ journal # << >> <=> Len(journal) > 0
         /\ \A i \in 1 .. Len(journal) : journal[i] \in Record
BY DEF TypeOK

\* A pending transaction has no end: its record is the last, and the first of its own.
LEMMA PendingIsOpen ==
  ASSUME TypeOK, RecordsInv, Pending
  PROVE  ~ IsIn(Last.tx, "COMMITTED") /\ ~ IsIn(Last.tx, "ABORTED")
<1> SUFFICES ASSUME NEW i \in DOMAIN journal, journal[i].tx = Last.tx,
                    journal[i].state # "PREPARED"
             PROVE  FALSE
  BY Zenon DEF IsIn
<1>1. /\ Len(journal) \in Nat \ {0} /\ i \in 1 .. Len(journal)
      /\ Last = journal[Len(journal)] /\ Last.state = "PREPARED"
  BY JournalShape DEF Pending, Last
<1>2. i > 1 /\ journal[i - 1].tx = Last.tx
  BY <1>1 DEF RecordsInv, InPairs
<1>3. i - 1 \in 1 .. Len(journal) - 1
  BY <1>1, <1>2
<1>4. \A j \in 1 .. Len(journal) - 1 : journal[j].tx # Last.tx
  BY <1>1 DEF RecordsInv, InPairs
<1> QED
  BY <1>2, <1>3, <1>4

\* _unresolved_prepared never finds more than the last record: recovery is not ambiguous.
LEMMA UnresolvedIsLast ==
  ASSUME TypeOK, RecordsInv
  PROVE  Unresolved = IF Pending THEN {Len(journal)} ELSE {}
<1>1. ASSUME NEW i \in Unresolved
      PROVE  i = Len(journal) /\ Pending
  <2>1. /\ i \in 1 .. Len(journal) /\ Len(journal) \in Nat /\ journal[i] \in Record
        /\ journal[i].state = "PREPARED"
        /\ ~ IsIn(journal[i].tx, "COMMITTED") /\ ~ IsIn(journal[i].tx, "ABORTED")
    BY JournalShape DEF Unresolved
  <2>2. ASSUME i < Len(journal)
        PROVE  FALSE
    <3>1. i + 1 \in 1 .. Len(journal) /\ (i + 1) - 1 = i /\ i + 1 > 1
      BY <2>1, <2>2
    <3>2. journal[i + 1].state # "PREPARED" /\ journal[i + 1].tx = journal[i].tx
      BY <2>1, <3>1 DEF RecordsInv, InPairs
    <3>3. journal[i + 1].state \in {"COMMITTED", "ABORTED"} /\ i + 1 \in DOMAIN journal
      BY <3>1, <3>2, JournalShape DEF Record
    <3> QED
      BY <2>1, <3>2, <3>3 DEF IsIn
  <2>3. i = Len(journal) /\ Len(journal) > 0
    BY <2>1, <2>2
  <2> QED
    BY <2>1, <2>3, JournalShape DEF Pending, Last
<1>2. ASSUME Pending
      PROVE  Len(journal) \in Unresolved
  <2>1. Len(journal) \in DOMAIN journal /\ journal[Len(journal)].state = "PREPARED"
    BY <1>2, JournalShape DEF Pending, Last
  <2> QED
    BY <1>2, <2>1, PendingIsOpen DEF Unresolved, Last
<1> QED
  BY <1>1, <1>2

\* The head is committed, so a pending transaction is not the head.
LEMMA PendingIsNotHead ==
  ASSUME TypeOK, RecordsInv, Pending, NEW head, IsHead(journal, head)
  PROVE  head # Last.tx
<1>1. Last.tx \in Tx
  BY JournalShape DEF Pending, Last, Record
<1>2. head # None => \E i \in DOMAIN journal :
                       journal[i].tx = head /\ journal[i].state = "COMMITTED"
  BY JournalShape DEF IsHead, IsHeadBefore, IsCommit
<1>3. head # None => IsIn(head, "COMMITTED")
  BY <1>2 DEF IsIn
<1> QED
  BY <1>1, <1>3, PendingIsOpen, NoneIsNoTx

-----------------------------------------------------------------------------
(* The steps preserve the invariant.                                       *)

\* The record that a session appends, and what the journal becomes.
LEMMA AppendedRecord ==
  ASSUME TypeOK, NEW tx \in Tx, NEW prev \in Tx \cup {None}, NEW index \in Index,
         NEW s \in {"PREPARED", "COMMITTED", "ABORTED"},
         AppendRecord(tx, s, prev, index)
  PROVE  \E r \in Record :
           /\ journal' = Append(journal, r)
           /\ r.tx = tx /\ r.state = s /\ r.prev = prev /\ r.index = index
           /\ r.token = token
<1> DEFINE r == [tx |-> tx, state |-> s, prev |-> prev, index |-> index,
                 token |-> token]
<1>1. r \in Record /\ r.tx = tx /\ r.state = s /\ r.prev = prev /\ r.index = index
      /\ r.token = token
  BY DEF TypeOK, Record
<1>2. journal' = Append(journal, r)
  BY DEF AppendRecord
<1> QED
  BY <1>1, <1>2

\* _append_journal: only the transaction that is pending gets an end, only one without
\* history a beginning, and a commit names the head as its predecessor.
LEMMA RecordsStep ==
  ASSUME TypeOK, CallInv, RecordsInv, PointerInv, SessionInv, [Next]_vars
  PROVE  RecordsInv'
<1> USE KnowledgeBoundsAreNat DEF files, session
<1>1. ASSUME UNCHANGED journal, token' \in Nat, token <= token'
      PROVE  RecordsInv'
  <2>1. \A i \in 1 .. Len(journal) : journal[i].token \in Nat
    BY JournalShape DEF Record
  <2>2. token \in Nat
    BY DEF TypeOK
  <2>3. InOrder(journal, token')
    BY <1>1, <2>1, <2>2 DEF RecordsInv, InOrder
  <2> QED
    BY <1>1, <2>3 DEF RecordsInv
<1>2. CASE RecoverAborts
  <2>1. PICK i \in Unresolved :
          AppendRecord(journal[i].tx, "ABORTED", journal[i].prev, journal[i].index)
    BY <1>2 DEF RecoverAborts
  <2>2. Pending /\ journal[i] = Last /\ Last \in Record
    BY <2>1, UnresolvedIsLast, JournalShape DEF Last, Pending
  <2>3. PICK r \in Record :
          /\ journal' = Append(journal, r)
          /\ r.tx = Last.tx /\ r.state = "ABORTED" /\ r.token = token
    BY <2>1, <2>2, AppendedRecord DEF Record
  <2>4. token' = token /\ token \in Nat /\ journal \in Seq(Record)
    BY <1>2 DEF RecoverAborts, TypeOK
  <2>5. InPairs(journal')
    BY <2>2, <2>3, <2>4, PairsClose DEF Pending, Last, RecordsInv
  <2>6. InOrder(journal', token)
    BY <2>3, <2>4, OrderGrows DEF RecordsInv
  <2>7. IsChain(journal')
    BY <2>3, <2>4, ChainGrows DEF RecordsInv
  <2> QED
    BY <2>4, <2>5, <2>6, <2>7 DEF RecordsInv
<1>3. CASE Prepare
  <2>1. /\ ~ Pending /\ ~ Known(prep.tx) /\ prep.tx \in Tx
        /\ prep.prev \in Tx \cup {None} /\ prep.index \in Index
        /\ AppendRecord(prep.tx, "PREPARED", prep.prev, prep.index)
    BY <1>3 DEF Prepare, SessionInv, CallInv, TypeOK, Pointer
  <2>3. PICK r \in Record :
          /\ journal' = Append(journal, r)
          /\ r.tx = prep.tx /\ r.state = "PREPARED" /\ r.token = token
    BY <2>1, AppendedRecord
  <2>4. token' = token /\ token \in Nat /\ journal \in Seq(Record)
    BY <1>3 DEF Prepare, TypeOK
  <2>5. \A i \in 1 .. Len(journal) : journal[i].tx # r.tx
    BY <2>1, <2>3, JournalShape DEF Known
  <2>6. InPairs(journal')
    BY <2>1, <2>3, <2>4, <2>5, PairsOpen DEF Pending, Last, RecordsInv
  <2>7. InOrder(journal', token)
    BY <2>3, <2>4, OrderGrows DEF RecordsInv
  <2>8. IsChain(journal')
    BY <2>3, <2>4, ChainGrows DEF RecordsInv
  <2> QED
    BY <2>4, <2>6, <2>7, <2>8 DEF RecordsInv
<1>4. CASE Finish
  <2>1. Pending /\ Last.tx = prep.tx /\ Last.prev = prep.prev
    BY <1>4 DEF Finish, SessionInv
  <2>2. /\ prep.tx \in Tx /\ prep.prev \in Tx \cup {None} /\ prep.index \in Index
        /\ AppendRecord(prep.tx, "COMMITTED", prep.prev, prep.index)
    BY <1>4 DEF Finish, CallInv, TypeOK, Pointer
  <2>3. PICK r \in Record :
          /\ journal' = Append(journal, r)
          /\ r.tx = prep.tx /\ r.state = "COMMITTED" /\ r.prev = prep.prev
          /\ r.token = token
    BY <2>2, AppendedRecord
  <2>4. token' = token /\ token \in Nat /\ journal \in Seq(Record)
    BY <1>4 DEF Finish, TypeOK
  <2>5. InPairs(journal')
    BY <2>1, <2>3, <2>4, PairsClose DEF Pending, Last, RecordsInv
  <2>6. InOrder(journal', token)
    BY <2>3, <2>4, OrderGrows DEF RecordsInv
  <2>7. IsHead(journal, r.prev)
    BY <2>1, <2>3 DEF PointerInv
  <2>8. IsChain(journal')
    BY <2>3, <2>4, <2>7, ChainGrows DEF RecordsInv
  <2> QED
    BY <2>4, <2>5, <2>6, <2>8 DEF RecordsInv
<1>5. ASSUME ~ RecoverAborts, ~ Prepare, ~ Finish
      PROVE  UNCHANGED journal /\ token' \in Nat /\ token <= token'
  <2>1. token \in Nat
    BY DEF TypeOK
  <2> QED
    BY <1>5, <2>1
    DEF Next, Work, RecoverClean, RecoverContinues, RecoverRefuses, AnswerKnown, Refuse,
        Stage, PublishSnapshot, PublishCurrent, PublicationFails, Remove, RetentionEnds,
        Retain, RecoverIfNeeded, Begin, Crash, Ask, Execute, Damage, vars
<1> QED
  BY <1>1, <1>2, <1>3, <1>4, <1>5

\* What a session that appends knows of the journal it leaves.
LEMMA LastIsAppended ==
  ASSUME TypeOK, NEW r \in Record, journal' = Append(journal, r)
  PROVE  /\ journal' # << >> /\ Last' = r
         /\ Pending' <=> r.state = "PREPARED"
<1>1. journal' # << >> /\ Last' = r
  BY Appended DEF TypeOK, Last
<1> QED
  BY <1>1 DEF Pending

\* The three places that append, each with the record and the journal it found.
LEMMA AbortAppends ==
  ASSUME TypeOK, RecordsInv, RecoverAborts
  PROVE  /\ Pending /\ IsLost(Last)
         /\ \E r \in Record :
              journal' = Append(journal, r) /\ r.state = "ABORTED" /\ r.tx = Last.tx
<1>1. PICK i \in Unresolved :
        /\ IsLost(journal[i])
        /\ AppendRecord(journal[i].tx, "ABORTED", journal[i].prev, journal[i].index)
  BY DEF RecoverAborts
<1>2. Pending /\ journal[i] = Last /\ Last \in Record
  BY <1>1, UnresolvedIsLast, JournalShape DEF Last, Pending
<1> DEFINE r == [tx |-> Last.tx, state |-> "ABORTED", prev |-> Last.prev,
                 index |-> Last.index, token |-> token]
<1>3. r \in Record /\ r.state = "ABORTED" /\ r.tx = Last.tx
  BY <1>2 DEF TypeOK, Record
<1>4. journal' = Append(journal, r)
  BY <1>1, <1>2 DEF AppendRecord
<1> HIDE DEF r
<1> QED
  BY <1>1, <1>2, <1>3, <1>4

\* What _execute_locked appends is what it will carry through.
LEMMA PrepareAppends ==
  ASSUME TypeOK, CallInv, Prepare
  PROVE  \E r \in Record :
           /\ journal' = Append(journal, r) /\ r.state = "PREPARED"
           /\ r.tx = prep.tx /\ r.prev = prep.prev /\ r.index = prep.index
<1>1. /\ prep.tx \in Tx /\ prep.prev \in Tx \cup {None} /\ prep.index \in Index
      /\ AppendRecord(prep.tx, "PREPARED", prep.prev, prep.index)
  BY DEF Prepare, CallInv, TypeOK, Pointer
<1>2. PICK r \in Record :
        /\ journal' = Append(journal, r)
        /\ r.tx = prep.tx /\ r.state = "PREPARED" /\ r.prev = prep.prev
        /\ r.index = prep.index /\ r.token = token
  BY <1>1, AppendedRecord
<1> QED
  BY <1>2

\* A commit is recorded for the transaction that was carried through.
LEMMA FinishAppends ==
  ASSUME TypeOK, CallInv, Finish
  PROVE  \E r \in Record :
           journal' = Append(journal, r) /\ r.state = "COMMITTED" /\ r.tx = prep.tx
<1>1. /\ prep.tx \in Tx /\ prep.prev \in Tx \cup {None} /\ prep.index \in Index
      /\ AppendRecord(prep.tx, "COMMITTED", prep.prev, prep.index)
  BY DEF Finish, CallInv, TypeOK, Pointer
<1> DEFINE r == [tx |-> prep.tx, state |-> "COMMITTED", prev |-> prep.prev,
                 index |-> prep.index, token |-> token]
<1>2. r \in Record /\ r.state = "COMMITTED" /\ r.tx = prep.tx
  BY <1>1 DEF TypeOK, Record
<1>3. journal' = Append(journal, r)
  BY <1>1 DEF AppendRecord
<1> HIDE DEF r
<1> QED
  BY <1>2, <1>3

\* Only a publication, a retention or the swap touch what the pointer leads to.
LEMMA OthersKeepFiles ==
  ASSUME [Next]_vars, ~ RecoverAborts, ~ Prepare, ~ Finish, ~ PublishSnapshot,
         ~ PublishCurrent, ~ Remove
  PROVE  UNCHANGED <<journal, pointer, snapshots>>
BY DEF Next, Work, RecoverClean, RecoverContinues, RecoverRefuses, AnswerKnown, Refuse,
       Stage, PublicationFails, RetentionEnds, Retain, RecoverIfNeeded, Begin, Crash, Ask,
       Execute, Damage, vars, files, session

\* The swap makes the pending transaction current, its end makes it the head; an abort is
\* only recorded while the pointer is elsewhere.
LEMMA PointerStep ==
  ASSUME TypeOK, CallInv, RecordsInv, PointerInv, SessionInv, [Next]_vars
  PROVE  PointerInv'
<1>1. CASE RecoverAborts
  <2>1. PICK r \in Record : journal' = Append(journal, r) /\ r.state = "ABORTED"
    BY <1>1, AbortAppends
  <2>2. ~ Pending'
    BY <2>1, LastIsAppended
  <2>3. IsHead(journal, pointer.tx)
    BY <1>1, AbortAppends DEF IsLost, PointerInv
  <2>4. IsHead(journal', pointer.tx)
    BY <2>1, <2>3, HeadMoves DEF TypeOK
  <2>5. UNCHANGED <<pointer, snapshots>>
    BY <1>1 DEF RecoverAborts
  <2> QED
    BY <2>2, <2>4, <2>5 DEF PointerInv, PointerResolves
<1>2. CASE Prepare
  <2>1. PICK r \in Record :
          /\ journal' = Append(journal, r) /\ r.state = "PREPARED"
          /\ r.tx = prep.tx /\ r.prev = prep.prev /\ r.index = prep.index
    BY <1>2, PrepareAppends
  <2>2. Last' = r
    BY <2>1, LastIsAppended
  <2>3. IsHead(journal, pointer.tx) /\ prep.prev = pointer.tx
        /\ prep.index = Merged(prep.tx)
    BY <1>2 DEF Prepare, SessionInv, PointerInv
  <2>4. IsHead(journal', pointer.tx)
    BY <2>1, <2>3, HeadMoves DEF TypeOK
  <2>5. UNCHANGED <<pointer, snapshots>>
    BY <1>2 DEF Prepare
  <2> QED
    BY <2>1, <2>2, <2>3, <2>4, <2>5 DEF PointerInv, PointerResolves, Merged
<1>3. CASE Finish
  <2>1. PICK r \in Record :
          journal' = Append(journal, r) /\ r.state = "COMMITTED" /\ r.tx = prep.tx
    BY <1>3, FinishAppends
  <2>2. ~ Pending'
    BY <2>1, LastIsAppended
  <2>3. IsHead(journal', pointer.tx)
    BY <1>3, <2>1, HeadMoves DEF Finish, SessionInv, TypeOK
  <2>4. UNCHANGED <<pointer, snapshots>>
    BY <1>3 DEF Finish
  <2> QED
    BY <2>2, <2>3, <2>4 DEF PointerInv, PointerResolves
<1>4. CASE PublishSnapshot
  <2>1. UNCHANGED <<journal, pointer>> /\ prep.tx \in Tx
        /\ snapshots[prep.tx] = Absent
        /\ snapshots' = [snapshots EXCEPT ![prep.tx] = staging[prep.tx]]
    BY <1>4 DEF PublishSnapshot, CallInv
  <2>2. pointer.tx # None => pointer.tx # prep.tx
    BY <2>1, FilesAreApart DEF PointerInv, PointerResolves, TypeOK, Pointer
  <2>3. PointerResolves'
    BY <2>1, <2>2 DEF PointerInv, PointerResolves, TypeOK, Pointer
  <2> QED
    BY <2>1, <2>3 DEF PointerInv, Pending, Last, Merged
<1>5. CASE PublishCurrent
  <2>1. /\ UNCHANGED <<journal, snapshots>> /\ pointer' = [prep EXCEPT !.token = token]
        /\ Pending /\ Last.tx = prep.tx /\ Last.prev = prep.prev
        /\ snapshots[prep.tx] = prep.index
    BY <1>5 DEF PublishCurrent, SessionInv
  <2>2. pointer'.tx = prep.tx /\ pointer'.prev = prep.prev /\ pointer'.index = prep.index
    BY <2>1 DEF TypeOK, Pointer
  <2>3. Last.prev # Last.tx
    BY <2>1, PendingIsNotHead DEF PointerInv
  <2>4. Pending' /\ Last' = Last
    BY <2>1 DEF Pending, Last
  <2> QED
    BY <2>1, <2>2, <2>3, <2>4 DEF PointerInv, PointerResolves
<1>6. CASE Remove
  <2>1. PICK tx \in Expendable : snapshots' = [snapshots EXCEPT ![tx] = Absent]
    BY <1>6 DEF Remove
  <2>2. tx # pointer.tx
    BY <2>1 DEF Expendable, Kept
  <2>3. UNCHANGED <<journal, pointer>>
    BY <1>6 DEF Remove
  <2>4. PointerResolves'
    BY <2>1, <2>2, <2>3 DEF PointerInv, PointerResolves, TypeOK
  <2> QED
    BY <2>3, <2>4 DEF PointerInv, Pending, Last, Merged
<1>7. CASE UNCHANGED <<journal, pointer, snapshots>>
  BY <1>7 DEF PointerInv, PointerResolves, Pending, Last, Merged
<1> QED
  BY <1>1, <1>2, <1>3, <1>4, <1>5, <1>6, <1>7, OthersKeepFiles

\* Each session goes by what its recovery found and what it did itself: nobody else
\* touches journal, pointer and snapshots while it holds the lock, and damage to what is
\* staged is noticed when it is published.
LEMMA SessionStep ==
  ASSUME TypeOK, CallInv, RecordsInv, PointerInv, SessionInv, [Next]_vars
  PROVE  SessionInv'
<1> USE DEF files, session, Fail, Reach, Return, AfterRecovery
<1>1. CASE RecoverClean
  <2>1. ~ Pending /\ UNCHANGED journal
    BY <1>1, UnresolvedIsLast DEF RecoverClean
  <2>2. pc' \in {"free", "execute", "retain"}
    BY <1>1 DEF RecoverClean, CallInv, TypeOK
  <2> QED
    BY <2>1, <2>2 DEF SessionInv, Pending, Last
<1>2. CASE RecoverContinues
  <2>1. PICK i \in Unresolved, place \in {"publish", "point", "finish"} :
          /\ Continues(journal[i], place)
          /\ prep' = Prepared(journal[i]) /\ pc' = place
    BY <1>2 DEF RecoverContinues
  <2>2. Pending /\ journal[i] = Last
    BY <2>1, UnresolvedIsLast DEF Last
  <2>3. UNCHANGED <<journal, pointer, snapshots>>
    BY <1>2 DEF RecoverContinues
  <2>4. /\ prep'.tx = Last.tx /\ prep'.prev = Last.prev /\ prep'.index = Last.index
    BY <2>1, <2>2 DEF Prepared
  <2>5. Pending' /\ Last' = Last
    BY <2>2, <2>3 DEF Pending, Last
  <2>6. /\ place \in {"publish", "point"} => pointer.tx = Last.prev
        /\ place = "point" => snapshots[Last.tx] = Last.index
        /\ place = "finish" => pointer.tx = Last.tx
    BY <2>1, <2>2 DEF Continues
  <2> QED
    BY <2>1, <2>3, <2>4, <2>5, <2>6 DEF SessionInv
<1>3. CASE RecoverAborts
  <2>1. PICK r \in Record : journal' = Append(journal, r) /\ r.state = "ABORTED"
    BY <1>3, AbortAppends
  <2>2. ~ Pending'
    BY <2>1, LastIsAppended
  <2>3. pc' \in {"free", "execute", "retain"}
    BY <1>3 DEF RecoverAborts, CallInv, TypeOK
  <2> QED
    BY <2>2, <2>3 DEF SessionInv
<1>4. CASE RecoverRefuses \/ AnswerKnown \/ Refuse \/ PublicationFails
           \/ RetentionEnds \/ Crash
  <2>1. pc' = "free"
    BY <1>4
    DEF RecoverRefuses, AnswerKnown, Refuse, PublicationFails, RetentionEnds, Crash
  <2> QED
    BY <2>1 DEF SessionInv
<1>5. CASE Stage
  <2>1. /\ pc = "execute" /\ ~ Known(me) /\ UNCHANGED <<journal, pointer, me>>
        /\ pc' \in {"prepare", "free"}
        /\ prep' = [tx |-> me, prev |-> pointer.tx, token |-> token, index |-> Merged(me)]
    BY <1>5 DEF Stage
  <2>2. prep'.tx = me /\ prep'.prev = pointer.tx /\ prep'.index = Merged(me)
    BY <2>1
  <2>3. ~ Pending' /\ ~ Known(me)' /\ Merged(me)' = Merged(me)
    BY <2>1 DEF SessionInv, Pending, Last, Known, Merged
  <2> QED
    BY <2>1, <2>2, <2>3 DEF SessionInv, Known, Merged
<1>6. CASE Prepare
  <2>1. PICK r \in Record :
          /\ journal' = Append(journal, r) /\ r.state = "PREPARED"
          /\ r.tx = prep.tx /\ r.prev = prep.prev /\ r.index = prep.index
    BY <1>6, PrepareAppends
  <2>2. Pending' /\ Last' = r
    BY <2>1, LastIsAppended
  <2>3. /\ UNCHANGED <<pointer, snapshots, prep>> /\ pc' \in {"publish", "free"}
        /\ prep.prev = pointer.tx
    BY <1>6 DEF Prepare, SessionInv
  <2> QED
    BY <2>1, <2>2, <2>3 DEF SessionInv
<1>7. CASE PublishSnapshot
  <2>1. /\ UNCHANGED <<journal, pointer, prep>> /\ pc' \in {"point", "free"}
        /\ pc' = "point" => staging[prep.tx] = prep.index
        /\ snapshots' = [snapshots EXCEPT ![prep.tx] = staging[prep.tx]]
        /\ pc = "publish" /\ prep.tx \in Tx
    BY <1>7 DEF PublishSnapshot, CallInv
  <2>2. pc' = "point" => snapshots'[prep.tx] = prep.index
    BY <2>1 DEF TypeOK
  <2>3. /\ Pending' /\ Last' = Last
        /\ Last.tx = prep.tx /\ Last.prev = prep.prev /\ Last.index = prep.index
        /\ pointer.tx = prep.prev
    BY <2>1 DEF SessionInv, Pending, Last
  <2> QED
    BY <2>1, <2>2, <2>3 DEF SessionInv
<1>8. CASE PublishCurrent
  <2>1. /\ UNCHANGED <<journal, prep>> /\ pc' \in {"finish", "free"}
        /\ pointer' = [prep EXCEPT !.token = token] /\ pc = "point"
    BY <1>8 DEF PublishCurrent
  <2>2. pointer'.tx = prep.tx
    BY <2>1 DEF TypeOK, Pointer
  <2>3. /\ Pending' /\ Last' = Last
        /\ Last.tx = prep.tx /\ Last.prev = prep.prev /\ Last.index = prep.index
    BY <2>1 DEF SessionInv, Pending, Last
  <2> QED
    BY <2>1, <2>2, <2>3 DEF SessionInv
<1>9. CASE Finish
  <2>1. PICK r \in Record :
          journal' = Append(journal, r) /\ r.state = "COMMITTED" /\ r.tx = prep.tx
    BY <1>9, FinishAppends
  <2>2. ~ Pending'
    BY <2>1, LastIsAppended
  <2>3. pc' \in {"free", "execute", "retain"}
    BY <1>9 DEF Finish, CallInv, TypeOK
  <2> QED
    BY <2>2, <2>3 DEF SessionInv
<1>10. CASE Remove
  <2>1. pc = "retain" /\ pc' \in {"retain", "free"} /\ UNCHANGED journal
    BY <1>10 DEF Remove
  <2> QED
    BY <2>1 DEF SessionInv, Pending, Last
<1>11. ASSUME NEW what, NEW tx, Begin(what, tx)
       PROVE  SessionInv'
  <2>1. pc' = "recover"
    BY <1>11 DEF Begin
  <2> QED
    BY <2>1 DEF SessionInv
<1>12. CASE UNCHANGED <<journal, pointer, snapshots, pc, prep>>
  BY <1>12 DEF SessionInv, Pending, Last, Known, Merged
<1>13. ASSUME NEW tx \in Tx, Ask(tx) \/ Damage(tx)
       PROVE  UNCHANGED <<journal, pointer, snapshots, pc, prep>>
  BY <1>13 DEF Ask, Damage
<1> QED
  BY <1>1, <1>2, <1>3, <1>4, <1>5, <1>6, <1>7, <1>8, <1>9, <1>10, <1>11, <1>12, <1>13
  DEF Next, Work, Retain, RecoverIfNeeded, Execute, vars

-----------------------------------------------------------------------------
(* The theorems.                                                           *)

\* An empty repository has the history of no transaction.
LEMMA KnowledgeInit == Init => KnowledgeInv
<1> SUFFICES ASSUME Init PROVE KnowledgeInv
  OBVIOUS
<1>1. TypeOK /\ CallInv
  BY EmptyIsIndex
  DEF Init, TypeOK, CallInv, NoPrep, NoPointer, Places, Pointer, File
<1>2. journal = << >> /\ Len(journal) = 0 /\ ~ Pending
  BY DEF Init, Pending
<1>3. RecordsInv
  BY <1>2 DEF RecordsInv, InPairs, InOrder, IsChain
<1>4. pointer.tx = None /\ pc = "free"
  BY DEF Init, NoPointer
<1>5. IsHead(journal, pointer.tx)
  BY <1>2, <1>4 DEF IsHead, IsHeadBefore
<1> QED
  BY <1>1, <1>2, <1>3, <1>4, <1>5
  DEF KnowledgeInv, PointerInv, PointerResolves, SessionInv

\* All parts of the invariant together are inductive.
LEMMA KnowledgeStep == KnowledgeInv /\ [Next]_vars => KnowledgeInv'
BY TypeStep, RecordsStep, PointerStep, SessionStep DEF KnowledgeInv

\* What the transactions rely on when they recover, all at once.
THEOREM KnowledgeIsInductive == Spec => []KnowledgeInv
BY KnowledgeInit, KnowledgeStep, PTL DEF Spec

\* _validate_journal_history accepts every journal that its own writers leave.
LEMMA PairsAreValid ==
  ASSUME TypeOK, RecordsInv
  PROVE  JournalIsValid
<1> SUFFICES ASSUME NEW i \in DOMAIN journal
             PROVE  LET before == {j \in 1 .. i - 1 : journal[j].tx = journal[i].tx} IN
                    IF journal[i].state = "PREPARED"
                    THEN before = {}
                    ELSE \E j \in before :
                           before = {j} /\ journal[j].state = "PREPARED"
  BY DEF JournalIsValid
<1>1. i \in 1 .. Len(journal) /\ Len(journal) \in Nat
  BY JournalShape
<1>2. CASE journal[i].state = "PREPARED"
  BY <1>1, <1>2 DEF RecordsInv, InPairs
<1>3. CASE journal[i].state # "PREPARED"
  <2> DEFINE before == {j \in 1 .. i - 1 : journal[j].tx = journal[i].tx}
  <2>1. /\ i > 1 /\ journal[i - 1].state = "PREPARED"
        /\ journal[i - 1].tx = journal[i].tx
    BY <1>1, <1>3 DEF RecordsInv, InPairs
  <2>2. i - 1 \in 1 .. Len(journal) /\ i - 1 \in 1 .. i - 1
    BY <1>1, <2>1
  <2>3. \A j \in 1 .. (i - 1) - 1 : journal[j].tx # journal[i].tx
    BY <2>1, <2>2 DEF RecordsInv, InPairs
  <2>4. \A j \in 1 .. i - 1 : j = i - 1 \/ j \in 1 .. (i - 1) - 1
    BY <1>1
  <2>5. before = {i - 1}
    BY <2>1, <2>2, <2>3, <2>4
  <2> QED
    BY <1>3, <2>1, <2>5
<1> QED
  BY <1>2, <1>3

\* There is one head: the last commit.
LEMMA HeadIsLastCommit ==
  ASSUME TypeOK, NEW n \in 1 .. Len(journal) + 1, NEW head, NEW i \in Commits, i < n,
         \A j \in Commits : j < n => j <= i, IsHeadBefore(journal, n, head)
  PROVE  head = journal[i].tx
<1>1. /\ Len(journal) \in Nat /\ i \in 1 .. n - 1 /\ IsCommit(journal, i)
      /\ \A j \in 1 .. n - 1 : IsCommit(journal, j) => j <= i
  BY JournalShape DEF Commits, IsCommit
<1>2. PICK k \in 1 .. n - 1 :
        /\ IsCommit(journal, k) /\ head = journal[k].tx
        /\ \A j \in 1 .. n - 1 : IsCommit(journal, j) => j <= k
  BY <1>1 DEF IsHeadBefore
<1>3. k = i
  BY <1>1, <1>2
<1> QED
  BY <1>2, <1>3

\* Replay accepts every journal that can be found, recovery never has a choice, commits
\* form one chain, and the pointer is at its end or one swap ahead of it: whatever dies,
\* is damaged, pruned or removed, in whatever order the sessions come.
THEOREM HistoryHolds == Spec => []HistoryInv
<1>1. KnowledgeInv => HistoryInv
  <2> SUFFICES ASSUME KnowledgeInv PROVE HistoryInv
    OBVIOUS
  <2> USE DEF KnowledgeInv
  <2>1. JournalIsValid
    BY PairsAreValid
  <2>2. Cardinality(Unresolved) <= 1
    <3>1. CASE Pending
      <4>1. Unresolved = {Len(journal)}
        BY <3>1, UnresolvedIsLast
      <4>2. Cardinality({Len(journal)}) = 1
        BY FS_Singleton
      <4> QED
        BY <4>1, <4>2
    <3>2. CASE ~ Pending
      <4>1. Unresolved = {}
        BY <3>2, UnresolvedIsLast
      <4>2. Cardinality({}) = 0
        BY FS_EmptySet
      <4> QED
        BY <4>1, <4>2
    <3> QED
      BY <3>1, <3>2
  <2>3. ASSUME NEW i \in Commits, NEW j \in Commits, i < j,
               \A k \in Commits : ~ (i < k /\ k < j)
        PROVE  journal[j].prev = journal[i].tx
    <3>1. /\ i \in Nat /\ j \in 1 .. Len(journal) /\ j \in 1 .. Len(journal) + 1
          /\ IsCommit(journal, j) /\ Commits \subseteq Nat
      BY JournalShape DEF Commits, IsCommit
    <3>2. IsHeadBefore(journal, j, journal[j].prev)
      BY <3>1 DEF RecordsInv, IsChain
    <3>3. \A k \in Commits : k < j => k <= i
      BY <2>3, <3>1
    <3> QED
      BY <2>3, <3>1, <3>2, <3>3, HeadIsLastCommit
  <2>4. ASSUME NEW i \in Commits, \A j \in Commits : j <= i
        PROVE  \/ pointer.tx = journal[i].tx
               \/ /\ pointer.prev = journal[i].tx
                  /\ \E u \in Unresolved : journal[u].tx = pointer.tx
    <3>1. /\ Len(journal) + 1 \in 1 .. Len(journal) + 1 /\ i < Len(journal) + 1
          /\ \A j \in Commits : j < Len(journal) + 1 => j <= i
      BY <2>4, JournalShape DEF Commits
    <3>2. \A head : IsHead(journal, head) => head = journal[i].tx
      BY <3>1, HeadIsLastCommit DEF IsHead
    <3>3. Pending => Len(journal) \in Unresolved
      BY UnresolvedIsLast
    <3> QED
      BY <3>2, <3>3 DEF PointerInv, Last
  <2>5. ASSUME NEW i \in Commits, NEW j \in DOMAIN journal, j > i
        PROVE  journal[j].token >= journal[i].token
    <3>1. /\ i \in 1 .. Len(journal) /\ j \in 1 .. Len(journal)
          /\ journal[i].token \in Nat /\ journal[j].token \in Nat
      BY JournalShape DEF Commits, Record
    <3>2. i \in 1 .. j
      BY <2>5, <3>1
    <3> QED
      BY <3>1, <3>2 DEF RecordsInv, InOrder
  <2> QED
    BY <2>1, <2>2, <2>3, <2>4, <2>5 DEF HistoryInv, HistoryIsAChain, PointerInv
<1> QED
  BY <1>1, KnowledgeIsInductive, PTL

-----------------------------------------------------------------------------
(* Readers see the abstract knowledge base.                                *)

\* The journal's word on a transaction changes by the record that is appended only.
LEMMA JournalSays ==
  ASSUME TypeOK, NEW r \in Record, journal' = Append(journal, r), NEW tx, NEW s
  PROVE  IsIn(tx, s)' <=> IsIn(tx, s) \/ (r.tx = tx /\ r.state = s)
<1>1. /\ Len(journal) \in Nat /\ Len(journal') = Len(journal) + 1
      /\ DOMAIN journal = 1 .. Len(journal) /\ DOMAIN journal' = 1 .. Len(journal) + 1
      /\ journal'[Len(journal) + 1] = r
      /\ \A i \in 1 .. Len(journal) : journal'[i] = journal[i]
  BY Appended DEF TypeOK
<1>2. \A i : i \in 1 .. Len(journal) + 1 <=> i \in 1 .. Len(journal) \/ i = Len(journal) + 1
  BY <1>1
<1> QED
  BY Zenon, <1>1, <1>2 DEF IsIn

\* The head has been committed, if there is one.
LEMMA HeadIsCommitted ==
  ASSUME TypeOK, NEW head \in Tx, IsHead(journal, head)
  PROVE  IsIn(head, "COMMITTED")
<1>1. \E i \in DOMAIN journal : journal[i].tx = head /\ journal[i].state = "COMMITTED"
  BY NoneIsNoTx, JournalShape DEF IsHead, IsHeadBefore, IsCommit
<1> QED
  BY <1>1 DEF IsIn

\* No transaction that was aborted is current, nor was it committed.
LEMMA PendingOutcome ==
  ASSUME KnowledgeInv, Pending, pointer.tx # Last.tx
  PROVE  Last.tx \in Tx /\ Outcome(Last.tx) = "open"
<1>1. Last.tx \in Tx
  BY JournalShape DEF KnowledgeInv, Pending, Last, Record
<1> QED
  BY <1>1, PendingIsOpen DEF KnowledgeInv, Outcome

\* The swap of the pointer is the moment at which a transaction enters, whole; a record
\* ABORTED gives it up; all else, recovery included, changes nothing that readers see.
THEOREM KnowledgeImplementsBase == Spec => ImplementsKnowledgeBase
<1>1. Init => Base!BaseInit
  BY NoneIsNoTx
  DEF Init, Base!BaseInit, NoPointer, Empty, Outcome, IsIn
<1>2. KnowledgeInv /\ [Next]_vars => [Base!BaseNext]_(Base!baseVars)
  <2> SUFFICES ASSUME KnowledgeInv, [Next]_vars
               PROVE  [Base!BaseNext]_(Base!baseVars)
    OBVIOUS
  <2>0. TypeOK /\ CallInv /\ RecordsInv /\ PointerInv /\ SessionInv
    BY DEF KnowledgeInv
  <2>1. CASE RecoverAborts
    <3>1. Pending /\ IsLost(Last)
      BY <2>0, <2>1, AbortAppends
    <3>2. Last.tx \in Tx /\ Outcome(Last.tx) = "open" /\ pointer.tx # Last.tx
      BY <3>1, PendingOutcome DEF IsLost
    <3>3. PICK r \in Record :
            journal' = Append(journal, r) /\ r.state = "ABORTED" /\ r.tx = Last.tx
      BY <2>0, <2>1, AbortAppends
    <3>4. pointer' = pointer
      BY <2>1 DEF RecoverAborts
    <3>5. \A tx : /\ IsIn(tx, "ABORTED")' <=> IsIn(tx, "ABORTED") \/ tx = Last.tx
                  /\ IsIn(tx, "COMMITTED")' <=> IsIn(tx, "COMMITTED")
      BY <2>0, <3>3, JournalSays
    <3>6. \A tx \in Tx : Outcome(tx)' = IF tx = Last.tx THEN "aborted" ELSE Outcome(tx)
      BY <3>4, <3>5 DEF Outcome
    <3>7. Base!GiveUp(Last.tx)
      BY <3>2, <3>4, <3>6 DEF Base!GiveUp
    <3> QED
      BY <3>2, <3>7 DEF Base!BaseNext
  <2>2. CASE Prepare
    <3>1. PICK r \in Record : journal' = Append(journal, r) /\ r.state = "PREPARED"
      BY <2>0, <2>2, PrepareAppends
    <3>2. \A tx : /\ IsIn(tx, "ABORTED")' <=> IsIn(tx, "ABORTED")
                  /\ IsIn(tx, "COMMITTED")' <=> IsIn(tx, "COMMITTED")
      BY <2>0, <3>1, JournalSays
    <3>3. pointer' = pointer
      BY <2>2 DEF Prepare
    <3> QED
      BY <3>2, <3>3 DEF Base!baseVars, Outcome
  <2>3. CASE Finish
    <3>1. PICK r \in Record :
            journal' = Append(journal, r) /\ r.state = "COMMITTED" /\ r.tx = prep.tx
      BY <2>0, <2>3, FinishAppends
    <3>2. \A tx : /\ IsIn(tx, "ABORTED")' <=> IsIn(tx, "ABORTED")
                  /\ IsIn(tx, "COMMITTED")' <=> IsIn(tx, "COMMITTED") \/ tx = prep.tx
      BY <2>0, <3>1, JournalSays
    <3>3. pointer' = pointer /\ pointer.tx = prep.tx
      BY <2>0, <2>3 DEF Finish, SessionInv
    <3> QED
      BY <3>2, <3>3 DEF Base!baseVars, Outcome
  <2>4. CASE PublishCurrent
    <3>1. /\ UNCHANGED journal /\ pointer' = [prep EXCEPT !.token = token]
          /\ Pending /\ Last.tx = prep.tx /\ Last.prev = prep.prev
          /\ Last.index = prep.index /\ pointer.tx = prep.prev
      BY <2>0, <2>4 DEF PublishCurrent, SessionInv
    <3>2. pointer'.tx = Last.tx /\ pointer'.index = Merged(Last.tx)
      BY <2>0, <3>1 DEF TypeOK, Pointer, PointerInv
    <3>3. IsHead(journal, pointer.tx) /\ pointer.tx # Last.tx
      BY <2>0, <3>1, PendingIsNotHead DEF PointerInv
    <3>4. Last.tx \in Tx /\ Outcome(Last.tx) = "open"
      BY <3>1, <3>3, PendingOutcome
    <3>5. pointer.tx \in Tx => IsIn(pointer.tx, "COMMITTED")
      BY <2>0, <3>3, HeadIsCommitted
    <3>6. \A tx \in Tx : Outcome(tx)' = IF tx = Last.tx THEN "published" ELSE Outcome(tx)
      BY <3>1, <3>2, <3>4, <3>5 DEF Outcome, IsIn
    <3>7. Base!Put(Last.tx)
      BY <3>2, <3>4, <3>6 DEF Base!Put, Merged
    <3> QED
      BY <3>4, <3>7 DEF Base!BaseNext
  <2>5. CASE UNCHANGED <<journal, pointer>>
    BY <2>5 DEF Base!baseVars, Outcome, IsIn
  <2>6. CASE PublishSnapshot \/ Remove
    BY <2>5, <2>6 DEF PublishSnapshot, Remove
  <2> QED
    BY <2>1, <2>2, <2>3, <2>4, <2>5, <2>6, OthersKeepFiles
<1> QED
  BY <1>1, <1>2, KnowledgeIsInductive, PTL DEF Spec, ImplementsKnowledgeBase, Base!BaseSpec
=============================================================================
