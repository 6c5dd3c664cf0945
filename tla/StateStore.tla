----------------------------- MODULE StateStore -----------------------------
(***************************************************************************)
(* persistence/atomic_file.py, AtomicFileStateStorage, for one execution:  *)
(* its record, event journal and evidence manifest, and the files of its   *)
(* resume bundle with the payloads.                                        *)
(*                                                                         *)
(* A file is replaced as a whole: temporary file, flush, rename, flush of  *)
(* the directory.  An operation first recovers the files it uses: a file   *)
(* that is there wins and its abandoned temporaries are removed; otherwise *)
(* one whole temporary is promoted, and anything else is refused.  The     *)
(* process may die at any step, and with it the power may go: a directory  *)
(* then keeps what happened since its last flush, or falls back to it.     *)
(*                                                                         *)
(* All of it happens under the execution lock (module FencedLock).  The    *)
(* content of a file is the sequence of the writes it shows: events of the *)
(* journal, revisions of the record, a single write of any other file.  A  *)
(* journal without events is whole; any other file without content is torn.*)
(* Damage to a canonical file from outside is left out.                    *)
(***************************************************************************)
EXTENDS Naturals, Sequences, FiniteSets, Functions

CONSTANTS
  Event,       \* event identifiers
  Payload,     \* payloads stored after the initial input
  Absent,      \* there is no such file
  Torn,        \* a file without its whole content
  MaxOps,      \* bound: operations
  MaxFaults    \* bound: crashes, power losses and I/O errors

State == {"record", "journal", "evidence"}
BundleOrder == <<"artifact", "configuration", "input", "manifest">>
Bundle == {"artifact", "configuration", "manifest"}
File == State \cup Bundle \cup {"input"} \cup Payload

ASSUME EventsAreNat == Event \subseteq Nat
ASSUME PayloadsAreApart ==
  /\ Payload \cap (State \cup Bundle \cup {"input"}) = {}
  /\ Torn # Absent
  /\ {Torn, Absent} \cap Seq(Nat) = {}
ASSUME StoreBoundsAreNat == MaxOps \in Nat /\ MaxFaults \in Nat

VARIABLES
  file,       \* file[f]: content of the file, or Absent
  temp,       \* temp[f]: its temporary files
  durable,    \* [file, temp] as of the last flush of their directories
  directory,  \* the bundle directory exists
  pc, op,     \* the session that holds the lock: where it is, what it does
  target,     \* the file its operation is about
  arg,        \* the revision it expects, or the event it appends
  todo,       \* files it has still to recover
  queue,      \* files it has still to write, the current one first
  draft,      \* the content it is writing
  promised,   \* history: promised[f]: what was acknowledged when written
  ops, faults

disk == <<file, temp, durable, directory>>
call == <<op, target, arg>>
session == <<pc, call, todo, queue, draft>>
bounds == <<ops, faults>>
vars == <<disk, session, promised, bounds>>

Directory(f) ==
  CASE f \in State -> State [] f \in Bundle -> Bundle [] OTHER -> {"input"} \cup Payload

Init ==
  /\ file = [f \in File |-> Absent] /\ temp = [f \in File |-> {}]
  /\ durable = [file |-> file, temp |-> temp] /\ directory = FALSE
  /\ pc = "idle" /\ op = "none" /\ target = "record" /\ arg = 0
  /\ todo = << >> /\ queue = << >> /\ draft = << >>
  /\ promised = [f \in File |-> << >>]
  /\ ops = 0 /\ faults = 0

-----------------------------------------------------------------------------
(* The session.                                                            *)

Fault == faults < MaxFaults /\ faults' = faults + 1

\* The operation returns or raises: the lock is free.
Return == pc' = "idle" /\ todo' = << >> /\ queue' = << >> /\ draft' = << >>

Begin(name, f, x, recovers) ==
  /\ pc = "idle" /\ ops < MaxOps
  /\ ops' = ops + 1
  /\ op' = name /\ target' = f /\ arg' = x
  /\ todo' = recovers /\ pc' = "recover"
  /\ UNCHANGED <<disk, queue, draft, promised, faults>>

BundleFiles == <<"record", "manifest", "artifact", "configuration", "input">>

CreateBundle == Begin("bundle", "manifest", 0, <<"record">>)

\* start creates the record only after it has created the bundle.
CreateExecution ==
  promised["manifest"] # << >> /\ Begin("create", "record", 0, <<"record">>)

\* The caller brings the replacement of a revision it has read.
CompareAndSet ==
  \E expected \in 1 .. MaxOps : Begin("cas", "record", expected, <<"record">>)

AppendEvent ==
  \E e \in Event : Begin("append", "journal", e, <<"record", "journal">>)

StorePayload ==
  \E p \in Payload : Begin("store", p, 0, Append(BundleFiles, p))

PublishEvidence == Begin("store", "evidence", 0, <<"record", "evidence">>)

\* load_execution and list_executions, load_events, load_evidence_manifest,
\* load_execution_bundle, load_payload
Load ==
  \/ Begin("load", "record", 0, <<"record">>)
  \/ Begin("load", "journal", 0, <<"record", "journal">>)
  \/ Begin("load", "evidence", 0, <<"record", "evidence">>)
  \/ Begin("load", "manifest", 0, BundleFiles)
  \/ \E p \in Payload : Begin("load", p, 0, Append(BundleFiles, p))

-----------------------------------------------------------------------------
(* Recovery: _recover_record, _recover_journal, _recover_evidence_locked,  *)
(* _recover_bundle_component.                                              *)

Recovering(f) == pc = "recover" /\ todo # << >> /\ f = Head(todo)

\* A file that may be missing: it is about to be created, or is an empty journal.
MayBeMissing(f) ==
  \/ f = "record" /\ op \in {"create", "bundle"}
  \/ f = "journal"
  \/ f = target /\ op = "store"

\* The file is there, or may be missing; its temporaries are removed.
RecoverCanonical(f) ==
  /\ Recovering(f)
  /\ file[f] # Absent \/ (temp[f] = {} /\ MayBeMissing(f))
  /\ temp' = [temp EXCEPT ![f] = {}]
  /\ todo' = Tail(todo)
  /\ UNCHANGED <<file, durable, directory, pc, call, queue, draft, promised, bounds>>

\* What a recovery accepts.
Whole(f, content) == content # Torn /\ (content = << >> => f = "journal")

\* Missing, ambiguous or torn: refused, everything is left as it is.
RefuseRecovery(f) ==
  /\ Recovering(f) /\ file[f] = Absent
  /\ \/ temp[f] = {} /\ ~ MayBeMissing(f)
     \/ \E content \in temp[f] : ~ Whole(f, content)
     \/ Cardinality(temp[f]) > 1
  /\ Return
  /\ UNCHANGED <<disk, call, promised, bounds>>

\* The one whole temporary becomes the file.
Promote(f) ==
  /\ Recovering(f) /\ file[f] = Absent
  /\ \E content \in temp[f] :
       temp[f] = {content} /\ Whole(f, content) /\ file' = [file EXCEPT ![f] = content]
  /\ temp' = [temp EXCEPT ![f] = {}]
  /\ pc' = "promoted"
  /\ UNCHANGED <<durable, directory, call, todo, queue, draft, promised, bounds>>

\* _fsync_directory
FlushDirectory(f) ==
  durable' =
    [file |-> [g \in File |-> IF g \in Directory(f) THEN file[g] ELSE durable.file[g]],
     temp |-> [g \in File |-> IF g \in Directory(f) THEN temp[g] ELSE durable.temp[g]]]

FlushPromoted ==
  /\ pc = "promoted"
  /\ FlushDirectory(Head(todo))
  /\ todo' = Tail(todo) /\ pc' = "recover"
  /\ UNCHANGED <<file, temp, directory, call, queue, draft, promised, bounds>>

-----------------------------------------------------------------------------
(* The operations, once their files are recovered.                         *)

\* The writes a file shows.
Writes(content) == IF content = Absent THEN << >> ELSE content

\* The journal has the event already.
Duplicate == arg \in Range(Writes(file["journal"]))

\* Mutant of Conflict: a replacement that is behind is taken.
ConflictAhead == Len(file["record"]) < arg

\* The caller has read another revision.
Conflict == Len(file["record"]) # arg

\* A reader returns what it has recovered, and so does a writer that finds its
\* work done or its expectation wrong.
NothingToWrite ==
  \/ op = "load"
  \/ op = "create" /\ file["record"] # Absent
  \/ op = "bundle" /\ (file["record"] # Absent \/ directory)
  \/ op = "cas" /\ Conflict
  \/ op = "append" /\ Duplicate
  \/ op = "store" /\ file[target] # Absent

\* A replacement of the record is made from the revision the caller has read.
Replacement ==
  CASE op = "cas"    -> Append(SubSeq(file["record"], 1, arg), ops)
    [] op = "append" -> Append(Writes(file["journal"]), arg)
    [] OTHER         -> <<ops>>

Decided == pc = "recover" /\ todo = << >>

Answer ==
  /\ Decided /\ NothingToWrite
  /\ Return
  /\ UNCHANGED <<disk, call, promised, bounds>>

StartWriting ==
  /\ Decided /\ ~ NothingToWrite
  /\ queue' = IF op = "bundle" THEN BundleOrder ELSE <<target>>
  /\ draft' = Replacement
  /\ directory' = (directory \/ op = "bundle")
  /\ pc' = "create"
  /\ UNCHANGED <<file, durable, temp, call, todo, promised, bounds>>

-----------------------------------------------------------------------------
(* _atomic_replace_bytes.                                                  *)

Current == Head(queue)

\* Mutant of CreateTemp: the old file is removed first.
RemoveAndCreate ==
  /\ pc = "create"
  /\ file' = [file EXCEPT ![Current] = Absent]
  /\ temp' = [temp EXCEPT ![Current] = @ \cup {Torn}]
  /\ pc' = "fill"
  /\ UNCHANGED <<durable, directory, call, todo, queue, draft, promised, bounds>>

\* mkstemp, and as much of the content as a crash before fsync would leave.
CreateTemp ==
  /\ pc = "create"
  /\ \E partial \in {<< >>, Torn} : temp' = [temp EXCEPT ![Current] = @ \cup {partial}]
  /\ pc' = "fill"
  /\ UNCHANGED <<file, durable, directory, call, todo, queue, draft, promised, bounds>>

\* write, flush and fsync of the temporary
FillTemp ==
  /\ pc = "fill"
  /\ temp' = [temp EXCEPT ![Current] = (@ \ {<< >>, Torn}) \cup {draft}]
  /\ pc' = "replace"
  /\ UNCHANGED <<file, durable, directory, call, todo, queue, draft, promised, bounds>>

\* os.replace
Replace ==
  /\ pc = "replace"
  /\ file' = [file EXCEPT ![Current] = draft]
  /\ temp' = [temp EXCEPT ![Current] = @ \ {draft}]
  /\ pc' = "flush"
  /\ UNCHANGED <<durable, directory, call, todo, queue, draft, promised, bounds>>

\* The last step of a write, and of the operation unless it has another file.
Flush ==
  /\ pc = "flush"
  /\ FlushDirectory(Current)
  /\ promised' = [promised EXCEPT ![Current] = file[Current]]
  /\ IF Len(queue) > 1
     THEN queue' = Tail(queue) /\ pc' = "create" /\ UNCHANGED <<todo, draft>>
     ELSE Return
  /\ UNCHANGED <<file, temp, directory, call, bounds>>

\* An I/O error: the temporary is removed; what was renamed stays renamed.
WriteFails ==
  /\ pc \in {"create", "fill", "replace", "flush", "promoted"}
  /\ Fault
  /\ temp' = IF pc \in {"fill", "replace"}
             THEN [temp EXCEPT ![Current] = @ \ {<< >>, Torn, draft}] ELSE temp
  /\ Return
  /\ UNCHANGED <<file, durable, directory, call, promised, ops>>

-----------------------------------------------------------------------------
(* Faults.                                                                 *)

Crash ==
  /\ pc # "idle"
  /\ Fault
  /\ Return
  /\ UNCHANGED <<disk, call, promised, ops>>

\* The new directory of a bundle itself lasts only once something in it does.
BundleIsSomewhere(files, temps) ==
  \E f \in File \ State : files[f] # Absent \/ temps[f] # {}

\* The directories in fallen go back to their last flush.
PowerLoss ==
  /\ Fault
  /\ Return
  /\ \E fallen \in SUBSET {Directory(f) : f \in File} :
       LET Left(now, before) ==
             [f \in File |-> IF Directory(f) \in fallen THEN before[f] ELSE now[f]] IN
       /\ file' = Left(file, durable.file)
       /\ temp' = Left(temp, durable.temp)
  /\ durable' = [file |-> file', temp |-> temp']
  /\ directory' \in {d \in {directory, FALSE} : BundleIsSomewhere(file', temp') => d}
  /\ UNCHANGED <<call, promised, ops>>

-----------------------------------------------------------------------------
Recover ==
  \/ \E f \in File : RecoverCanonical(f) \/ RefuseRecovery(f) \/ Promote(f)
  \/ FlushPromoted

Operate == Answer \/ StartWriting \/ CreateTemp \/ FillTemp \/ Replace \/ Flush

Call ==
  \/ CreateBundle \/ CreateExecution \/ CompareAndSet \/ AppendEvent
  \/ StorePayload \/ PublishEvidence \/ Load

Next == Call \/ Recover \/ Operate \/ WriteFails \/ Crash \/ PowerLoss

Spec == Init /\ [][Next]_vars

-----------------------------------------------------------------------------
(* Properties.                                                             *)

Content == Seq(Nat)
OnDisk == [File -> Content \cup {Absent}]
Temporaries == [File -> SUBSET (Content \cup {Torn})]

TypeOK ==
  /\ file \in OnDisk /\ temp \in Temporaries
  /\ durable \in [file : OnDisk, temp : Temporaries]
  /\ directory \in BOOLEAN
  /\ pc \in {"idle", "recover", "promoted", "create", "fill", "replace", "flush"}
  /\ op \in {"none", "bundle", "create", "cas", "append", "store", "load"}
  /\ target \in File /\ arg \in Nat
  /\ todo \in Seq(File) /\ queue \in Seq(File) /\ draft \in Content
  /\ promised \in [File -> Content]
  /\ ops \in Nat /\ faults \in Nat

\* What whoever opens the file next will find: the file, or the temporary that
\* its recovery will promote.
Shown(f) ==
  IF file[f] = Absent /\ \E content \in temp[f] : temp[f] = {content} /\ Whole(f, content)
  THEN CHOOSE content \in temp[f] : TRUE ELSE Writes(file[f])

Promises == INSTANCE StoredFiles WITH shown <- [f \in File |-> Shown(f)]

\* Files grow by whole writes and lose nothing that was acknowledged.
KeepsPromises == Promises!StoredSpec

\* A crash never leaves a second candidate: the refusal of ambiguous
\* temporaries is never for anything this code did itself.
OneCandidate == \A f \in File : Cardinality(temp[f]) <= 1

\* An execution that has a record has a whole bundle, whatever was lost.
RecordHasBundle ==
  Shown("record") # << >> =>
    \A f \in Bundle \cup {"input"} : Shown(f) # << >>

\* An event repeated after a failure that landed is not there twice.
EventsAreUnique ==
  \A i, j \in DOMAIN Shown("journal") :
    Shown("journal")[i] = Shown("journal")[j] => i = j

\* An execution whose recovery is refused had nothing in that file to lose.
RefusalLosesNothing ==
  \A f \in File :
    /\ file[f] = Absent
    /\ Cardinality(temp[f]) > 1 \/ \E content \in temp[f] : ~ Whole(f, content)
    => promised[f] = << >>

\* What the files look like at any time: temporaries that can be told apart, a bundle
\* under every record, no event twice, and nothing acknowledged where recovery refuses.
StoreInv ==
  TypeOK /\ OneCandidate /\ RecordHasBundle /\ EventsAreUnique /\ RefusalLosesNothing
=============================================================================
