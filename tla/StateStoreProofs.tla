-------------------------- MODULE StateStoreProofs --------------------------
(***************************************************************************)
(* Theorems about StateStore, for every set of events and payloads and any *)
(* number of operations and faults.                                        *)
(*                                                                         *)
(* StoreIInv relates three versions of a file: what was promised, what the *)
(* directory keeps at a power loss, and what is there now.  Each is a      *)
(* prefix of the next, and whatever a session has written of a file is one *)
(* write longer than what it found.                                        *)
(***************************************************************************)
EXTENDS StateStore, SequenceTheorems, FiniteSetTheorems, TLAPS

Writing == {"create", "fill", "replace", "flush"}
Writers == {"create", "cas", "append", "store"}

Below(s, t) == Len(s) <= Len(t) /\ \A i \in 1 .. Len(s) : s[i] = t[i]

\* What a file and its temporaries show: Shown, of any version of them.
ShownOf(content, temps, f) ==
  IF content = Absent /\ \E c \in temps : temps = {c} /\ Whole(f, c)
  THEN CHOOSE c \in temps : TRUE ELSE Writes(content)

ShownDurable(f) == ShownOf(durable.file[f], durable.temp[f], f)

AtMostOne(temps) == temps = {} \/ \E c \in temps : temps = {c}

Unique(s) == \A i, j \in DOMAIN s : s[i] = s[j] => i = j

\* What an operation is about.
CallInv ==
  /\ pc # "idle" => op # "none"
  /\ op \in {"create", "cas"} => target = "record"
  /\ op = "append" => target = "journal"
  /\ op = "store" => target \in Payload \cup {"evidence"}
  /\ op = "create" => promised["manifest"] # << >>

Pending(f) == \E i \in DOMAIN todo : todo[i] = f

\* What an operation needs is still to be recovered, or was.
RecoverInv ==
  /\ pc \in {"recover", "promoted"} =>
       /\ op \in Writers => Pending(target) \/ temp[target] = {}
       /\ op = "cas" => Pending("record") \/ file["record"] # Absent
       /\ op = "store" /\ target \in Payload =>
            Pending("manifest") \/ file["manifest"] # Absent
  /\ pc = "promoted" =>
       todo # << >> /\ file[Head(todo)] # Absent /\ temp[Head(todo)] = {}

Rests == {<<"artifact", "configuration", "input", "manifest">>,
          <<"configuration", "input", "manifest">>, <<"input", "manifest">>, <<"manifest">>}

\* The file being written and those after it.
WriteInv ==
  pc \in Writing =>
    /\ \/ queue = <<target>> /\ op \in Writers
       \/ queue \in Rests /\ op = "bundle"
    /\ \A i \in 2 .. Len(queue) : file[queue[i]] = Absent /\ temp[queue[i]] = {}
    /\ draft # << >> /\ (op = "bundle" => Len(draft) = 1)
    /\ Current \in {"artifact", "configuration", "input", "manifest"} \cup Payload => directory
    /\ pc = "create" => temp[Current] = {}
    /\ pc = "fill" => temp[Current] = {<< >>} \/ temp[Current] = {Torn}
    /\ pc = "replace" => temp[Current] = {draft}
    /\ pc = "flush" => temp[Current] = {} /\ file[Current] = draft
    /\ pc # "flush" =>
         /\ Below(Writes(file[Current]), draft)
         /\ Len(draft) = Len(Writes(file[Current])) + 1
         /\ Below(ShownDurable(Current), Writes(file[Current]))
    /\ Current = "journal" => Unique(draft)

\* Three versions of a file.
DiskInv ==
  /\ \A f \in File : AtMostOne(temp[f]) /\ AtMostOne(durable.temp[f])
  /\ \A f \in File : Below(promised[f], Writes(durable.file[f]))
  /\ \A f \in File : Below(promised[f], Writes(file[f]))
  /\ \A f \in File : Below(ShownDurable(f), Shown(f))
  /\ BundleIsSomewhere(file, temp) => directory
  /\ BundleIsSomewhere(durable.file, durable.temp) => directory

\* What the contents say of one another.
ContentInv ==
  /\ \A c \in temp["journal"] \cup durable.temp["journal"]
             \cup {file["journal"], durable.file["journal"]} :
       c \in Content => Unique(c)
  /\ \/ file["record"] # Absent \/ temp["record"] # {}
     \/ durable.file["record"] # Absent \/ durable.temp["record"] # {}
     \/ pc \in Writing /\ Current = "record"
     => promised["manifest"] # << >>
  /\ promised["manifest"] # << >> => promised["input"] # << >>
  /\ promised["input"] # << >> => promised["configuration"] # << >>
  /\ promised["configuration"] # << >> => promised["artifact"] # << >>
  /\ pc \in Writing /\ op = "bundle" =>
       /\ Current = "configuration" => promised["artifact"] # << >>
       /\ Current = "input" => promised["configuration"] # << >>
       /\ Current = "manifest" => promised["input"] # << >>

StoreIInv == TypeOK /\ CallInv /\ RecoverInv /\ WriteInv /\ DiskInv /\ ContentInv
-----------------------------------------------------------------------------
(* Prefixes.                                                               *)

\* Below is a partial order whose least element is the empty content.
LEMMA BelowFacts ==
  ASSUME NEW s \in Content, NEW t \in Content, NEW u \in Content
  PROVE  /\ Below(s, s) /\ Below(<< >>, s)
         /\ Below(s, t) /\ Below(t, u) => Below(s, u)
         /\ Below(s, << >>) => s = << >>
         /\ t = << >> /\ Below(s, t) => s = << >>
<1>1. Len(s) \in Nat /\ Len(t) \in Nat /\ Len(u) \in Nat
  BY LenProperties DEF Content
<1>2. Below(s, << >>) => s = << >>
  BY <1>1, EmptySeq, SMT DEF Below, Content
<1> QED
  BY <1>1, <1>2, SMT DEF Below

\* Append, position by position.
LEMMA AppendFacts ==
  ASSUME NEW S, NEW s \in Seq(S), NEW e \in S
  PROVE  /\ Append(s, e) \in Seq(S) /\ Len(Append(s, e)) = Len(s) + 1
         /\ DOMAIN Append(s, e) = 1 .. Len(s) + 1 /\ DOMAIN s = 1 .. Len(s)
         /\ Len(s) \in Nat
         /\ \A i \in 1 .. Len(s) : Append(s, e)[i] = s[i]
         /\ Append(s, e)[Len(s) + 1] = e
  BY SMT

\* A write is one longer than what it replaces.
LEMMA AppendIsAbove ==
  ASSUME NEW s \in Content, NEW n \in Nat
  PROVE  /\ Append(s, n) \in Content /\ Append(s, n) # << >>
         /\ Below(s, Append(s, n)) /\ Len(Append(s, n)) = Len(s) + 1
         /\ Unique(s) /\ n \notin Range(s) => Unique(Append(s, n))
<1>1. /\ Append(s, n) \in Content /\ Len(Append(s, n)) = Len(s) + 1
      /\ DOMAIN Append(s, n) = 1 .. Len(s) + 1 /\ DOMAIN s = 1 .. Len(s)
      /\ Len(s) \in Nat
      /\ \A i \in 1 .. Len(s) : Append(s, n)[i] = s[i]
      /\ Append(s, n)[Len(s) + 1] = n
  BY AppendFacts DEF Content
<1>2. Append(s, n) # << >>
  BY <1>1, SMT
<1>3. Below(s, Append(s, n))
  BY <1>1, SMT DEF Below
<1>4. ASSUME Unique(s), n \notin Range(s) PROVE Unique(Append(s, n))
  <2>1. \A i \in 1 .. Len(s) : s[i] # n
    BY <1>1, <1>4 DEF Range
  <2> QED
    BY <1>1, <1>4, <2>1, SMT DEF Unique
<1> QED
  BY <1>1, <1>2, <1>3, <1>4

\* What is shown, case by case.
LEMMA ShownFacts ==
  ASSUME NEW content, NEW temps, NEW f \in File
  PROVE  /\ content # Absent => ShownOf(content, temps, f) = content
         /\ temps = {} => ShownOf(content, temps, f) = Writes(content)
         /\ \A c : temps = {c} /\ content = Absent /\ Whole(f, c) =>
                     ShownOf(content, temps, f) = c
         /\ \A c : temps = {c} /\ ~ Whole(f, c) =>
                     ShownOf(content, temps, f) = Writes(content)
  BY DEF ShownOf, Writes

\* What the next reader is shown, written over the versions on disk.
LEMMA ShownIsShownOf ==
  \A f \in File : /\ Shown(f) = ShownOf(file[f], temp[f], f)
                  /\ ShownDurable(f) = ShownOf(durable.file[f], durable.temp[f], f)
  BY DEF Shown, ShownOf, ShownDurable

\* Contents and what is shown of them are sequences of writes.
LEMMA ShownTypes ==
  ASSUME NEW content \in Content \cup {Absent}, NEW temps \in SUBSET (Content \cup {Torn}),
         NEW f \in File
  PROVE  /\ Writes(content) \in Content /\ ShownOf(content, temps, f) \in Content
         /\ content # Absent => Writes(content) = content
         /\ Writes(Absent) = << >>
<1>1. << >> \in Content
  BY EmptySeq DEF Content
<1>2. Writes(content) \in Content /\ (content # Absent => Writes(content) = content)
      /\ Writes(Absent) = << >>
  BY <1>1 DEF Writes
<1>3. CASE content = Absent /\ \E c \in temps : temps = {c} /\ Whole(f, c)
  <2>1. PICK c \in temps : temps = {c} /\ Whole(f, c)
    BY <1>3
  <2>2. ShownOf(content, temps, f) = c
    BY <1>3, <2>1, ShownFacts
  <2> QED
    BY <1>2, <2>1, <2>2 DEF Whole
<1>4. CASE ~ (content = Absent /\ \E c \in temps : temps = {c} /\ Whole(f, c))
  BY <1>2, <1>4 DEF ShownOf
<1> QED
  BY <1>2, <1>3, <1>4
-----------------------------------------------------------------------------
(* Types.                                                                  *)

\* A call chooses its operation and the files it recovers; nothing else changes.
CallEffect ==
  /\ pc = "idle" /\ pc' = "recover"
  /\ UNCHANGED <<disk, queue, draft, promised, faults>>
  /\ ops' \in Nat /\ arg' \in Nat /\ target' \in File /\ todo' \in Seq(File)
  /\ op' \in {"bundle", "create", "cas", "append", "store", "load"}
  /\ op' \in {"create", "cas"} => target' = "record"
  /\ op' = "append" => target' = "journal"
  /\ op' = "store" => target' \in Payload \cup {"evidence"}
  /\ op' = "create" => promised["manifest"] # << >>
  /\ op' \in Writers => \E i \in DOMAIN todo' : todo'[i] = target'
  /\ op' = "cas" => \E i \in DOMAIN todo' : todo'[i] = "record"
  /\ op' = "store" /\ target' \in Payload =>
       \E i \in DOMAIN todo' : todo'[i] = "manifest"

\* Every call of the store begins with a free session and its target.
LEMMA CallsAreCalls == TypeOK /\ Call => CallEffect
<1> SUFFICES ASSUME TypeOK, Call PROVE CallEffect
  OBVIOUS
<1> USE DEF CallEffect, Begin, Writers
<1>1. ops + 1 \in Nat
  BY DEF TypeOK
<1>2. ASSUME NEW f \in File
      PROVE  /\ <<f>> \in Seq(File) /\ 1 \in DOMAIN <<f>> /\ <<f>>[1] = f
             /\ <<"record", f>> \in Seq(File)
             /\ 2 \in DOMAIN <<"record", f>> /\ <<"record", f>>[2] = f
             /\ Append(BundleFiles, f) \in Seq(File)
             /\ 2 \in DOMAIN Append(BundleFiles, f)
             /\ Append(BundleFiles, f)[2] = "manifest"
             /\ 6 \in DOMAIN Append(BundleFiles, f)
             /\ Append(BundleFiles, f)[6] = f
  <2>1. "record" \in File
    BY DEF File, State
  <2>2. /\ BundleFiles \in Seq(File) /\ Len(BundleFiles) = 5
        /\ BundleFiles[2] = "manifest"
    BY DEF BundleFiles, File, State, Bundle
  <2>3. /\ Append(BundleFiles, f) \in Seq(File)
        /\ DOMAIN Append(BundleFiles, f) = 1 .. 6
        /\ Append(BundleFiles, f)[2] = "manifest"
        /\ Append(BundleFiles, f)[6] = f
    <3>1. ASSUME NEW q \in Seq(File), Len(q) = 5
          PROVE  /\ Append(q, f) \in Seq(File) /\ DOMAIN Append(q, f) = 1 .. 6
                 /\ Append(q, f)[2] = q[2] /\ Append(q, f)[6] = f
      <4>1. /\ Append(q, f) \in Seq(File)
            /\ DOMAIN Append(q, f) = 1 .. Len(q) + 1
            /\ \A i \in 1 .. Len(q) : Append(q, f)[i] = q[i]
            /\ Append(q, f)[Len(q) + 1] = f
        BY AppendFacts
      <4>2. 2 \in 1 .. Len(q) /\ Len(q) + 1 = 6
        BY <3>1
      <4> QED
        BY <4>1, <4>2
    <3> QED
      BY <2>2, <3>1
  <2> QED
    BY <2>1, <2>3
<1>3. {"record", "journal", "evidence", "manifest"} \subseteq File /\ Payload \subseteq File
  BY DEF File, State, Bundle
<1>4. BundleFiles \in Seq(File)
  BY DEF BundleFiles, File, State, Bundle
<1>5. CASE CreateBundle
  BY <1>1, <1>2, <1>3, <1>5 DEF CreateBundle
<1>6. CASE CreateExecution
  BY <1>1, <1>2, <1>3, <1>6 DEF CreateExecution
<1>7. CASE CompareAndSet
  BY <1>1, <1>2, <1>3, <1>7, StoreBoundsAreNat DEF CompareAndSet
<1>8. CASE AppendEvent
  BY <1>1, <1>2, <1>3, <1>8, EventsAreNat DEF AppendEvent
<1>9. CASE StorePayload
  BY <1>1, <1>2, <1>3, <1>9 DEF StorePayload
<1>10. CASE PublishEvidence
  BY <1>1, <1>2, <1>3, <1>10, PayloadsAreApart DEF PublishEvidence, State
<1>11. CASE Load
  <2>1. CASE Begin("load", "record", 0, <<"record">>)
    BY <1>1, <1>2, <1>3, <2>1
  <2>2. CASE Begin("load", "journal", 0, <<"record", "journal">>)
    BY <1>1, <1>2, <1>3, <2>2
  <2>3. CASE Begin("load", "evidence", 0, <<"record", "evidence">>)
    BY <1>1, <1>2, <1>3, <2>3
  <2>4. CASE Begin("load", "manifest", 0, BundleFiles)
    BY <1>1, <1>3, <1>4, <2>4
  <2>5. ASSUME NEW p \in Payload, Begin("load", p, 0, Append(BundleFiles, p))
        PROVE  CallEffect
    BY <1>1, <1>2, <1>3, <2>5
  <2> QED
    BY <1>11, <2>1, <2>2, <2>3, <2>4, <2>5 DEF Load
<1> QED
  BY <1>5, <1>6, <1>7, <1>8, <1>9, <1>10, <1>11 DEF Call

\* A queue that is not empty.
LEMMA QueueFacts ==
  ASSUME NEW q \in Seq(File), q # << >>
  PROVE  /\ Head(q) \in File /\ Head(q) = q[1] /\ Tail(q) \in Seq(File)
         /\ DOMAIN q = 1 .. Len(q) /\ Len(q) \in Nat \ {0}
         /\ DOMAIN Tail(q) = 1 .. Len(q) - 1 /\ Len(Tail(q)) = Len(q) - 1
         /\ \A i \in 1 .. Len(q) - 1 : Tail(q)[i] = q[i + 1]
         /\ \A i \in DOMAIN q : i = 1 \/ (i - 1 \in DOMAIN Tail(q) /\ Tail(q)[i - 1] = q[i])
<1>1. Len(q) \in Nat \ {0} /\ DOMAIN q = 1 .. Len(q)
  BY EmptySeq, LenProperties
<1>2. /\ Head(q) \in File /\ Tail(q) \in Seq(File) /\ Len(Tail(q)) = Len(q) - 1
      /\ \A i \in 1 .. Len(Tail(q)) : Tail(q)[i] = q[i + 1]
  BY HeadTailProperties
<1>3. DOMAIN Tail(q) = 1 .. Len(Tail(q))
  BY <1>2, LenProperties
<1>4. Head(q) = q[1]
  BY <1>1, SMT
<1> QED
  BY <1>1, <1>2, <1>3, <1>4, SMT

\* The draft of a session is one write on top of what its file has.
LEMMA DraftIsNext ==
  ASSUME TypeOK, CallInv, RecoverInv, StartWriting
  PROVE  /\ op \in Writers \cup {"bundle"}
         /\ draft' \in Content /\ draft' # << >>
         /\ op \in Writers =>
              /\ Below(Writes(file[target]), draft')
              /\ Len(draft') = Len(Writes(file[target])) + 1
         /\ op = "bundle" =>
              /\ file["record"] = Absent /\ ~ directory
              /\ Len(draft') = 1
         /\ op = "append" => (Unique(Writes(file["journal"])) => Unique(draft'))
<1> USE DEF TypeOK, StartWriting, Decided
<1>1. /\ op \in Writers \cup {"bundle"} /\ ~ NothingToWrite
      /\ pc = "recover" /\ todo = << >> /\ draft' = Replacement
  BY DEF CallInv, NothingToWrite, Writers
<1>2. \A f \in File : /\ Writes(file[f]) \in Content
                      /\ file[f] # Absent => Writes(file[f]) = file[f]
                      /\ file[f] = Absent => Writes(file[f]) = << >>
  BY ShownTypes DEF OnDisk, Temporaries
<1>3. <<ops>> \in Content /\ <<ops>> # << >> /\ Len(<<ops>>) = 1 /\ Below(<< >>, <<ops>>)
  BY DEF Content, Below
<1>4. {"record", "journal"} \subseteq File
  BY DEF File, State
<1>5. CASE op = "cas"
  <2>1. target = "record" /\ file["record"] # Absent
    BY <1>1, <1>5 DEF CallInv, RecoverInv, Pending
  <2>2. file["record"] \in Seq(Nat) /\ arg = Len(file["record"])
    BY <1>1, <1>4, <1>5, <2>1 DEF NothingToWrite, Conflict, OnDisk, Content
  <2>3. draft' = Append(file["record"], ops)
    <3>1. SubSeq(file["record"], 1, arg) = file["record"]
      BY <2>2, SubSeqFull
    <3> QED
      BY <1>1, <1>5, <3>1 DEF Replacement
  <2> QED
    BY <1>2, <1>4, <1>5, <2>1, <2>2, <2>3, AppendIsAbove DEF Content, Writers
<1>6. CASE op = "append"
  <2>1. target = "journal" /\ draft' = Append(Writes(file["journal"]), arg)
    BY <1>1, <1>6 DEF CallInv, Replacement
  <2>2. arg \notin Range(Writes(file["journal"]))
    BY <1>1, <1>6 DEF NothingToWrite, Duplicate
  <2> QED
    BY <1>1, <1>2, <1>4, <1>6, <2>1, <2>2, AppendIsAbove DEF Writers
<1>7. CASE op \in {"create", "store"}
  <2>1. draft' = <<ops>>
    BY <1>1, <1>7 DEF Replacement
  <2>2. file[target] = Absent
    BY <1>1, <1>7 DEF CallInv, NothingToWrite
  <2> QED
    BY <1>1, <1>2, <1>3, <1>7, <2>1, <2>2
<1>8. CASE op = "bundle"
  <2>1. draft' = <<ops>>
    BY <1>1, <1>8 DEF Replacement
  <2> QED
    BY <1>1, <1>3, <1>8, <2>1 DEF NothingToWrite, Writers
<1> QED
  BY <1>1, <1>5, <1>6, <1>7, <1>8 DEF Writers

\* The files of a bundle that are still to be written: one after the other.
LEMMA RestFacts ==
  ASSUME NEW q \in Rests
  PROVE  /\ q \in Seq(File) /\ q # << >>
         /\ Len(q) > 1 => Tail(q) \in Rests
         /\ Head(q) \in Bundle \cup {"input"}
         /\ \A i \in DOMAIN q : q[i] \in Bundle \cup {"input"} /\ (i # 1 => q[i] # Head(q))
         /\ Head(q) = "artifact" => Head(Tail(q)) = "configuration"
         /\ Head(q) = "configuration" => Head(Tail(q)) = "input"
         /\ Head(q) = "input" => Head(Tail(q)) = "manifest"
         /\ Head(q) = "manifest" => Len(q) = 1
<1> USE DEF Rests, Bundle, File
<1>1. CASE q = <<"artifact", "configuration", "input", "manifest">>
  BY <1>1
<1>2. CASE q = <<"configuration", "input", "manifest">>
  BY <1>2
<1>3. CASE q = <<"input", "manifest">>
  BY <1>3
<1>4. CASE q = <<"manifest">>
  BY <1>4
<1> QED
  BY <1>1, <1>2, <1>3, <1>4

\* A session that is writing has a file to write and contents for it.
LEMMA QueueIsThere ==
  ASSUME TypeOK, WriteInv, pc \in Writing
  PROVE  queue # << >> /\ draft \in Content
<1>1. CASE queue = <<target>>
  BY <1>1 DEF TypeOK
<1>2. CASE queue \in Rests
  BY <1>2, RestFacts DEF TypeOK
<1> QED
  BY <1>1, <1>2 DEF WriteInv

\* Every step keeps the types.
LEMMA TypeOKStep ==
  ASSUME TypeOK, CallInv, RecoverInv, WriteInv, [Next]_vars
  PROVE  TypeOK'
<1> USE DEF TypeOK, disk, call, bounds, session
<1>1. << >> \in Seq(File) /\ << >> \in Content
  BY EmptySeq DEF Content
<1>2. ASSUME Return PROVE pc' = "idle" /\ todo' \in Seq(File) /\ queue' \in Seq(File)
                          /\ draft' \in Content
  BY <1>1, <1>2 DEF Return
<1>3. ASSUME NEW f \in File, FlushDirectory(f)
      PROVE  durable' \in [file : OnDisk, temp : Temporaries]
  <2>1. \A g \in File : /\ file[g] \in Content \cup {Absent}
                        /\ durable.file[g] \in Content \cup {Absent}
                        /\ temp[g] \in SUBSET (Content \cup {Torn})
                        /\ durable.temp[g] \in SUBSET (Content \cup {Torn})
    BY DEF OnDisk, Temporaries
  <2>2. [g \in File |-> IF g \in Directory(f) THEN file[g] ELSE durable.file[g]] \in OnDisk
    BY <2>1, Zenon DEF OnDisk
  <2>3. [g \in File |-> IF g \in Directory(f) THEN temp[g] ELSE durable.temp[g]]
          \in Temporaries
    BY <2>1, Zenon DEF Temporaries
  <2> QED
    BY <1>3, <2>2, <2>3, Zenon DEF FlushDirectory
<1>4. todo # << >> => Head(todo) \in File /\ Tail(todo) \in Seq(File)
  BY QueueFacts
<1>5. queue # << >> => Current \in File /\ Tail(queue) \in Seq(File)
  BY QueueFacts DEF Current
<1>6. Fault => faults' \in Nat
  BY DEF Fault
<1>7. pc \in Writing => queue # << >> /\ draft \in Content
  BY QueueIsThere
<1>8. CASE Call
  BY <1>8, CallsAreCalls DEF CallEffect
<1>9. ASSUME NEW f \in File, RecoverCanonical(f) PROVE TypeOK'
  BY <1>4, <1>9 DEF RecoverCanonical, Recovering, Temporaries
<1>10. ASSUME NEW f \in File, RefuseRecovery(f) PROVE TypeOK'
  BY <1>2, <1>10 DEF RefuseRecovery
<1>11. ASSUME NEW f \in File, Promote(f) PROVE TypeOK'
  <2>1. file' \in OnDisk
    BY <1>11 DEF Promote, OnDisk, Temporaries, Whole
  <2>2. temp' \in Temporaries
    BY <1>11 DEF Promote, Temporaries
  <2> QED
    BY <1>11, <2>1, <2>2 DEF Promote
<1>12. CASE FlushPromoted
  <2>1. Head(todo) \in File /\ Tail(todo) \in Seq(File)
    BY <1>4, <1>12 DEF FlushPromoted, RecoverInv
  <2> QED
    BY <1>3, <1>12, <2>1 DEF FlushPromoted
<1>13. CASE Answer
  BY <1>2, <1>13 DEF Answer
<1>14. CASE StartWriting
  <2>1. draft' \in Content
    BY <1>14, DraftIsNext
  <2>2. queue' \in Seq(File)
    <3>1. BundleOrder \in Seq(File)
      BY DEF BundleOrder, File, Bundle
    <3> QED
      BY <1>14, <3>1 DEF StartWriting
  <2> QED
    BY <1>14, <2>1, <2>2 DEF StartWriting
<1>15. CASE CreateTemp
  <2>1. Current \in File
    BY <1>5, <1>7, <1>15 DEF CreateTemp, Writing
  <2>2. temp' \in Temporaries
    BY <1>1, <1>15, <2>1 DEF CreateTemp, Temporaries
  <2> QED
    BY <1>15, <2>2 DEF CreateTemp
<1>16. CASE FillTemp
  <2>1. Current \in File
    BY <1>5, <1>7, <1>16 DEF FillTemp, Writing
  <2>2. temp' \in Temporaries
    BY <1>7, <1>16, <2>1 DEF FillTemp, Temporaries
  <2> QED
    BY <1>16, <2>2 DEF FillTemp
<1>17. CASE Replace
  <2>1. Current \in File
    BY <1>5, <1>7, <1>17 DEF Replace, Writing
  <2>2. temp' \in Temporaries
    BY <1>17, <2>1 DEF Replace, Temporaries
  <2>3. file' \in OnDisk
    BY <1>7, <1>17, <2>1 DEF Replace, OnDisk
  <2> QED
    BY <1>17, <2>2, <2>3 DEF Replace
<1>18. CASE Flush
  <2>1. Current \in File /\ Tail(queue) \in Seq(File)
    BY <1>5, <1>7, <1>18 DEF Flush, Writing
  <2>2. file[Current] \in Content
    BY <1>18, <1>7 DEF Flush, WriteInv, Writing
  <2>3. promised' \in [File -> Content]
    BY <1>18, <2>1, <2>2 DEF Flush
  <2> QED
    BY <1>2, <1>3, <1>18, <2>1, <2>3 DEF Flush
<1>19. CASE WriteFails
  <2>1. temp' \in Temporaries
    <3>1. pc \in {"fill", "replace"} => Current \in File
      BY <1>5, <1>7 DEF Writing
    <3> QED
      BY <1>19, <3>1 DEF WriteFails, Temporaries
  <2> QED
    BY <1>2, <1>6, <1>19, <2>1 DEF WriteFails
<1>20. CASE Crash
  BY <1>2, <1>6, <1>20 DEF Crash
<1>21. CASE PowerLoss
  <2>1. file' \in OnDisk /\ temp' \in Temporaries
    BY <1>21 DEF PowerLoss, OnDisk, Temporaries
  <2> QED
    BY <1>2, <1>6, <1>21, <2>1 DEF PowerLoss
<1>22. CASE UNCHANGED vars
  BY <1>22 DEF vars
<1> QED
  BY <1>8, <1>9, <1>10, <1>11, <1>12, <1>13, <1>14, <1>15, <1>16, <1>17, <1>18, <1>19,
     <1>20, <1>21, <1>22 DEF Next, Recover, Operate

-----------------------------------------------------------------------------
(* Operations and recovery.                                                *)

\* Nothing that was promised is forgotten.
LEMMA PromisesStay ==
  ASSUME TypeOK, WriteInv, [Next]_vars
  PROVE  \A f \in File : promised[f] # << >> => promised'[f] # << >>
<1>1. CASE Flush
  <2>1. Current \in File /\ file[Current] # << >>
    BY <1>1, QueueIsThere, QueueFacts DEF Flush, WriteInv, Writing, TypeOK, Current
  <2> QED
    BY <1>1, <2>1 DEF Flush, TypeOK
<1>2. CASE ~ Flush
  <2>1. UNCHANGED promised
    BY <1>2, CallsAreCalls DEF CallEffect, Next, Recover, Operate, RecoverCanonical,
       RefuseRecovery, Promote, FlushPromoted, Answer, StartWriting, CreateTemp, FillTemp,
       Replace, WriteFails, Crash, PowerLoss, vars
  <2> QED
    BY <2>1
<1> QED
  BY <1>1, <1>2

\* Every step keeps what a session knows of its own operation.
LEMMA CallInvStep ==
  ASSUME TypeOK, CallInv, WriteInv, [Next]_vars
  PROVE  CallInv'
<1>1. CASE Call
  BY <1>1, CallsAreCalls DEF CallEffect, CallInv
<1>2. CASE ~ Call
  <2>1. UNCHANGED <<op, target>> /\ (pc' # "idle" => pc # "idle")
    BY <1>2 DEF Next, Recover, Operate, RecoverCanonical, Recovering, RefuseRecovery, Promote,
       FlushPromoted, Answer, StartWriting, Decided, CreateTemp, FillTemp, Replace, Flush,
       WriteFails, Crash, PowerLoss, Return, vars, session, call
  <2>2. promised["manifest"] # << >> => promised'["manifest"] # << >>
    BY PromisesStay DEF File, Bundle
  <2> QED
    BY <2>1, <2>2 DEF CallInv
<1> QED
  BY <1>1, <1>2

\* What is pending stays so until its recovery.
LEMMA PendingTail ==
  ASSUME TypeOK, todo # << >>, todo' = Tail(todo), NEW f, Pending(f), f # Head(todo)
  PROVE  Pending(f)'
<1>1. PICK i \in DOMAIN todo : todo[i] = f
  BY DEF Pending
<1>2. /\ todo \in Seq(File) /\ Head(todo) = todo[1]
      /\ \A k \in DOMAIN todo :
           k = 1 \/ (k - 1 \in DOMAIN Tail(todo) /\ Tail(todo)[k - 1] = todo[k])
  BY QueueFacts DEF TypeOK
<1>3. i - 1 \in DOMAIN todo' /\ todo'[i - 1] = f
  BY <1>1, <1>2
<1> QED
  BY <1>3 DEF Pending

\* Every step keeps what is left to recover in line with the operation.
LEMMA RecoverInvStep ==
  ASSUME TypeOK, CallInv, RecoverInv, WriteInv, [Next]_vars
  PROVE  RecoverInv'
<1> USE DEF call, bounds, disk, session
<1>1. CASE Call
  BY <1>1, CallsAreCalls DEF CallEffect, RecoverInv, Pending
<1>2. ASSUME NEW f \in File, RecoverCanonical(f) PROVE RecoverInv'
  <2>1. /\ pc = "recover" /\ pc' = "recover" /\ todo # << >> /\ f = Head(todo)
        /\ todo' = Tail(todo) /\ temp' = [temp EXCEPT ![f] = {}]
        /\ UNCHANGED <<op, target, file>>
        /\ file[f] # Absent \/ MayBeMissing(f)
    BY <1>2 DEF RecoverCanonical, Recovering
  <2>2. \A g : Pending(g) => g = f \/ Pending(g)'
    BY <2>1, PendingTail
  <2>3. \A g \in File : temp'[g] = {} \/ temp'[g] = temp[g]
    BY <2>1 DEF TypeOK, Temporaries
  <2>4. temp'[f] = {}
    BY <2>1 DEF TypeOK, Temporaries
  <2>5. op = "cas" /\ f = "record" => file["record"] # Absent
    BY <2>1 DEF MayBeMissing
  <2>6. op = "store" /\ target \in Payload /\ f = "manifest" => file["manifest"] # Absent
    BY <2>1, PayloadsAreApart DEF MayBeMissing, Bundle
  <2> QED
    BY <2>1, <2>2, <2>3, <2>4, <2>5, <2>6 DEF RecoverInv, TypeOK
<1>3. ASSUME NEW f \in File, Promote(f) PROVE RecoverInv'
  <2>1. PICK content \in temp[f] :
          temp[f] = {content} /\ Whole(f, content) /\ file' = [file EXCEPT ![f] = content]
    BY <1>3 DEF Promote
  <2>2. content # Absent
    BY <2>1, PayloadsAreApart DEF TypeOK, Temporaries, Whole, Content
  <2>3. /\ pc = "recover" /\ pc' = "promoted" /\ todo # << >> /\ f = Head(todo)
        /\ UNCHANGED <<todo, op, target>> /\ temp' = [temp EXCEPT ![f] = {}]
    BY <1>3 DEF Promote, Recovering
  <2>4. \A g : Pending(g) => Pending(g)'
    BY <2>3 DEF Pending
  <2>5. /\ \A g \in File : temp'[g] = {} \/ temp'[g] = temp[g]
        /\ \A g \in File : file[g] # Absent => file'[g] # Absent
        /\ temp'[f] = {} /\ file'[f] # Absent
    BY <2>1, <2>2, <2>3 DEF TypeOK, Temporaries, OnDisk
  <2>6. {"record", "manifest"} \subseteq File
    BY DEF File, State, Bundle
  <2> QED
    BY <2>3, <2>4, <2>5, <2>6 DEF RecoverInv, TypeOK
<1>4. CASE FlushPromoted
  <2>1. /\ pc = "promoted" /\ pc' = "recover" /\ todo' = Tail(todo)
        /\ UNCHANGED <<op, target, file, temp>>
    BY <1>4 DEF FlushPromoted
  <2>2. todo # << >> /\ file[Head(todo)] # Absent /\ temp[Head(todo)] = {}
    BY <2>1 DEF RecoverInv
  <2>3. \A g : Pending(g) => g = Head(todo) \/ Pending(g)'
    BY <2>1, <2>2, PendingTail
  <2> QED
    BY <2>1, <2>2, <2>3 DEF RecoverInv
<1>5. CASE UNCHANGED vars
  BY <1>5 DEF vars, RecoverInv, Pending
<1>6. ASSUME \/ \E f \in File : RefuseRecovery(f)
             \/ Operate \/ WriteFails \/ Crash \/ PowerLoss
      PROVE  pc' \notin {"recover", "promoted"}
  BY <1>6 DEF RefuseRecovery, Operate, Answer, StartWriting, CreateTemp, FillTemp, Replace,
     Flush, WriteFails, Crash, PowerLoss, Return
<1> QED
  BY <1>1, <1>2, <1>3, <1>4, <1>5, <1>6 DEF Next, Recover, RecoverInv
-----------------------------------------------------------------------------
(* Writes.                                                                 *)

\* The current file of a session, and that it is not written again.
LEMMA CurrentFacts ==
  ASSUME TypeOK, CallInv, WriteInv, pc \in Writing
  PROVE  /\ Current \in File /\ queue \in Seq(File) /\ queue # << >> /\ Len(queue) \in Nat
         /\ \A i \in 2 .. Len(queue) : queue[i] \in File \ {Current}
         /\ op \in Writers => Current = target /\ Len(queue) = 1
         /\ op = "bundle" => queue \in Rests /\ Current \in Bundle \cup {"input"}
         /\ op \in Writers \cup {"bundle"}
         /\ Current \in Bundle \cup {"input"} => op = "bundle"
         /\ Current = "journal" => op = "append"
         /\ Current = "record" => op \in {"create", "cas"}
<1>1. queue # << >> /\ queue \in Seq(File) /\ Current \in File /\ Len(queue) \in Nat
  BY QueueIsThere, QueueFacts DEF TypeOK, Current
<1>2. CASE queue = <<target>> /\ op \in Writers
  <2>1. Current = target /\ Len(queue) = 1
    BY <1>2 DEF Current
  <2>2. target \in {"record", "journal", "evidence"} \cup Payload
    BY <1>2 DEF CallInv, Writers
  <2>3. target \notin Bundle \cup {"input"}
    BY <2>2, PayloadsAreApart DEF Bundle
  <2>4. /\ target = "journal" => op = "append"
        /\ target = "record" => op \in {"create", "cas"}
    BY <1>2, PayloadsAreApart DEF CallInv, Writers, State
  <2> QED
    BY <1>1, <1>2, <2>1, <2>3, <2>4 DEF Writers
<1>3. CASE queue \in Rests /\ op = "bundle"
  <2>1. /\ Current \in Bundle \cup {"input"}
        /\ \A i \in DOMAIN queue : queue[i] \in Bundle \cup {"input"}
                                   /\ (i # 1 => queue[i] # Current)
    BY <1>3, RestFacts DEF Current
  <2>2. DOMAIN queue = 1 .. Len(queue)
    BY <1>1, LenProperties
  <2>3. \A i \in 2 .. Len(queue) : i \in DOMAIN queue /\ i # 1
    BY <1>1, <2>2
  <2> QED
    BY <1>1, <1>3, <2>1, <2>3 DEF Writers, Bundle, File
<1> QED
  BY <1>2, <1>3 DEF WriteInv

\* Each version of a file is a sequence of writes.
LEMMA VersionTypes ==
  ASSUME TypeOK, NEW f \in File
  PROVE  /\ Writes(file[f]) \in Content /\ Writes(durable.file[f]) \in Content
         /\ Shown(f) \in Content /\ ShownDurable(f) \in Content
         /\ promised[f] \in Content
         /\ file[f] # Absent => Writes(file[f]) = file[f]
         /\ durable.file[f] # Absent => Writes(durable.file[f]) = durable.file[f]
         /\ Writes(Absent) = << >> /\ << >> \in Content
<1>1. /\ file[f] \in Content \cup {Absent} /\ durable.file[f] \in Content \cup {Absent}
      /\ temp[f] \in SUBSET (Content \cup {Torn})
      /\ durable.temp[f] \in SUBSET (Content \cup {Torn}) /\ promised[f] \in Content
  BY DEF TypeOK, OnDisk, Temporaries
<1>2. << >> \in Content
  BY EmptySeq DEF Content
<1> QED
  BY <1>1, <1>2, ShownTypes, ShownIsShownOf

\* A file is flushed with its directory.
LEMMA InItsDirectory ==
  ASSUME NEW f \in File
  PROVE  f \in Directory(f)
  BY DEF Directory, File, State, Bundle

\* Every step keeps the draft one write ahead of what the disk has.
LEMMA WriteInvStep ==
  ASSUME TypeOK, CallInv, RecoverInv, WriteInv, DiskInv, ContentInv, [Next]_vars
  PROVE  WriteInv'
<1> USE DEF call, bounds
<1>1. CASE StartWriting
  <2>1. /\ pc = "recover" /\ pc' = "create" /\ todo = << >>
        /\ queue' = IF op = "bundle" THEN BundleOrder ELSE <<target>>
        /\ directory' = (directory \/ op = "bundle")
        /\ UNCHANGED <<file, temp, durable, op, target>>
    BY <1>1 DEF StartWriting, Decided
  <2>2. /\ op \in Writers \cup {"bundle"}
        /\ draft' \in Content /\ draft' # << >>
        /\ op \in Writers =>
             /\ Below(Writes(file[target]), draft')
             /\ Len(draft') = Len(Writes(file[target])) + 1
        /\ op = "bundle" =>
             /\ file["record"] = Absent /\ ~ directory
             /\ Len(draft') = 1
        /\ op = "append" => (Unique(Writes(file["journal"])) => Unique(draft'))
    BY <1>1, DraftIsNext
  <2>3. ASSUME NEW f \in File, temp[f] = {}
        PROVE  Below(ShownDurable(f), Writes(file[f]))
    <3>1. Shown(f) = Writes(file[f])
      BY <2>3, ShownFacts, ShownIsShownOf
    <3> QED
      BY <3>1 DEF DiskInv
  <2>4. ASSUME op \in Writers
        PROVE  WriteInv'
    <3>1. queue' = <<target>> /\ Current' = target /\ Len(queue') = 1
      BY <2>1, <2>4 DEF Current, Writers
    <3>2. temp[target] = {} /\ target \in File
      BY <2>1, <2>4 DEF RecoverInv, Pending, TypeOK
    <3>3. target \in {"artifact", "configuration", "input", "manifest"} \cup Payload
            => directory
      <4>1. target \in {"record", "journal", "evidence"} \cup Payload
        BY <2>4 DEF CallInv, Writers
      <4>2. ASSUME target \in Payload PROVE directory
        <5>1. op = "store"
          BY <2>4, <4>2, PayloadsAreApart DEF CallInv, Writers, State
        <5>2. file["manifest"] # Absent
          BY <2>1, <4>2, <5>1 DEF RecoverInv, Pending
        <5> QED
          BY <5>2 DEF DiskInv, BundleIsSomewhere, File, State, Bundle
      <4> QED
        BY <4>1, <4>2
    <3>4. target = "journal" => Unique(draft')
      <4>1. target = "journal" => op = "append"
        BY <2>4, PayloadsAreApart DEF CallInv, Writers, State
      <4>2. Unique(Writes(file["journal"]))
        BY DEF ContentInv, TypeOK, OnDisk, Writes, Unique, File, State
      <4> QED
        BY <2>2, <4>1, <4>2
    <3>5. Below(ShownDurable(target), Writes(file[target]))
      BY <2>3, <3>2
    <3>6. Below(ShownDurable(Current)', Writes(file[target]))
      BY <2>1, <3>1, <3>5 DEF ShownDurable
    <3>7. 2 .. Len(queue') = {}
      BY <3>1
    <3>8. op # "bundle"
      BY <2>4 DEF Writers
    <3> QED
      BY <2>1, <2>2, <2>4, <3>1, <3>2, <3>3, <3>4, <3>6, <3>7, <3>8 DEF WriteInv
  <2>5. ASSUME op = "bundle"
        PROVE  WriteInv'
    <3>1. queue' \in Rests /\ Current' = "artifact" /\ queue' \in Seq(File)
      BY <2>1, <2>5, RestFacts DEF BundleOrder, Rests, Current
    <3>2. \A f \in Bundle \cup {"input"} : file[f] = Absent /\ temp[f] = {} /\ f \in File
      BY <2>2, <2>5 DEF DiskInv, BundleIsSomewhere, File, State, Bundle
    <3>3. \A i \in DOMAIN queue' : queue'[i] \in Bundle \cup {"input"}
      BY <3>1, RestFacts
    <3>4. \A i \in 2 .. Len(queue') : i \in DOMAIN queue'
      BY <3>1, LenProperties
    <3>5. /\ Below(Writes(Absent), draft') /\ Len(draft') = Len(Writes(Absent)) + 1
      BY <2>2, <2>5, BelowFacts DEF Writes
    <3>6. Below(ShownDurable("artifact"), Writes(Absent))
      BY <2>3, <3>2 DEF Bundle
    <3>7. Below(ShownDurable("artifact")', Writes(Absent))
      BY <2>1, <3>6 DEF ShownDurable
    <3> QED
      BY <2>1, <2>2, <2>5, <3>1, <3>2, <3>3, <3>4, <3>5, <3>7 DEF WriteInv, Bundle, ShownDurable
  <2> QED
    BY <2>2, <2>4, <2>5
<1>2. CASE CreateTemp \/ FillTemp \/ Replace
  <2>1. /\ pc \in Writing /\ pc' \in Writing
        /\ UNCHANGED <<queue, draft, durable, directory, op, target>>
    BY <1>2 DEF CreateTemp, FillTemp, Replace, Writing
  <2>2. /\ Current' = Current /\ Current \in File
        /\ \A i \in 2 .. Len(queue) : queue[i] \in File \ {Current}
    BY <2>1, CurrentFacts DEF Current
  <2>3. UNCHANGED ShownDurable(Current)
    BY <2>1, <2>2 DEF ShownDurable
  <2>4. /\ \A f \in File \ {Current} : file'[f] = file[f] /\ temp'[f] = temp[f]
        /\ pc' # "flush" => file' = file
    BY <1>2 DEF CreateTemp, FillTemp, Replace, TypeOK, OnDisk, Temporaries
  <2>5. /\ pc' = "fill" => temp'[Current] = {<< >>} \/ temp'[Current] = {Torn}
        /\ pc' = "replace" => temp'[Current] = {draft}
        /\ pc' = "flush" => temp'[Current] = {} /\ file'[Current] = draft
        /\ pc' # "create"
    <3>1. CASE CreateTemp
      <4>1. temp[Current] = {}
        BY <3>1 DEF CreateTemp, WriteInv, Writing
      <4> QED
        BY <2>2, <3>1, <4>1 DEF CreateTemp, TypeOK, Temporaries
    <3>2. CASE FillTemp
      <4>1. temp[Current] = {<< >>} \/ temp[Current] = {Torn}
        BY <3>2 DEF FillTemp, WriteInv, Writing
      <4> QED
        BY <2>2, <3>2, <4>1 DEF FillTemp, TypeOK, Temporaries
    <3>3. CASE Replace
      <4>1. temp[Current] = {draft}
        BY <3>3 DEF Replace, WriteInv, Writing
      <4> QED
        BY <2>2, <3>3, <4>1 DEF Replace, TypeOK, Temporaries, OnDisk
    <3> QED
      BY <1>2, <3>1, <3>2, <3>3
  <2>6. pc # "flush"
    BY <1>2 DEF CreateTemp, FillTemp, Replace
  <2> QED
    BY <2>1, <2>2, <2>3, <2>4, <2>5, <2>6 DEF WriteInv
<1>3. CASE Flush
  <2>1. CASE Len(queue) > 1
    <3>1. /\ pc = "flush" /\ pc' = "create" /\ queue' = Tail(queue) /\ FlushDirectory(Current)
          /\ UNCHANGED <<file, temp, directory, draft, op, target>>
      BY <1>3, <2>1 DEF Flush
    <3>2. /\ op = "bundle" /\ queue \in Rests /\ queue' \in Rests /\ queue \in Seq(File)
          /\ queue # << >> /\ Len(queue) \in Nat
      BY <2>1, <3>1, CurrentFacts, RestFacts DEF Writing, Writers
    <3>3. /\ Len(queue') = Len(queue) - 1 /\ \A i \in 1 .. Len(queue') : queue'[i] = queue[i + 1]
          /\ Current' = queue'[1]
      <4>1. /\ Len(Tail(queue)) = Len(queue) - 1
            /\ \A i \in 1 .. Len(queue) - 1 : Tail(queue)[i] = queue[i + 1]
        BY <3>2, QueueFacts
      <4>2. queue' \in Seq(File) /\ queue' # << >>
        BY <3>2, RestFacts
      <4>3. Head(queue') = queue'[1]
        BY <4>2, QueueFacts
      <4> QED
        BY <3>1, <4>1, <4>3 DEF Current
    <3>4. \A i \in 1 .. Len(queue') : i + 1 \in 2 .. Len(queue)
      BY <3>2, <3>3
    <3>5. \A i \in 1 .. Len(queue') : file'[queue'[i]] = Absent /\ temp'[queue'[i]] = {}
      <4>1. \A i \in 2 .. Len(queue) : file[queue[i]] = Absent /\ temp[queue[i]] = {}
        BY <3>1 DEF WriteInv, Writing
      <4> QED
        BY <3>1, <3>3, <3>4, <4>1
    <3>6. 1 \in 1 .. Len(queue')
      BY <2>1, <3>2, <3>3
    <3>7. /\ Current' \in File /\ file[Current'] = Absent /\ temp[Current'] = {}
          /\ Current' \in Bundle \cup {"input"}
      BY <3>1, <3>2, <3>3, <3>5, <3>6, RestFacts DEF Current, File
    <3>8. Below(ShownDurable(Current)', Writes(Absent))
      <4> DEFINE g == Current'
      <4>1. Shown(g) = Writes(Absent)
        BY <3>7, ShownFacts, ShownIsShownOf
      <4>2. Below(ShownDurable(g), Writes(Absent))
        BY <3>7, <4>1 DEF DiskInv
      <4>3. CASE g \in Directory(Current)
        <5>1. durable'.file[g] = Absent /\ durable'.temp[g] = {}
          BY <3>1, <3>7, <4>3 DEF FlushDirectory
        <5>2. ShownOf(durable'.file[g], durable'.temp[g], g) = Writes(Absent)
          BY <3>7, <5>1, ShownFacts
        <5>3. Below(Writes(Absent), Writes(Absent))
          BY <3>7, VersionTypes, BelowFacts
        <5> QED
          BY <5>2, <5>3 DEF ShownDurable
      <4>4. CASE g \notin Directory(Current)
        <5>1. durable'.file[g] = durable.file[g] /\ durable'.temp[g] = durable.temp[g]
          BY <3>1, <3>7, <4>4 DEF FlushDirectory
        <5> QED
          BY <4>2, <5>1 DEF ShownDurable
      <4> QED
        BY <4>3, <4>4
    <3>9. draft # << >> /\ Len(draft) = 1 /\ draft \in Content /\ directory
      BY <3>1, <3>2, CurrentFacts DEF WriteInv, Writing, TypeOK, Bundle
    <3>10. Below(Writes(Absent), draft) /\ Len(draft) = Len(Writes(Absent)) + 1
      BY <3>9, BelowFacts DEF Writes
    <3>11. Current' # "journal"
      BY <3>7 DEF Bundle
    <3>12. \A i \in 2 .. Len(queue') : i \in 1 .. Len(queue')
      BY <3>2, <3>3
    <3> QED
      BY <3>1, <3>2, <3>5, <3>7, <3>8, <3>9, <3>10, <3>11, <3>12 DEF WriteInv
  <2>2. CASE ~ (Len(queue) > 1)
    BY <1>3, <2>2 DEF Flush, Return, WriteInv, Writing
  <2> QED
    BY <2>1, <2>2
<1>4. CASE Call
  BY <1>4, CallsAreCalls DEF CallEffect, WriteInv, Writing
<1>5. CASE Recover \/ Answer \/ WriteFails \/ Crash \/ PowerLoss
  <2>1. pc' \notin Writing
    BY <1>5 DEF Recover, RecoverCanonical, Recovering, RefuseRecovery, Promote, FlushPromoted,
       Answer, WriteFails, Crash, PowerLoss, Return, Writing
  <2> QED
    BY <2>1 DEF WriteInv
<1>6. CASE UNCHANGED vars
  BY <1>6 DEF vars, disk, session, WriteInv, Current, ShownDurable
<1> QED
  BY <1>1, <1>2, <1>3, <1>4, <1>5, <1>6 DEF Next, Operate

-----------------------------------------------------------------------------
(* What a step shows of each file.                                         *)

Same(f) == Shown(f)' = Shown(f)

ShownStays ==
  \A f \in File : Same(f) /\ ShownDurable(f)' \in {Shown(f), ShownDurable(f)}

ShownGrows ==
  /\ UNCHANGED <<durable, promised>>
  /\ \E g \in File :
       /\ \A f \in File \ {g} : Same(f)
       /\ Below(Shown(g), Shown(g)') /\ Len(Shown(g)') = Len(Shown(g)) + 1

ShownFallsBack ==
  /\ UNCHANGED <<durable, promised, file>>
  /\ \E g \in File :
       /\ \A f \in File \ {g} : Same(f)
       /\ Shown(g)' = Writes(file[g]) /\ Below(Writes(file[g]), Shown(g))
       /\ Below(ShownDurable(g), Writes(file[g]))

ShownIsLost ==
  /\ UNCHANGED promised
  /\ \A f \in File :
       \/ /\ file'[f] = file[f] /\ temp'[f] = temp[f] /\ Same(f)
       \/ /\ file'[f] = durable.file[f] /\ temp'[f] = durable.temp[f]
          /\ Shown(f)' = ShownDurable(f)
  /\ durable' = [file |-> file', temp |-> temp']
  /\ \A f \in File : ShownDurable(f)' = Shown(f)'

\* What the next reader is shown stays, grows by the write in flight, falls back when that
\* write fails and removes its temporary, or is lost to a power loss.
LEMMA ShownStep ==
  ASSUME TypeOK, CallInv, WriteInv, [Next]_vars
  PROVE  ShownStays \/ ShownGrows \/ ShownFallsBack \/ ShownIsLost
<1> USE DEF Same
<1>1. ASSUME NEW f \in File, file'[f] = file[f], temp'[f] = temp[f]
      PROVE  Same(f)
  BY <1>1, ShownIsShownOf DEF Shown
<1>2. ASSUME NEW f \in File, UNCHANGED durable
      PROVE  ShownDurable(f)' = ShownDurable(f)
  BY <1>2 DEF ShownDurable
<1>3. ASSUME NEW g, FlushDirectory(g), UNCHANGED <<file, temp>>
      PROVE  ShownStays
  <2> SUFFICES ASSUME NEW f \in File
               PROVE  Same(f) /\ ShownDurable(f)' \in {Shown(f), ShownDurable(f)}
    BY DEF ShownStays
  <2>1. \/ durable'.file[f] = file[f] /\ durable'.temp[f] = temp[f]
        \/ durable'.file[f] = durable.file[f] /\ durable'.temp[f] = durable.temp[f]
    BY <1>3 DEF FlushDirectory
  <2>2. ShownDurable(f)' = ShownOf(durable'.file[f], durable'.temp[f], f)
    BY DEF ShownDurable
  <2>3. ShownDurable(f)' \in {Shown(f), ShownDurable(f)}
    BY <2>1, <2>2, ShownIsShownOf
  <2> QED
    BY <1>1, <1>3, <2>3
<1>4. CASE UNCHANGED <<file, temp, durable>>
  BY <1>1, <1>2, <1>4 DEF ShownStays
<1>5. ASSUME NEW f \in File, RecoverCanonical(f) PROVE ShownStays
  <2>1. /\ UNCHANGED <<file, durable>> /\ temp' = [temp EXCEPT ![f] = {}]
        /\ file[f] # Absent \/ temp[f] = {}
    BY <1>5 DEF RecoverCanonical
  <2>2. temp'[f] = {} /\ \A g \in File \ {f} : temp'[g] = temp[g]
    BY <2>1 DEF TypeOK, Temporaries
  <2>3. Shown(f)' = ShownOf(file[f], {}, f)
    BY <2>1, <2>2, ShownIsShownOf DEF Shown, ShownOf
  <2>4. Same(f)
    BY <2>1, <2>3, ShownFacts, ShownIsShownOf
  <2> QED
    BY <1>1, <1>2, <2>1, <2>2, <2>4 DEF ShownStays
<1>6. ASSUME NEW f \in File, Promote(f) PROVE ShownStays
  <2>1. PICK content \in temp[f] :
          temp[f] = {content} /\ Whole(f, content) /\ file' = [file EXCEPT ![f] = content]
    BY <1>6 DEF Promote
  <2>2. file[f] = Absent /\ temp' = [temp EXCEPT ![f] = {}] /\ UNCHANGED durable
    BY <1>6 DEF Promote
  <2>3. content # Absent
    BY <2>1, PayloadsAreApart DEF TypeOK, Temporaries, Whole, Content
  <2>4. /\ file'[f] = content /\ temp'[f] = {}
        /\ \A g \in File \ {f} : temp'[g] = temp[g] /\ file'[g] = file[g]
    BY <2>1, <2>2 DEF TypeOK, Temporaries, OnDisk
  <2>5. Shown(f) = content
    BY <2>1, <2>2, ShownFacts, ShownIsShownOf
  <2>6. Shown(f)' = content
    BY <2>3, <2>4 DEF Shown, Writes
  <2> QED
    BY <1>1, <1>2, <2>2, <2>4, <2>5, <2>6 DEF ShownStays
<1>7. CASE FlushPromoted \/ Flush
  BY <1>3, <1>7 DEF FlushPromoted, Flush
<1>8. ASSUME pc \in Writing
      PROVE  /\ Current \in File /\ Shown(Current) \in Content
             /\ Whole(Current, draft) /\ draft \in Content
             /\ Writes(file[Current]) \in Content
             /\ file[Current] # Absent => Shown(Current) = Writes(file[Current])
             /\ temp[Current] = {} => Shown(Current) = Writes(file[Current])
  <2>1. Current \in File /\ draft \in Content /\ draft # << >>
    BY <1>8, CurrentFacts, QueueIsThere DEF WriteInv
  <2>2. draft # Torn
    BY <2>1, PayloadsAreApart DEF Content
  <2> QED
    BY <2>1, <2>2, VersionTypes, ShownFacts, ShownIsShownOf DEF Whole
<1>9. CASE CreateTemp
  <2>1. pc \in Writing /\ temp[Current] = {} /\ UNCHANGED <<file, durable>>
    BY <1>9 DEF CreateTemp, Writing, WriteInv
  <2>2. PICK partial \in {<< >>, Torn} : temp' = [temp EXCEPT ![Current] = @ \cup {partial}]
    BY <1>9 DEF CreateTemp
  <2>3. /\ temp'[Current] = {partial}
        /\ \A g \in File \ {Current} : temp'[g] = temp[g]
    BY <1>8, <2>1, <2>2 DEF TypeOK, Temporaries
  <2>4. Shown(Current)' = Shown(Current)
    <3>1. Shown(Current) = Writes(file[Current])
      BY <1>8, <2>1
    <3>2. ShownOf(file[Current], {partial}, Current) = Writes(file[Current])
      <4>1. CASE file[Current] # Absent
        BY <1>8, <4>1, ShownFacts, <2>1 DEF Writes
      <4>2. CASE ~ Whole(Current, partial)
        BY <1>8, <2>1, <4>2, ShownFacts
      <4>3. CASE file[Current] = Absent /\ Whole(Current, partial)
        BY <1>8, <2>1, <2>2, <4>3, ShownFacts DEF Whole, Writes
      <4> QED
        BY <4>1, <4>2, <4>3
    <3>3. ShownOf(file'[Current], temp'[Current], Current) = Writes(file[Current])
      BY <2>1, <2>3, <3>2
    <3>4. Current' = Current
      BY <1>9 DEF CreateTemp, Current
    <3> QED
      BY <1>8, <2>1, <3>1, <3>3, <3>4 DEF Shown, ShownOf
  <2>5. Current' = Current
    BY <1>9 DEF CreateTemp, Current
  <2> QED
    BY <1>1, <1>2, <1>8, <2>1, <2>3, <2>4, <2>5 DEF ShownStays
<1>10. CASE FillTemp
  <2>1. /\ pc \in Writing /\ UNCHANGED <<file, durable, promised>> /\ Current' = Current
        /\ temp[Current] = {<< >>} \/ temp[Current] = {Torn}
        /\ Below(Writes(file[Current]), draft) /\ Len(draft) = Len(Writes(file[Current])) + 1
    BY <1>10 DEF FillTemp, Writing, WriteInv, Current
  <2>2. /\ temp'[Current] = {draft}
        /\ \A g \in File \ {Current} : temp'[g] = temp[g]
    BY <1>8, <1>10, <2>1 DEF FillTemp, TypeOK, Temporaries
  <2>3. Shown(Current)' = ShownOf(file[Current], {draft}, Current)
    BY <1>8, <2>1, <2>2 DEF Shown, ShownOf
  <2>4. CASE file[Current] # Absent
    <3>1. Shown(Current)' = Shown(Current)
      BY <1>8, <2>1, <2>3, <2>4, ShownFacts DEF Writes
    <3> QED
      BY <1>1, <1>2, <1>8, <2>1, <2>2, <3>1 DEF ShownStays
  <2>5. CASE file[Current] = Absent
    <3>1. Shown(Current)' = draft
      BY <1>8, <2>1, <2>3, <2>5, ShownFacts
    <3>2. Shown(Current) = Writes(file[Current])
      <4>1. \/ ~ Whole(Current, << >>) \/ Writes(file[Current]) = << >>
        BY <2>5 DEF Writes
      <4>2. ~ Whole(Current, Torn)
        BY DEF Whole
      <4> QED
        BY <1>8, <2>1, <2>5, <4>1, <4>2, ShownFacts, ShownIsShownOf
    <3> QED
      BY <1>1, <1>8, <2>1, <2>2, <3>1, <3>2 DEF ShownGrows
  <2> QED
    BY <2>4, <2>5
<1>11. CASE Replace
  <2>1. /\ pc \in Writing /\ UNCHANGED <<durable, promised>> /\ Current' = Current
        /\ temp[Current] = {draft}
        /\ Below(Writes(file[Current]), draft) /\ Len(draft) = Len(Writes(file[Current])) + 1
    BY <1>11 DEF Replace, Writing, WriteInv, Current
  <2>2. /\ file'[Current] = draft
        /\ \A g \in File \ {Current} : temp'[g] = temp[g] /\ file'[g] = file[g]
    BY <1>8, <1>11, <2>1 DEF Replace, TypeOK, Temporaries, OnDisk
  <2>3. draft # Absent
    BY <1>8, <2>1, PayloadsAreApart DEF Content
  <2>4. Shown(Current)' = draft
    <3>1. Shown(Current)' = ShownOf(file'[Current], temp'[Current], Current)
      BY <2>1 DEF Shown, ShownOf
    <3> QED
      BY <1>8, <2>1, <2>2, <2>3, <3>1, ShownFacts
  <2>5. CASE file[Current] # Absent
    BY <1>1, <1>8, <2>1, <2>2, <2>4, <2>5 DEF ShownGrows
  <2>6. CASE file[Current] = Absent
    <3>1. Shown(Current) = draft
      BY <1>8, <2>1, <2>6, ShownFacts, ShownIsShownOf
    <3> QED
      BY <1>1, <1>2, <1>8, <2>1, <2>2, <2>4, <3>1 DEF ShownStays
  <2> QED
    BY <2>5, <2>6
<1>12. CASE WriteFails
  <2>1. UNCHANGED <<file, durable, promised>>
    BY <1>12 DEF WriteFails
  <2>2. CASE pc \in {"fill", "replace"}
    <3>1. /\ pc \in Writing /\ temp' = [temp EXCEPT ![Current] = @ \ {<< >>, Torn, draft}]
          /\ temp[Current] \in {{<< >>}, {Torn}, {draft}}
          /\ Below(ShownDurable(Current), Writes(file[Current]))
          /\ Below(Writes(file[Current]), draft)
      BY <1>12, <2>2 DEF WriteFails, WriteInv, Writing
    <3>2. PICK g \in File : g = Current
      BY <1>8, <3>1
    <3>3. temp'[g] = {} /\ \A f \in File \ {g} : temp'[f] = temp[f]
      BY <3>1, <3>2 DEF TypeOK, Temporaries
    <3>4. Shown(g)' = Writes(file[g])
      BY <2>1, <3>3, ShownFacts DEF Shown
    <3>5. Below(Writes(file[g]), Shown(g))
      <4>1. CASE file[g] # Absent
        BY <1>8, <3>1, <3>2, <4>1, BelowFacts
      <4>2. CASE file[g] = Absent
        BY <1>8, <3>1, <3>2, <4>2, BelowFacts DEF Writes
      <4> QED
        BY <4>1, <4>2
    <3> QED
      BY <1>1, <2>1, <3>1, <3>2, <3>3, <3>4, <3>5 DEF ShownFallsBack
  <2>3. CASE pc \notin {"fill", "replace"}
    BY <1>4, <1>12, <2>1, <2>3 DEF WriteFails
  <2> QED
    BY <2>2, <2>3
<1>13. CASE PowerLoss
  <2>1. UNCHANGED promised /\ durable' = [file |-> file', temp |-> temp']
    BY <1>13 DEF PowerLoss
  <2>2. \A f \in File : ShownDurable(f)' = Shown(f)'
    BY <2>1, ShownIsShownOf DEF ShownDurable, Shown, ShownOf
  <2>3. ASSUME NEW f \in File
        PROVE  \/ file'[f] = file[f] /\ temp'[f] = temp[f]
               \/ file'[f] = durable.file[f] /\ temp'[f] = durable.temp[f]
    BY <1>13 DEF PowerLoss
  <2>4. ASSUME NEW f \in File, file'[f] = durable.file[f], temp'[f] = durable.temp[f]
        PROVE  Shown(f)' = ShownDurable(f)
    BY <2>4 DEF Shown, ShownDurable, ShownOf
  <2> QED
    BY <1>1, <2>1, <2>2, <2>3, <2>4 DEF ShownIsLost
<1>14. CASE Call \/ Answer \/ StartWriting \/ Crash \/ UNCHANGED vars
            \/ \E f \in File : RefuseRecovery(f)
  BY <1>4, <1>14, CallsAreCalls DEF CallEffect, Answer, StartWriting, Crash, RefuseRecovery,
     vars, disk
<1> QED
  BY <1>5, <1>6, <1>7, <1>9, <1>10, <1>11, <1>12, <1>13, <1>14 DEF Next, Recover, Operate

-----------------------------------------------------------------------------
(* The three versions.                                                     *)

\* Where the new version of a file comes from.
TempsCome(f) ==
  \/ temp'[f] = {} \/ temp'[f] = temp[f] \/ temp'[f] = durable.temp[f]
  \/ pc \in Writing /\ f = Current /\ \E c \in {<< >>, Torn, draft} : temp'[f] = {c}

FileComes(f) ==
  \/ file'[f] = file[f] \/ file'[f] = durable.file[f]
  \/ file[f] = Absent /\ temp[f] = {file'[f]} /\ file'[f] \in Content
  \/ pc \in Writing /\ pc # "flush" /\ f = Current /\ file'[f] = draft

DurableComes(f) ==
  \/ durable'.file[f] = file[f] /\ durable'.temp[f] = temp[f]
  \/ durable'.file[f] = durable.file[f] /\ durable'.temp[f] = durable.temp[f]

PromiseComes(f) ==
  \/ promised'[f] = promised[f]
  \/ /\ pc = "flush" /\ f = Current /\ promised'[f] = draft
     /\ file[f] = draft /\ file'[f] = draft /\ durable'.file[f] = draft

\* Where the versions of one file come from in a step.
LEMMA VersionsCome ==
  ASSUME TypeOK, CallInv, WriteInv, [Next]_vars, NEW f \in File
  PROVE  TempsCome(f) /\ FileComes(f) /\ DurableComes(f) /\ PromiseComes(f)
<1> USE DEF TempsCome, FileComes, DurableComes, PromiseComes, disk
<1>1. CASE Call \/ Answer \/ StartWriting \/ Crash \/ UNCHANGED vars
           \/ \E g \in File : RefuseRecovery(g)
  BY <1>1, CallsAreCalls DEF CallEffect, Answer, StartWriting, Crash, RefuseRecovery, vars
<1>2. ASSUME NEW g \in File, RecoverCanonical(g)
      PROVE  TempsCome(f) /\ FileComes(f) /\ DurableComes(f) /\ PromiseComes(f)
  <2>1. temp'[f] = {} \/ temp'[f] = temp[f]
    BY <1>2 DEF RecoverCanonical, TypeOK, Temporaries
  <2> QED
    BY <1>2, <2>1 DEF RecoverCanonical
<1>3. ASSUME NEW g \in File, Promote(g)
      PROVE  TempsCome(f) /\ FileComes(f) /\ DurableComes(f) /\ PromiseComes(f)
  <2>1. temp'[f] = {} \/ temp'[f] = temp[f]
    BY <1>3 DEF Promote, TypeOK, Temporaries
  <2>2. PICK content \in temp[g] :
          temp[g] = {content} /\ Whole(g, content) /\ file' = [file EXCEPT ![g] = content]
    BY <1>3 DEF Promote
  <2>3. file[g] = Absent
    BY <1>3 DEF Promote
  <2>4. content \in Content
    BY <2>2 DEF Whole, TypeOK, Temporaries
  <2>5. FileComes(f)
    <3>1. CASE f = g
      <4>1. file'[f] = content
        BY <2>2, <3>1 DEF TypeOK, OnDisk
      <4> QED
        BY <2>2, <2>3, <2>4, <3>1, <4>1
    <3>2. CASE f # g
      BY <2>2, <3>2 DEF TypeOK, OnDisk
    <3> QED
      BY <3>1, <3>2
  <2> QED
    BY <1>3, <2>1, <2>5 DEF Promote
<1>4. CASE FlushPromoted
  BY <1>4 DEF FlushPromoted, FlushDirectory
<1>5. CASE Flush
  <2>1. /\ pc = "flush" /\ UNCHANGED <<file, temp>> /\ FlushDirectory(Current)
        /\ promised' = [promised EXCEPT ![Current] = file[Current]]
    BY <1>5 DEF Flush
  <2>2. file[Current] = draft /\ Current \in File
    BY <2>1, CurrentFacts DEF WriteInv, Writing
  <2>3. f = Current => promised'[f] = draft /\ durable'.file[f] = draft
    BY <2>1, <2>2, InItsDirectory DEF FlushDirectory, TypeOK
  <2>4. f # Current => promised'[f] = promised[f]
    BY <2>1 DEF TypeOK
  <2>5. DurableComes(f)
    BY <2>1 DEF FlushDirectory
  <2> QED
    BY <2>1, <2>2, <2>3, <2>4, <2>5
<1>6. CASE CreateTemp
  <2>1. pc \in Writing /\ temp[Current] = {} /\ Current \in File
    BY <1>6, CurrentFacts DEF CreateTemp, WriteInv, Writing
  <2>2. TempsCome(f)
    BY <1>6, <2>1 DEF CreateTemp, TypeOK, Temporaries
  <2> QED
    BY <1>6, <2>2 DEF CreateTemp
<1>7. CASE FillTemp
  <2>1. /\ pc \in Writing /\ Current \in File
        /\ temp[Current] = {<< >>} \/ temp[Current] = {Torn}
    BY <1>7, CurrentFacts DEF FillTemp, WriteInv, Writing
  <2>2. TempsCome(f)
    BY <1>7, <2>1 DEF FillTemp, TypeOK, Temporaries
  <2> QED
    BY <1>7, <2>2 DEF FillTemp
<1>8. CASE Replace
  <2>1. pc \in Writing /\ pc # "flush" /\ Current \in File /\ temp[Current] = {draft}
    BY <1>8, CurrentFacts DEF Replace, WriteInv, Writing
  <2>2. TempsCome(f)
    BY <1>8, <2>1 DEF Replace, TypeOK, Temporaries
  <2>3. FileComes(f)
    BY <1>8, <2>1 DEF Replace, TypeOK, OnDisk
  <2> QED
    BY <1>8, <2>2, <2>3 DEF Replace
<1>9. CASE WriteFails
  <2>1. TempsCome(f)
    <3>1. CASE pc \in {"fill", "replace"}
      <4>1. Current \in File /\ temp[Current] \in {{<< >>}, {Torn}, {draft}}
        BY <3>1, CurrentFacts DEF WriteInv, Writing
      <4> QED
        BY <1>9, <3>1, <4>1 DEF WriteFails, TypeOK, Temporaries
    <3>2. CASE pc \notin {"fill", "replace"}
      BY <1>9, <3>2 DEF WriteFails
    <3> QED
      BY <3>1, <3>2
  <2> QED
    BY <1>9, <2>1 DEF WriteFails
<1>10. CASE PowerLoss
  <2>1. \/ file'[f] = file[f] /\ temp'[f] = temp[f]
        \/ file'[f] = durable.file[f] /\ temp'[f] = durable.temp[f]
    BY <1>10 DEF PowerLoss
  <2>2. durable'.file[f] = file'[f] /\ durable'.temp[f] = temp'[f] /\ UNCHANGED promised
    BY <1>10 DEF PowerLoss
  <2> QED
    BY <2>1, <2>2
<1> QED
  BY <1>1, <1>2, <1>3, <1>4, <1>5, <1>6, <1>7, <1>8, <1>9, <1>10 DEF Next, Recover, Operate

\* Every step keeps the three versions of each file in their order.
LEMMA DiskInvStep ==
  ASSUME TypeOK, TypeOK', CallInv, WriteInv, DiskInv, [Next]_vars
  PROVE  DiskInv'
<1>1. ASSUME NEW f \in File PROVE AtMostOne(temp'[f]) /\ AtMostOne(durable'.temp[f])
  BY VersionsCome DEF TempsCome, DurableComes, DiskInv, AtMostOne
<1>2. ASSUME NEW f \in File, pc \in Writing, pc # "flush", f = Current
      PROVE  Below(Writes(file[f]), draft) /\ draft \in Content
  BY <1>2, QueueIsThere DEF WriteInv
<1>3. ASSUME NEW f \in File
      PROVE  Below(promised'[f], Writes(durable'.file[f])) /\ Below(promised'[f], Writes(file'[f]))
  <2>1. CASE pc = "flush" /\ f = Current /\ promised'[f] = draft
             /\ file'[f] = draft /\ durable'.file[f] = draft
    <3>1. draft \in Content /\ draft # Absent
      BY <2>1, PayloadsAreApart DEF TypeOK, Content
    <3> QED
      BY <2>1, <3>1, BelowFacts DEF Writes
  <2>2. CASE promised'[f] = promised[f]
    <3>1. Below(promised'[f], Writes(durable'.file[f]))
      BY <2>2, VersionsCome DEF DurableComes, DiskInv
    <3>2. CASE file'[f] = file[f] \/ file'[f] = durable.file[f]
      BY <2>2, <3>1, <3>2 DEF DiskInv
    <3>3. CASE file[f] = Absent /\ file'[f] \in Content
      <4>1. promised[f] = << >> /\ file'[f] # Absent
        BY <3>3, VersionTypes, BelowFacts, PayloadsAreApart DEF DiskInv, Content
      <4> QED
        BY <2>2, <3>1, <3>3, <4>1, BelowFacts DEF Writes
    <3>4. CASE pc \in Writing /\ pc # "flush" /\ f = Current /\ file'[f] = draft
      <4>1. Below(promised[f], Writes(file[f])) /\ Below(Writes(file[f]), draft)
            /\ draft \in Content /\ draft # Absent
        BY <1>2, <3>4, PayloadsAreApart DEF DiskInv, Content
      <4>2. Below(promised[f], draft)
        BY <4>1, VersionTypes, BelowFacts
      <4> QED
        BY <2>2, <3>1, <3>4, <4>1, <4>2 DEF Writes
    <3> QED
      BY <3>2, <3>3, <3>4, VersionsCome DEF FileComes
  <2> QED
    BY <2>1, <2>2, VersionsCome DEF PromiseComes
<1>4. ASSUME NEW f \in File PROVE Below(ShownDurable(f)', Shown(f)')
  <2>1. /\ Shown(f) \in Content /\ ShownDurable(f) \in Content
        /\ Below(ShownDurable(f), Shown(f))
    BY VersionTypes DEF DiskInv
  <2>2. Shown(f)' \in Content
    BY VersionTypes, TypeOK', ShownTypes, ShownIsShownOf
       DEF TypeOK, OnDisk, Temporaries, Shown, ShownOf
  <2>3. UNCHANGED durable => ShownDurable(f)' = ShownDurable(f)
    BY DEF ShownDurable
  <2>4. CASE ShownStays
    BY <2>1, <2>4, BelowFacts DEF ShownStays, Same
  <2>5. CASE ShownGrows
    BY <2>1, <2>2, <2>3, <2>5, BelowFacts DEF ShownGrows, Same
  <2>6. CASE ShownFallsBack
    BY <2>1, <2>3, <2>6 DEF ShownFallsBack, Same
  <2>7. CASE ShownIsLost
    BY <2>2, <2>7, BelowFacts DEF ShownIsLost
  <2> QED
    BY <2>4, <2>5, <2>6, <2>7, ShownStep
<1>5. ASSUME ~ PowerLoss
      PROVE  /\ BundleIsSomewhere(file', temp') => directory'
             /\ BundleIsSomewhere(durable'.file, durable'.temp) => directory'
  <2>1. directory => directory'
    BY <1>5, CallsAreCalls DEF CallEffect, disk, Next, Recover, Operate, RecoverCanonical,
       RefuseRecovery, Promote, FlushPromoted, Answer, StartWriting, CreateTemp, FillTemp,
       Replace, Flush, WriteFails, Crash, vars
  <2>2. ASSUME NEW f \in File \ State,
               file'[f] # Absent \/ temp'[f] # {}
               \/ durable'.file[f] # Absent \/ durable'.temp[f] # {}
        PROVE  directory
    <3>1. CASE pc \in Writing /\ f = Current
      BY <2>2, <3>1 DEF WriteInv, File, Bundle
    <3>2. CASE ~ (pc \in Writing /\ f = Current)
      <4>1. \/ file[f] # Absent \/ temp[f] # {}
            \/ durable.file[f] # Absent \/ durable.temp[f] # {}
        BY <2>2, <3>2, VersionsCome DEF TempsCome, FileComes, DurableComes
      <4> QED
        BY <2>2, <4>1 DEF DiskInv, BundleIsSomewhere
    <3> QED
      BY <3>1, <3>2
  <2> QED
    BY <2>1, <2>2 DEF BundleIsSomewhere
<1>6. ASSUME PowerLoss
      PROVE  /\ BundleIsSomewhere(file', temp') => directory'
             /\ BundleIsSomewhere(durable'.file, durable'.temp) => directory'
  BY <1>6 DEF PowerLoss, BundleIsSomewhere
<1> QED
  BY <1>1, <1>3, <1>4, <1>5, <1>6 DEF DiskInv

\* A write begins with its operation's first file and goes on with the next one.
LEMMA CurrentComes ==
  ASSUME TypeOK, CallInv, WriteInv, [Next]_vars, pc' \in Writing
  PROVE  \/ /\ pc \in Writing /\ Current' = Current /\ UNCHANGED <<op, promised>>
         \/ /\ StartWriting /\ op = "bundle" /\ op' = op /\ Current' = "artifact"
         \/ /\ StartWriting /\ op \in Writers /\ op' = op /\ Current' = target
         \/ /\ Flush /\ pc = "flush" /\ op = "bundle" /\ op' = op
            /\ queue \in Rests /\ Current' = Head(Tail(queue))
            /\ Current' \in Bundle \cup {"input"}
<1>1. CASE CreateTemp \/ FillTemp \/ Replace \/ UNCHANGED vars
  BY <1>1 DEF CreateTemp, FillTemp, Replace, vars, session, call, Writing, Current
<1>2. CASE StartWriting
  <2>1. op \in Writers \cup {"bundle"} /\ op' = op
    BY <1>2 DEF StartWriting, Decided, NothingToWrite, CallInv, TypeOK, Writers, call
  <2>2. op = "bundle" => Current' = "artifact"
    BY <1>2 DEF StartWriting, BundleOrder, Current
  <2>3. op \in Writers => Current' = target
    BY <1>2 DEF StartWriting, Current, Writers
  <2> QED
    BY <1>2, <2>1, <2>2, <2>3
<1>3. CASE Flush
  <2>1. pc = "flush" /\ Len(queue) > 1 /\ queue' = Tail(queue) /\ op' = op
    BY <1>3 DEF Flush, Return, Writing, call
  <2>2. queue \in Rests /\ op = "bundle" /\ queue' \in Rests
    BY <2>1, CurrentFacts, RestFacts DEF Writing, Writers
  <2>3. Current' = Head(Tail(queue)) /\ Current' \in Bundle \cup {"input"}
    BY <2>1, <2>2, RestFacts DEF Current
  <2> QED
    BY <1>3, <2>1, <2>2, <2>3
<1>4. CASE Call \/ Recover \/ Answer \/ WriteFails \/ Crash \/ PowerLoss
  BY <1>4, CallsAreCalls DEF CallEffect, Recover, RecoverCanonical, Recovering, RefuseRecovery,
     Promote, FlushPromoted, Answer, WriteFails, Crash, PowerLoss, Return, Writing
<1> QED
  BY <1>1, <1>2, <1>3, <1>4 DEF Next, Operate

\* Every step keeps the record behind its bundle and the journal behind its record.
LEMMA ContentInvStep ==
  ASSUME TypeOK, CallInv, RecoverInv, WriteInv, DiskInv, ContentInv, [Next]_vars
  PROVE  ContentInv'
<1>1. {"journal", "record"} \cup Bundle \cup {"input"} \subseteq File
  BY DEF File, State
<1>2. \A f \in File : promised[f] # << >> => promised'[f] # << >>
  BY PromisesStay
<1>3. ASSUME NEW c \in temp'["journal"] \cup durable'.temp["journal"]
                       \cup {file'["journal"], durable'.file["journal"]},
             c \in Content
      PROVE  Unique(c)
  <2>1. \/ c \in temp["journal"] \cup durable.temp["journal"]
             \cup {file["journal"], durable.file["journal"]}
        \/ pc \in Writing /\ Current = "journal" /\ c \in {<< >>, Torn, draft}
    BY <1>1, <1>3, VersionsCome DEF TempsCome, FileComes, DurableComes
  <2>2. Unique(<< >>) /\ Torn \notin Content
    BY PayloadsAreApart DEF Unique, Content
  <2> QED
    BY <1>3, <2>1, <2>2 DEF ContentInv, WriteInv
<1>4. ASSUME \/ file'["record"] # Absent \/ temp'["record"] # {}
             \/ durable'.file["record"] # Absent \/ durable'.temp["record"] # {}
             \/ pc' \in Writing /\ Current' = "record"
      PROVE  promised'["manifest"] # << >>
  <2>1. SUFFICES promised["manifest"] # << >>
    BY <1>1, <1>2 DEF Bundle
  <2>2. CASE pc' \in Writing /\ Current' = "record"
    <3>1. CASE pc \in Writing /\ Current = "record"
      BY <3>1 DEF ContentInv
    <3>2. CASE StartWriting /\ op \in Writers /\ target = "record"
      <4>1. op \in {"create", "cas"}
        BY <3>2, PayloadsAreApart DEF CallInv, Writers, State
      <4>2. op = "cas" => file["record"] # Absent
        BY <3>2 DEF RecoverInv, StartWriting, Decided, Pending
      <4> QED
        BY <4>1, <4>2 DEF CallInv, ContentInv
    <3> QED
      BY <2>2, <3>1, <3>2, CurrentComes DEF Bundle
  <2>3. CASE ~ (pc' \in Writing /\ Current' = "record")
    BY <1>1, <1>4, <2>3, VersionsCome DEF TempsCome, FileComes, DurableComes, ContentInv
  <2> QED
    BY <2>2, <2>3
<1>5. /\ promised'["manifest"] # << >> => promised'["input"] # << >>
      /\ promised'["input"] # << >> => promised'["configuration"] # << >>
      /\ promised'["configuration"] # << >> => promised'["artifact"] # << >>
  <2>1. ASSUME NEW f \in Bundle \cup {"input"}
        PROVE  \/ promised'[f] = promised[f]
               \/ pc \in Writing /\ Current = f /\ op = "bundle"
    BY <1>1, VersionsCome, CurrentFacts DEF PromiseComes, Writing
  <2> QED
    BY <1>1, <1>2, <2>1 DEF ContentInv, Bundle
<1>6. ASSUME pc' \in Writing, op' = "bundle"
      PROVE  /\ Current' = "configuration" => promised'["artifact"] # << >>
             /\ Current' = "input" => promised'["configuration"] # << >>
             /\ Current' = "manifest" => promised'["input"] # << >>
  <2>1. CASE pc \in Writing /\ Current' = Current /\ UNCHANGED <<op, promised>>
    BY <1>6, <2>1 DEF ContentInv
  <2>2. CASE Current' = "artifact"
    BY <2>2
  <2>3. CASE Flush /\ pc = "flush" /\ op = "bundle" /\ queue \in Rests
             /\ Current' = Head(Tail(queue))
    <3>1. promised'[Current] # << >> /\ Current \in Bundle \cup {"input"}
      BY <2>3, CurrentFacts DEF Flush, WriteInv, Writing, TypeOK
    <3>2. Current # "manifest"
      <4>1. Len(queue) > 1
        BY <1>6, <2>3 DEF Flush, Return, Writing
      <4> QED
        BY <2>3, <4>1, RestFacts DEF Current
    <3>3. /\ Current = "artifact" => Current' = "configuration"
          /\ Current = "configuration" => Current' = "input"
          /\ Current = "input" => Current' = "manifest"
      BY <2>3, RestFacts DEF Current
    <3> QED
      BY <3>1, <3>2, <3>3 DEF Bundle
  <2> QED
    BY <1>6, <2>1, <2>2, <2>3, CurrentComes DEF Writers
<1> QED
  BY <1>3, <1>4, <1>5, <1>6 DEF ContentInv

\* The invariant holds of an empty store.
LEMMA StoreIInvInit == Init => StoreIInv
<1> SUFFICES ASSUME Init PROVE StoreIInv
  OBVIOUS
<1>1. << >> \in Content /\ << >> \in Seq(File)
  BY EmptySeq DEF Content
<1>2. TypeOK
  BY <1>1 DEF Init, TypeOK, OnDisk, Temporaries, File, State
<1>3. CallInv /\ RecoverInv /\ WriteInv
  BY DEF Init, CallInv, RecoverInv, WriteInv, Writing
<1>4. ASSUME NEW f \in File
      PROVE  /\ file[f] = Absent /\ temp[f] = {} /\ durable.file[f] = Absent
             /\ durable.temp[f] = {} /\ promised[f] = << >>
  BY DEF Init
<1>5. ASSUME NEW f \in File
      PROVE  Shown(f) = << >> /\ ShownDurable(f) = << >>
  BY <1>4, ShownFacts, ShownIsShownOf DEF Writes
<1>6. DiskInv
  BY <1>1, <1>4, <1>5, BelowFacts DEF DiskInv, AtMostOne, BundleIsSomewhere, Writes
<1>7. ContentInv
  <2>1. {"journal", "record"} \cup Bundle \cup {"input"} \subseteq File /\ Absent \notin Content
    BY PayloadsAreApart DEF File, State, Content
  <2> QED
    BY <1>4, <2>1 DEF ContentInv, Bundle, Init, Writing
<1> QED
  BY <1>2, <1>3, <1>6, <1>7 DEF StoreIInv

\* The invariant is inductive: the steps above, one conjunct at a time.
LEMMA StoreIInvStep == StoreIInv /\ [Next]_vars => StoreIInv'
<1> SUFFICES ASSUME StoreIInv, [Next]_vars PROVE StoreIInv'
  OBVIOUS
<1>1. TypeOK /\ CallInv /\ RecoverInv /\ WriteInv /\ DiskInv /\ ContentInv
  BY DEF StoreIInv
<1>2. TypeOK'
  BY <1>1, TypeOKStep
<1> QED
  BY <1>1, <1>2, CallInvStep, RecoverInvStep, WriteInvStep, DiskInvStep, ContentInvStep
  DEF StoreIInv
-----------------------------------------------------------------------------
(* What follows.                                                           *)

\* The inductive invariant holds in every state.
LEMMA StoreIsInductive == Spec => []StoreIInv
  BY StoreIInvInit, StoreIInvStep, PTL DEF Spec

\* What AtMostOne says of its cardinality.
LEMMA AtMostOneIsFinite ==
  ASSUME NEW temps, AtMostOne(temps)
  PROVE  Cardinality(temps) <= 1
<1>1. CASE temps = {}
  BY <1>1, FS_EmptySet
<1>2. ASSUME NEW c, temps = {c} PROVE Cardinality(temps) <= 1
  BY <1>2, FS_Singleton
<1> QED
  BY <1>1, <1>2 DEF AtMostOne

\* However often the process or the power fails and writes are refused: a file never has
\* two temporaries, a record never lacks a file of its bundle, an event is never in the
\* journal twice, and recovery refuses no file that was ever acknowledged.
THEOREM StoreKeepsItsFiles == Spec => []StoreInv
<1>1. StoreIInv => StoreInv
  <2> SUFFICES ASSUME TypeOK, WriteInv, DiskInv, ContentInv PROVE StoreInv
    BY DEF StoreIInv
  <2>1. OneCandidate
    BY AtMostOneIsFinite DEF DiskInv, OneCandidate
  <2>2. ASSUME NEW f \in File, promised[f] # << >>
        PROVE  file[f] # Absent /\ Shown(f) # << >>
    <3>1. Writes(file[f]) # << >>
      BY <2>2, VersionTypes, BelowFacts DEF DiskInv
    <3>2. file[f] # Absent
      BY <3>1 DEF Writes
    <3>3. Shown(f) = file[f]
      BY <3>2, ShownFacts, ShownIsShownOf
    <3> QED
      BY <3>1, <3>2, <3>3, VersionTypes
  <2>3. RecordHasBundle
    <3>1. "record" \in File /\ Bundle \cup {"input"} \subseteq File
      BY DEF File, State
    <3>2. Shown("record") # << >> => file["record"] # Absent \/ temp["record"] # {}
      BY <3>1, ShownFacts, ShownIsShownOf DEF Writes
    <3> QED
      BY <2>2, <3>1, <3>2 DEF RecordHasBundle, ContentInv, Bundle
  <2>4. EventsAreUnique
    <3>1. "journal" \in File
      BY DEF File, State
    <3>2. Shown("journal") \in {<< >>, file["journal"]} \cup temp["journal"]
      BY <3>1 DEF Shown, Writes
    <3>3. Shown("journal") \in Content
      BY <3>1, VersionTypes
    <3>4. Unique(Shown("journal"))
      BY <3>2, <3>3 DEF ContentInv, Unique
    <3> QED
      BY <3>4 DEF EventsAreUnique, Unique
  <2>5. RefusalLosesNothing
    BY <2>2 DEF RefusalLosesNothing
  <2> QED
    BY <2>1, <2>3, <2>4, <2>5 DEF StoreInv
<1> QED
  BY StoreIsInductive, <1>1, PTL

\* What was acknowledged is what every reader finds, or the beginning of it.
PromisesAreShown ==
  \A f \in File : /\ Below(promised[f], Shown(f))
                  /\ promised[f] \in Content /\ Shown(f) \in Content

\* What has been acknowledged is always shown, as contents of the right kind.
LEMMA PromisesAreShownIsInvariant == Spec => []PromisesAreShown
<1>1. StoreIInv => PromisesAreShown
  <2> SUFFICES ASSUME TypeOK, DiskInv, NEW f \in File
               PROVE  /\ Below(promised[f], Shown(f))
                      /\ promised[f] \in Content /\ Shown(f) \in Content
    BY DEF StoreIInv, PromisesAreShown
  <2>1. CASE file[f] # Absent
    BY <2>1, VersionTypes, ShownFacts, ShownIsShownOf DEF DiskInv
  <2>2. CASE file[f] = Absent
    BY <2>2, VersionTypes, BelowFacts DEF DiskInv
  <2> QED
    BY <2>1, <2>2
<1> QED
  BY StoreIsInductive, <1>1, PTL

\* A step of the store is a write, an acknowledgement, a loss or nothing.
LEMMA StepsAreStored ==
  ASSUME StoreIInv, PromisesAreShown, PromisesAreShown', [Next]_vars
  PROVE  [Promises!Lose \/ \E f \in File : Promises!Write(f) \/ Promises!Promise(f)]_
           <<[f \in File |-> Shown(f)], promised>>
<1> DEFINE shown == [f \in File |-> Shown(f)]
<1>1. TypeOK /\ CallInv /\ WriteInv /\ DiskInv
  BY DEF StoreIInv
<1>2. \A f \in File : shown[f] = Shown(f) /\ shown'[f] = Shown(f)'
  OBVIOUS
<1>3. shown = [f \in File |-> shown[f]] /\ shown' = [f \in File |-> shown'[f]]
  OBVIOUS
<1>4. CASE ShownStays
  <2>1. shown' = shown
    BY <1>4 DEF ShownStays, Same
  <2>2. CASE ~ Flush
    <3>1. UNCHANGED promised
      BY <1>1, <2>2, CallsAreCalls DEF CallEffect, Next, Recover, Operate, RecoverCanonical,
         RefuseRecovery, Promote, FlushPromoted, Answer, StartWriting, CreateTemp, FillTemp,
         Replace, WriteFails, Crash, PowerLoss, vars
    <3> QED
      BY <2>1, <3>1
  <2>3. CASE Flush
    <3>1. /\ Current \in File /\ file[Current] = draft /\ draft # Absent
          /\ promised' = [promised EXCEPT ![Current] = file[Current]]
      BY <1>1, <2>3, CurrentFacts, PayloadsAreApart
      DEF Flush, WriteInv, Writing, TypeOK, Content
    <3>2. shown[Current] = file[Current]
      BY <3>1, ShownFacts, ShownIsShownOf
    <3>3. Promises!Promise(Current)
      BY <2>1, <3>1, <3>2 DEF Promises!Promise
    <3> QED
      BY <3>1, <3>3
  <2> QED
    BY <2>2, <2>3
<1>5. CASE ShownGrows
  <2>1. PICK g \in File :
          /\ \A f \in File \ {g} : Same(f)
          /\ Below(Shown(g), Shown(g)') /\ Len(Shown(g)') = Len(Shown(g)) + 1
    BY <1>5 DEF ShownGrows
  <2>2. shown' = [shown EXCEPT ![g] = shown'[g]]
    BY <2>1 DEF Same
  <2>3. UNCHANGED promised
    BY <1>5 DEF ShownGrows
  <2>4. Len(shown'[g]) = Len(shown[g]) + 1 /\ Below(shown[g], shown'[g])
    BY <1>2, <2>1
  <2>5. Promises!Write(g)
    BY <2>2, <2>3, <2>4 DEF Promises!Write, Promises!Prefix, Below
  <2> QED
    BY <2>5
<1>6. CASE ShownFallsBack \/ ShownIsLost
  <2>1. UNCHANGED promised
    BY <1>6 DEF ShownFallsBack, ShownIsLost
  <2>2. ASSUME NEW f \in File
        PROVE  Below(shown'[f], shown[f]) /\ Below(promised[f], shown'[f])
    <3>1. Below(promised[f], Shown(f)')
      BY <2>1 DEF PromisesAreShown
    <3>2. Below(Shown(f), Shown(f))
      BY BelowFacts DEF PromisesAreShown
    <3>3. Below(ShownDurable(f), Shown(f))
      BY <1>1 DEF DiskInv
    <3>4. Below(Shown(f)', Shown(f))
      BY <1>6, <3>2, <3>3 DEF ShownFallsBack, ShownIsLost, Same
    <3> QED
      BY <1>2, <3>1, <3>4
  <2>3. Promises!Lose
    BY <1>3, <2>1, <2>2 DEF Promises!Lose, Promises!Prefix, Below
  <2> QED
    BY <2>3
<1> QED
  BY <1>1, <1>4, <1>5, <1>6, ShownStep

\* Files grow by whole writes, an acknowledgement is of what is shown, and what faults take
\* back was never acknowledged: the store implements StoredFiles.
THEOREM StoreImplementsStoredFiles == Spec => KeepsPromises
<1>1. Init => Promises!StoredInit
  <2> SUFFICES ASSUME Init PROVE Promises!StoredInit
    OBVIOUS
  <2>1. ASSUME NEW f \in File PROVE Shown(f) = << >>
    BY ShownFacts, ShownIsShownOf DEF Init, Writes
  <2> QED
    BY <2>1 DEF Promises!StoredInit, Init
<1>2. StoreIInv /\ PromisesAreShown /\ PromisesAreShown' /\ [Next]_vars =>
        [Promises!Lose \/ \E f \in File : Promises!Write(f) \/ Promises!Promise(f)]_
          <<[f \in File |-> Shown(f)], promised>>
  BY StepsAreStored
<1> QED
  BY <1>1, <1>2, StoreIsInductive, PromisesAreShownIsInvariant, PTL
  DEF Spec, KeepsPromises, Promises!StoredSpec
=============================================================================
