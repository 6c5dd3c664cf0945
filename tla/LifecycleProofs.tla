--------------------------- MODULE LifecycleProofs ---------------------------
(***************************************************************************)
(* The bounds of an execution survive its interruptions, each of its       *)
(* effects is made once, what its callers write in turns replays, and a    *)
(* completed execution has earned its verdict: for any number of callers,  *)
(* any policy, any limits, and however often somebody dies.                *)
(*                                                                         *)
(* Who is in a section is alone there, and its place says what the state   *)
(* and the journal are; who waits between two sections carries a request   *)
(* that either still holds or shows in its number that it is late.         *)
(***************************************************************************)
EXTENDS Lifecycle, FiniteSetTheorems, WellFoundedInduction, TLAPS

-----------------------------------------------------------------------------
(* The inductive invariant: the journal by itself.                         *)

\* States before the graph is entered, those in which there is no plan yet, and those
\* from which an execution still goes on.
Early == {"absent", "INITIATED", "CONTEXT_ASSEMBLING", "BLOCKED_INSUFFICIENT_CONTEXT",
          "PLANNING"}
Gathering == Early \ {"PLANNING"}
Alive == Early \cup {"EXECUTING", "VERIFYING"}

Ended == Count({"NODE_COMPLETED", "NODE_FAILED"})

PlansAsked == Count({"PLAN_GENERATION_STARTED"})

IsJournal(j) == \E S : j \in Seq(S)

\* What the journal says of context, plan and visits.
HistoryInv ==
  /\ Decisions <= MaxRetrievals + 1
  /\ PlansAsked <= 1
  /\ Started => LastDecision # 0 /\ Sufficient(LastDecision)
  /\ Visits > 0 => Generated
  /\ Ended <= Visits /\ Visits <= Ended + 1 /\ Visits <= MaxIterations

\* What is attempted, and under which number.
StartIsTyped(s) ==
  /\ s.type = "PLAN_GENERATION_STARTED" => s.node = "planning" /\ s.attempt = 1
  /\ s.type = "NODE_STARTED" => s.node = "work" /\ s.attempt \in Nat /\ s.attempt <= Visits
  /\ s.type = "VERIFICATION_GATE_STARTED" => s.node \in Gates

StartsInv == \A s \in Positions(Attempted) : StartIsTyped(journal[s])

\* Suites are numbered; what belongs to none yet has the next number.
SuitesInv ==
  /\ \A i \in Positions(SuiteEvents) :
       /\ journal[i].attempt \in Nat
       /\ i <= LastSuite => journal[i].attempt <= Cardinality(Suites)
       /\ i > LastSuite => journal[i].attempt = SuiteNumber
  /\ \A i, k \in Suites : i < k => journal[i].attempt < journal[k].attempt
  /\ Suites # {} => journal[LastSuite].attempt = Cardinality(Suites)
  /\ \A i \in Positions({"VERIFICATION_SUITE_RECORDED", "VERIFICATION_GATE_RECORDED"}) :
       journal[i].passed \in BOOLEAN
  /\ Suites # {} /\ journal[LastSuite].passed =>
       Last({"VERIFICATION_REPAIR_SCHEDULED", "NODE_STARTED"}) < LastSuite

SchedulesInv ==
  /\ SchedulesReplay
  /\ Cardinality(Schedules) <= RetryMax
  /\ \A i \in Schedules : journal[i].deadline \in Nat
  /\ \A i, k \in Schedules : journal[i].source = journal[k].source => i = k

JournalInv == IsJournal(journal) /\ HistoryInv /\ StartsInv /\ SuitesInv /\ SchedulesInv

-----------------------------------------------------------------------------
(* The inductive invariant: the state and the callers.                     *)

\* What was written before the graph is entered, and in which states more may come.
GraphEvents == SuiteEvents \cup {"NODE_STARTED", "NODE_COMPLETED", "NODE_FAILED",
                                 "VERIFICATION_REPAIR_SCHEDULED"}

StateInv ==
  /\ state \in Early => Positions(GraphEvents) = {} /\ cursor = "work"
  /\ state \in Gathering => ~ Started
  /\ state \in {"absent", "INITIATED"} => Decisions = 0
  /\ state = "CONTEXT_ASSEMBLING" /\ ~ DecisionPending => Decisions <= MaxRetrievals
  /\ state = "PLANNING" => LastDecision # 0
  /\ state \in {"EXECUTING", "VERIFYING"} => Generated
  /\ state = "EXECUTING" => (Suites # {} => ~ journal[LastSuite].passed)
  /\ state = "EXECUTING" /\ ~ NodeIsOpen /\ (cursor = "work" \/ RepairPending) =>
       Visits < MaxIterations
  /\ state = "VERIFYING" => ~ NodeIsOpen

\* One caller at a time is in a section ...
LockInv == \A c, d \in Callers : at[c] \in Sections /\ at[d] \in Sections => c = d

\* ... and its place says where the execution is.
PlaceOf(c) ==
  /\ at[c] # "suite"
  /\ at[c] = "assembling" => state = "CONTEXT_ASSEMBLING" /\ ~ DecisionPending
  /\ at[c] = "decided" => state = "CONTEXT_ASSEMBLING" /\ DecisionPending
  /\ at[c] \in {"planning", "planned"} => state = "PLANNING"
  /\ at[c] = "execute" => Generated
  /\ at[c] \in {"loop", "node", "worked", "scheduling", "cursor"} => state = "EXECUTING"
  /\ at[c] \in {"loop", "scheduling", "cursor"} => ~ NodeIsOpen
  /\ at[c] \in {"node", "worked"} => NodeIsOpen
  /\ at[c] = "cursor" => RepairPending
  /\ at[c] \in {"gates", "run", "verdict"} => state = "VERIFYING"

\* An effect that was not made yet, after its start was written.
IsNew(e) == \A i \in DOMAIN effects : effects[i] # e
IsStarted(e) == \E s \in Positions(Attempted) : <<journal[s].node, journal[s].attempt>> = e

MadeOnce ==
  /\ \A i, k \in DOMAIN effects : effects[i] = effects[k] => i = k
  /\ \A i \in DOMAIN effects : IsStarted(effects[i])

DueOf(c) == \A e \in Unrecorded(c) : IsNew(e) /\ IsStarted(e)

\* A request for a repair holds, or a later one was scheduled and its number is late.
RequestOf(c) ==
  at[c] \in {"schedule", "scheduling"} =>
    /\ Suites # {} /\ seen[c].visit <= MaxIterations /\ seen[c].repair <= RetryMax
    /\ seen[c].repair <= Cardinality(Schedules) + 1
    /\ seen[c].repair = Cardinality(Schedules) + 1 =>
         /\ ~ RepairedSince
         /\ \A k \in Schedules : journal[k].deadline = seen[c].deadline
    /\ at[c] = "scheduling" =>
         /\ seen[c].visit = Visits + 1
         /\ seen[c].repair = Cardinality(Schedules) + 1
         /\ seen[c].source = journal[LastSuite].attempt

\* The suites but for one that goes on.
SuitesAreWhole ==
  /\ \A i \in Positions(SuiteEvents) : Continues(i)
  /\ \A i \in Suites : IsWhole(i)

\* How far a suite has come: what it has run and what is left make the suite.
InSuite == {"gates", "run"}

Recorded(c) ==
  LET n == SuiteNumber
      last == Last(SuiteEvents)
  IN  /\ n = 1 => GatesOf(n) \cup seen[c].gates = Gates
      /\ GatesOf(n) \cup seen[c].gates # {}
      /\ GatesOf(n) \cap seen[c].gates = {}
      /\ \A q, r \in Results(n) : q < r => Precedes(journal[q].node, journal[r].node)
      /\ \A r \in Results(n), g \in seen[c].gates : Precedes(journal[r].node, g)
      /\ last > LastSuite => journal[last].commit = seen[c].commit
      /\ at[c] = "gates" =>
           last = LastSuite \/ journal[last].type = "VERIFICATION_GATE_RECORDED"
      /\ at[c] = "run" =>
           /\ seen[c].gates # {} /\ last > LastSuite
           /\ journal[last].type = "VERIFICATION_GATE_STARTED"
           /\ journal[last].node = NextGate(c)
      /\ \A s \in Positions({"VERIFICATION_GATE_STARTED"}) :
           journal[s].attempt = n =>
             \/ journal[s].node \in GatesOf(n)
             \/ at[c] = "run" /\ journal[s].node = NextGate(c)

ProgressOf(c) ==
  /\ at[c] \in InSuite => SuitesAreWhole /\ Recorded(c)
  /\ at[c] = "verdict" => Suites # {} /\ SuitesReplay

\* Without a death no suite is interrupted in an execution that goes on.
Uninterrupted ==
  faults = 0 /\ state \in Alive /\ (\A c \in Callers : at[c] \notin InSuite) => SuitesReplay

CallerInv == \A c \in Callers : PlaceOf(c) /\ DueOf(c) /\ RequestOf(c) /\ ProgressOf(c)

TypeInv == TypeOK /\ DOMAIN seen = Callers /\ effects \in Seq(Nodes \X Nat)

ServiceInv ==
  /\ TypeInv /\ JournalInv /\ StateInv /\ LockInv /\ CallerInv
  /\ MadeOnce /\ Uninterrupted /\ VerdictIsEarned

-----------------------------------------------------------------------------
(* Positions in the journal.                                               *)

\* A bounded set of positions has a last one ...
LEMMA GreatestPosition ==
  ASSUME NEW S \in SUBSET Nat, NEW n \in Nat, \A s \in S : s <= n, S # {}
  PROVE  \E m \in S : \A k \in S : k <= m
<1> DEFINE T == {n - s : s \in S}
<1>1. T \in SUBSET Nat /\ T # {}
  <2>1. \A s \in S : n - s \in Nat
    <3>1. \A s \in S : s \in Nat /\ s <= n
      OBVIOUS
    <3> QED
      BY <3>1
  <2> QED
    BY <2>1
<1>2. PICK x \in T : \A y \in T : ~ (<<y, x>> \in OpToRel(<, Nat))
  BY <1>1, NatLessThanWellFounded, WFMin
<1>3. \A y \in T : ~ (y < x)
  BY <1>1, <1>2 DEF OpToRel
<1>4. PICK m \in S : x = n - m
  OBVIOUS
<1>5. ASSUME NEW k \in S PROVE k <= m
  <2>1. n - k \in T /\ ~ (n - k < n - m)
    BY <1>3, <1>4
  <2> QED
    BY <2>1
<1> QED
  BY <1>5

\* ... which is what Max chooses ...
LEMMA MaxIsLast ==
  ASSUME NEW n \in Nat, NEW S \in SUBSET (0 .. n), S # {}
  PROVE  Max(S) \in S /\ \A k \in S : k <= Max(S)
<1>1. S \in SUBSET Nat /\ \A s \in S : s <= n
  OBVIOUS
<1>2. \E m \in S : \A k \in S : k <= m
  BY <1>1, GreatestPosition
<1>3. \E m \in S : \A k \in S : m >= k
  BY <1>1, <1>2
<1>4. Max(S) \in S /\ \A k \in S : Max(S) >= k
  BY <1>3 DEF Max
<1> QED
  BY <1>1, <1>4

\* ... and a first one, which is what Min chooses.
LEMMA MinIsFirst ==
  ASSUME NEW S \in SUBSET Nat, S # {}
  PROVE  Min(S) \in S /\ \A k \in S : Min(S) <= k
<1>1. PICK x \in S : \A y \in S : ~ (<<y, x>> \in OpToRel(<, Nat))
  BY NatLessThanWellFounded, WFMin
<1>2. \A y \in S : x <= y
  <2>1. \A y \in S : ~ (y < x)
    BY <1>1 DEF OpToRel
  <2>2. \A y \in S : y \in Nat /\ x \in Nat
    OBVIOUS
  <2> QED
    BY <2>1, <2>2
<1>3. Min(S) \in S /\ \A y \in S : Min(S) <= y
  BY <1>2 DEF Min
<1> QED
  BY <1>3

\* Positions of some types, the last of them and their number.
LEMMA PositionFacts ==
  ASSUME IsJournal(journal), NEW types
  PROVE  /\ Len(journal) \in Nat /\ DOMAIN journal = 1 .. Len(journal)
         /\ Positions(types) \subseteq 1 .. Len(journal)
         /\ \A i \in Positions(types) :
              i \in Nat /\ i >= 1 /\ i <= Len(journal) /\ journal[i].type \in types
         /\ \A i \in DOMAIN journal : journal[i].type \in types => i \in Positions(types)
         /\ IsFiniteSet(Positions(types))
         /\ Last(types) \in Nat /\ Last(types) <= Len(journal)
         /\ Last(types) = 0 \/ Last(types) \in Positions(types)
         /\ \A i \in Positions(types) : i <= Last(types)
         /\ Count(types) \in Nat
         /\ Count(types) = 0 <=> Positions(types) = {}
<1>1. PICK S : journal \in Seq(S)
  BY DEF IsJournal
<1>2. Len(journal) \in Nat /\ DOMAIN journal = 1 .. Len(journal)
  BY <1>1
<1>3. /\ Positions(types) \subseteq 1 .. Len(journal)
      /\ \A i \in Positions(types) : journal[i].type \in types
      /\ \A i \in DOMAIN journal : journal[i].type \in types => i \in Positions(types)
  BY <1>2 DEF Positions, Of
<1>4. IsFiniteSet(Positions(types))
  <2>1. IsFiniteSet(1 .. Len(journal))
    BY <1>2, FS_Interval
  <2> QED
    BY <1>3, <2>1, FS_Subset
<1>5. /\ Last(types) \in Positions(types) \cup {0}
      /\ \A i \in Positions(types) \cup {0} : i <= Last(types)
  <2>1. Positions(types) \cup {0} \in SUBSET (0 .. Len(journal))
    BY <1>2, <1>3
  <2> QED
    BY <1>2, <2>1, MaxIsLast DEF Last
<1>6. Count(types) \in Nat /\ (Count(types) = 0 <=> Positions(types) = {})
  BY <1>4, FS_CardinalityType, FS_EmptySet DEF Count
<1> QED
  BY <1>2, <1>3, <1>4, <1>5, <1>6

-----------------------------------------------------------------------------
(* What a step writes.                                                     *)

\* Events of the ledger, which no command looks at.
Silent == {"BUDGET_RESERVED", "BUDGET_COMMITTED", "BUDGET_EXCEEDED"}

Continued ==
  /\ IsJournal(journal')
  /\ Len(journal') >= Len(journal)
  /\ \A i \in DOMAIN journal : journal'[i] = journal[i]

\* Nothing else was written.
Keeps ==
  /\ Continued
  /\ \A i \in DOMAIN journal' : i > Len(journal) => journal'[i].type \in Silent

\* One event more was written, and nothing else after it.
Adds(e) ==
  /\ Continued
  /\ Len(journal') > Len(journal) /\ journal'[Len(journal) + 1] = e
  /\ \A i \in DOMAIN journal' : i > Len(journal) + 1 => journal'[i].type \in Silent

\* Append, position by position.
LEMMA AppendFacts ==
  ASSUME NEW j, IsJournal(j), NEW e
  PROVE  /\ IsJournal(Append(j, e)) /\ Len(Append(j, e)) = Len(j) + 1
         /\ DOMAIN Append(j, e) = 1 .. Len(j) + 1 /\ DOMAIN j = 1 .. Len(j)
         /\ Len(j) \in Nat
         /\ \A i \in 1 .. Len(j) : Append(j, e)[i] = j[i]
         /\ Append(j, e)[Len(j) + 1] = e
<1>1. PICK S : j \in Seq(S)
  BY DEF IsJournal
<1>2. j \in Seq(S \cup {e}) /\ e \in S \cup {e}
  BY <1>1
<1>3. Append(j, e) \in Seq(S \cup {e})
  BY <1>2
<1> QED
  BY <1>2, <1>3 DEF IsJournal

\* What is written is the new last event.
LEMMA WriteAdds ==
  ASSUME IsJournal(journal), NEW e, Write(e)
  PROVE  Adds(e)
BY AppendFacts DEF Write, Adds, Continued

\* Who writes nothing leaves the journal as it is ...
LEMMA NothingKeeps ==
  ASSUME IsJournal(journal), UNCHANGED journal
  PROVE  Keeps
<1>1. \A i \in DOMAIN journal : i <= Len(journal)
  BY DEF IsJournal
<1>2. Len(journal) \in Nat
  BY DEF IsJournal
<1> QED
  BY <1>1, <1>2 DEF Keeps, Continued

\* ... and so, for the invariant, does who writes what it does not count.
LEMMA SilenceKeeps ==
  ASSUME IsJournal(journal), NEW e, e.type \in Silent, Write(e)
  PROVE  Keeps
BY AppendFacts DEF Write, Keeps, Continued

\* Nothing of some types was written.
Without(types) ==
  /\ Continued
  /\ \A i \in DOMAIN journal' : i > Len(journal) => journal'[i].type \notin types

\* A silent step writes nothing that is counted,
LEMMA KeepsWithout ==
  ASSUME Keeps, NEW types, types \cap Silent = {}
  PROVE  Without(types)
BY DEF Keeps, Without

\* and an event of one type nothing of the others.
LEMMA AddsWithout ==
  ASSUME IsJournal(journal), NEW e, Adds(e), NEW types, types \cap Silent = {},
         e.type \notin types
  PROVE  Without(types)
<1> SUFFICES ASSUME NEW i \in DOMAIN journal', i > Len(journal)
             PROVE  journal'[i].type \notin types
  BY DEF Adds, Without
<1>1. i \in Nat /\ Len(journal) \in Nat
  BY DEF IsJournal, Adds, Continued
<1>2. i = Len(journal) + 1 \/ i > Len(journal) + 1
  BY <1>1
<1> QED
  BY <1>2 DEF Adds

\* Positions, the last and their number, where nothing of these types was written ...
LEMMA WithoutPositions ==
  ASSUME IsJournal(journal), NEW types, Without(types)
  PROVE  /\ Positions(types)' = Positions(types)
         /\ Last(types)' = Last(types)
         /\ Count(types)' = Count(types)
<1>1. /\ DOMAIN journal = 1 .. Len(journal) /\ Len(journal) \in Nat
      /\ DOMAIN journal' = 1 .. Len(journal') /\ Len(journal') \in Nat
  BY DEF IsJournal, Without, Continued
<1>2. \A i : i \in Of(journal', types) <=> i \in Of(journal, types)
  <2>1. ASSUME NEW i \in Of(journal', types) PROVE i \in Of(journal, types)
    BY <1>1, <2>1 DEF Of, Without, Continued
  <2>2. ASSUME NEW i \in Of(journal, types) PROVE i \in Of(journal', types)
    BY <1>1, <2>2 DEF Of, Without, Continued
  <2> QED
    BY <2>1, <2>2
<1>3. Positions(types)' = Positions(types)
  BY <1>2 DEF Positions
<1> QED
  BY <1>3 DEF Last, Count

\* ... or in one with one event more.
LEMMA AddsPositions ==
  ASSUME IsJournal(journal), NEW e, Adds(e), NEW types, types \cap Silent = {}
  PROVE  /\ Positions(types)' =
              IF e.type \in types THEN Positions(types) \cup {Len(journal) + 1}
              ELSE Positions(types)
         /\ Last(types)' = IF e.type \in types THEN Len(journal) + 1 ELSE Last(types)
         /\ Count(types)' = IF e.type \in types THEN Count(types) + 1 ELSE Count(types)
<1>1. /\ DOMAIN journal = 1 .. Len(journal) /\ Len(journal) \in Nat
      /\ DOMAIN journal' = 1 .. Len(journal') /\ Len(journal') \in Nat
      /\ Len(journal) + 1 \in DOMAIN journal'
  BY DEF IsJournal, Adds, Continued
<1>2. \A i \in Of(journal', types) :
        i \in Of(journal, types) \/ (i = Len(journal) + 1 /\ e.type \in types)
  <2> SUFFICES ASSUME NEW i \in Of(journal', types), i # Len(journal) + 1
               PROVE  i \in Of(journal, types)
    BY DEF Of, Adds
  <2>1. i \in 1 .. Len(journal') /\ journal'[i].type \in types
    BY <1>1 DEF Of
  <2>2. ~ (i > Len(journal) + 1)
    BY <1>1, <2>1 DEF Adds
  <2>3. i \in 1 .. Len(journal)
    BY <1>1, <2>1, <2>2
  <2> QED
    BY <1>1, <2>1, <2>3 DEF Of, Adds, Continued
<1>3. \A i \in Of(journal, types) : i \in Of(journal', types)
  <2> SUFFICES ASSUME NEW i \in Of(journal, types) PROVE i \in Of(journal', types)
    OBVIOUS
  <2>1. i \in 1 .. Len(journal) /\ journal[i].type \in types
    BY <1>1 DEF Of
  <2>2. i \in 1 .. Len(journal') /\ journal'[i] = journal[i]
    BY <1>1, <2>1 DEF Adds, Continued
  <2> QED
    BY <1>1, <2>1, <2>2 DEF Of
<1>4. e.type \in types => Len(journal) + 1 \in Of(journal', types)
  BY <1>1 DEF Of, Adds
<1>5. Positions(types)' = IF e.type \in types THEN Positions(types) \cup {Len(journal) + 1}
                          ELSE Positions(types)
  <2>1. Positions(types)' = Of(journal', types) /\ Positions(types) = Of(journal, types)
    BY DEF Positions
  <2>2. CASE e.type \in types
    BY <1>2, <1>3, <1>4, <2>1, <2>2
  <2>3. CASE e.type \notin types
    <3>1. \A i : i \in Of(journal', types) <=> i \in Of(journal, types)
      BY <1>2, <1>3, <2>3
    <3> QED
      BY <2>1, <2>3, <3>1
  <2> QED
    BY <2>2, <2>3
<1>6. CASE e.type \notin types
  BY <1>5, <1>6 DEF Last, Count
<1>7. CASE e.type \in types
  <2>1. /\ Positions(types) \subseteq 1 .. Len(journal)
        /\ IsFiniteSet(Positions(types))
    BY PositionFacts
  <2>2. Len(journal) + 1 \notin Positions(types)
    BY <1>1, <2>1
  <2>3. Cardinality(Positions(types) \cup {Len(journal) + 1}) = Cardinality(Positions(types)) + 1
    BY <2>1, <2>2, FS_AddElement
  <2>4. Count(types)' = Count(types) + 1
    BY <1>5, <1>7, <2>3 DEF Count
  <2>5. IsJournal(journal')
    BY DEF Adds, Continued
  <2>6. Last(types)' = Len(journal) + 1
    <3>1. Positions(types)' \cup {0} \in SUBSET (0 .. Len(journal) + 1)
      BY <1>1, <1>5, <1>7, <2>1
    <3> DEFINE P == Positions(types)' \cup {0}
    <3>2. Max(P) \in P /\ \A k \in P : k <= Max(P)
      <4>1. Len(journal) + 1 \in Nat /\ P # {}
        BY <1>1
      <4> HIDE DEF P
      <4> QED
        BY <3>1, <4>1, MaxIsLast DEF P
    <3>3. Len(journal) + 1 \in P
      BY <1>5, <1>7
    <3>4. Max(P) = Len(journal) + 1
      <4>1. Max(P) \in 0 .. Len(journal) + 1 /\ Len(journal) + 1 <= Max(P)
        BY <3>1, <3>2, <3>3
      <4> HIDE DEF P
      <4> QED
        BY <1>1, <4>1
    <3> QED
      BY <3>4 DEF Last
  <2> QED
    BY <1>5, <1>7, <2>4, <2>6
<1> QED
  BY <1>6, <1>7

\* Suites, where nothing of them was written.
LEMMA SuitesStay ==
  ASSUME IsJournal(journal), Without(SuiteEvents)
  PROVE  /\ Positions(SuiteEvents)' = Positions(SuiteEvents)
         /\ Last(SuiteEvents)' = Last(SuiteEvents)
         /\ Suites' = Suites /\ LastSuite' = LastSuite /\ SuiteNumber' = SuiteNumber
         /\ Positions({"VERIFICATION_GATE_STARTED"})' = Positions({"VERIFICATION_GATE_STARTED"})
         /\ Positions({"VERIFICATION_SUITE_RECORDED", "VERIFICATION_GATE_RECORDED"})' =
              Positions({"VERIFICATION_SUITE_RECORDED", "VERIFICATION_GATE_RECORDED"})
         /\ \A i \in Positions(SuiteEvents) : journal'[i] = journal[i]
         /\ \A n : Results(n)' = Results(n) /\ GatesOf(n)' = GatesOf(n)
         /\ \A n : AllPassed(n)' <=> AllPassed(n)
         /\ \A i \in Positions(SuiteEvents) : Continues(i)' <=> Continues(i)
         /\ \A i \in Suites : IsWhole(i)' <=> IsWhole(i)
         /\ SuitesAreWhole' <=> SuitesAreWhole
         /\ SuitesReplay' <=> SuitesReplay
         /\ Suites # {} => (Verdict(LastSuite)' <=> Verdict(LastSuite))
<1> DEFINE A == {"VERIFICATION_GATE_STARTED"}
           B == {"VERIFICATION_GATE_RECORDED"}
           C == {"VERIFICATION_SUITE_RECORDED"}
           D == {"VERIFICATION_SUITE_RECORDED", "VERIFICATION_GATE_RECORDED"}
<1>1. Without(A) /\ Without(B) /\ Without(C) /\ Without(D)
  BY DEF Without, SuiteEvents
<1> HIDE DEF A, B, C, D
<1>2. /\ Positions(SuiteEvents)' = Positions(SuiteEvents)
      /\ Last(SuiteEvents)' = Last(SuiteEvents)
      /\ Positions(A)' = Positions(A) /\ Positions(B)' = Positions(B)
      /\ Positions(C)' = Positions(C) /\ Positions(D)' = Positions(D)
      /\ Last(C)' = Last(C)
  BY <1>1, WithoutPositions
<1>3. Suites' = Suites /\ LastSuite' = LastSuite /\ SuiteNumber' = SuiteNumber
  BY <1>2 DEF Suites, LastSuite, SuiteNumber, C
<1>4. \A i \in Positions(SuiteEvents) : journal'[i] = journal[i]
  BY PositionFacts DEF Without, Continued
<1>5. Positions(B) \subseteq Positions(SuiteEvents) /\ Suites \subseteq Positions(SuiteEvents)
  BY DEF Positions, Of, SuiteEvents, B, Suites
<1>6. \A n : Results(n)' = Results(n)
  BY <1>2, <1>4, <1>5 DEF Results, B
<1>7. \A n : Results(n) \subseteq Positions(SuiteEvents)
  BY <1>5 DEF Results, B
<1>8. \A n : GatesOf(n)' = GatesOf(n)
  BY <1>4, <1>6, <1>7 DEF GatesOf
<1>9. \A n : AllPassed(n)' <=> AllPassed(n)
  <2> TAKE n
  <2>1. {r \in Results(n) : journal[r].node \in Blocking}' =
          {r \in Results(n) : journal[r].node \in Blocking}
    BY <1>4, <1>6, <1>7
  <2>2. \A r \in Results(n) : journal'[r].passed = journal[r].passed
    BY <1>4, <1>7
  <2> QED
    BY <2>1, <2>2, <1>6 DEF AllPassed
<1>10. \A i \in Positions(SuiteEvents) : Preceding(i)' = Preceding(i)
  BY <1>2 DEF Preceding
<1>11. \A i \in Positions(SuiteEvents) : Preceding(i) = 0 \/ Preceding(i) \in Positions(SuiteEvents)
  <2> TAKE i \in Positions(SuiteEvents)
  <2> DEFINE P == {k \in Positions(SuiteEvents) : k < i} \cup {0}
  <2>1. P \in SUBSET (0 .. Len(journal)) /\ P # {} /\ Len(journal) \in Nat
    BY PositionFacts
  <2>2. Max(P) \in P
    <3> HIDE DEF P
    <3> QED
      BY <2>1, MaxIsLast
  <2> QED
    BY <2>2 DEF Preceding
<1>12. \A i \in Positions(SuiteEvents) : Continues(i)' <=> Continues(i)
  <2> TAKE i \in Positions(SuiteEvents)
  <2> DEFINE p == Preceding(i)
  <2>1. p' = p /\ journal'[i] = journal[i] /\ (p # 0 => journal'[p] = journal[p])
    BY <1>4, <1>10, <1>11
  <2> HIDE DEF p
  <2> QED
    BY <2>1 DEF Continues, p
<1>13. \A i \in Suites : IsWhole(i)' <=> IsWhole(i)
  <2> TAKE i \in Suites
  <2> DEFINE n == journal[i].attempt
  <2>1. journal'[i] = journal[i]
    BY <1>4, <1>5
  <2>2. /\ Results(n)' = Results(n) /\ GatesOf(n)' = GatesOf(n)
        /\ AllPassed(n)' <=> AllPassed(n)
        /\ \A q \in Results(n) : journal'[q] = journal[q]
    BY <1>4, <1>6, <1>7, <1>8, <1>9, <2>1
  <2> QED
    BY <2>1, <2>2 DEF IsWhole
<1>14. SuitesAreWhole' <=> SuitesAreWhole
  BY <1>2, <1>3, <1>12, <1>13 DEF SuitesAreWhole
<1>15. SuitesReplay' <=> SuitesReplay
  BY <1>2, <1>3, <1>12, <1>13 DEF SuitesReplay
<1>16. Suites # {} => (Verdict(LastSuite)' <=> Verdict(LastSuite))
  <2> HAVE Suites # {}
  <2>1. LastSuite \in Suites
    BY PositionFacts DEF Suites, LastSuite
  <2>2. journal'[LastSuite] = journal[LastSuite]
    BY <1>4, <1>5, <2>1
  <2> QED
    BY <1>3, <1>8, <2>2 DEF Verdict, IsFull
<1> QED
  BY <1>2, <1>3, <1>4, <1>6, <1>8, <1>9, <1>12, <1>13, <1>14, <1>15, <1>16 DEF A, D

\* The parts of the journal that the parts of the invariant are about.
HistoryEvents == {"CONTEXT_EVALUATED", "PLAN_GENERATION_STARTED", "PLAN_GENERATED",
                  "NODE_STARTED", "NODE_COMPLETED", "NODE_FAILED"}
RepairEvents == {"VERIFICATION_SUITE_RECORDED", "VERIFICATION_REPAIR_SCHEDULED"}
VerdictEvents == SuiteEvents \cup {"VERIFICATION_REPAIR_SCHEDULED", "NODE_STARTED"}

\* Nothing of some types is nothing of fewer.
LEMMA WithoutLess ==
  ASSUME NEW types, Without(types), NEW less, less \subseteq types
  PROVE  Without(less)
BY DEF Without

\* Without a start the visits stay,
LEMMA VisitsStay ==
  ASSUME IsJournal(journal), Without({"NODE_STARTED"})
  PROVE  Visits' = Visits
BY WithoutPositions DEF Visits

\* and without an end too whether the node is open,
LEMMA NodeStays ==
  ASSUME IsJournal(journal), Without({"NODE_STARTED", "NODE_COMPLETED", "NODE_FAILED"})
  PROVE  Visits' = Visits /\ Ended' = Ended /\ (NodeIsOpen' <=> NodeIsOpen)
<1>1. Visits' = Visits
  BY WithoutLess, VisitsStay
<1>2. Without({"NODE_COMPLETED", "NODE_FAILED"})
  BY WithoutLess
<1>3. Count({"NODE_COMPLETED", "NODE_FAILED"})' = Count({"NODE_COMPLETED", "NODE_FAILED"})
  BY <1>2, WithoutPositions
<1> QED
  BY <1>1, <1>3 DEF Ended, NodeIsOpen

\* without an evaluation the decisions on the context,
LEMMA DecisionsStay ==
  ASSUME IsJournal(journal), Without({"CONTEXT_EVALUATED"})
  PROVE  /\ Decisions' = Decisions /\ LastDecision' = LastDecision
         /\ \A i \in Positions({"CONTEXT_EVALUATED"}) : journal'[i] = journal[i]
<1>1. \A i \in Positions({"CONTEXT_EVALUATED"}) : journal'[i] = journal[i]
  BY PositionFacts DEF Without, Continued
<1> QED
  BY <1>1, WithoutPositions DEF Decisions, LastDecision

\* and without its events what is known of the plan.
LEMMA PlanStays ==
  ASSUME IsJournal(journal), Without({"PLAN_GENERATION_STARTED", "PLAN_GENERATED"})
  PROVE  PlansAsked' = PlansAsked /\ (Started' <=> Started) /\ (Generated' <=> Generated)
<1>1. Without({"PLAN_GENERATION_STARTED"}) /\ Without({"PLAN_GENERATED"})
  BY WithoutLess
<1> QED
  BY <1>1, WithoutPositions DEF PlansAsked, Started, Generated

\* Context, plan and visits keep their bounds when nothing of theirs is written.
LEMMA HistoryStays ==
  ASSUME IsJournal(journal), HistoryInv, Without(HistoryEvents)
  PROVE  HistoryInv'
<1>1. /\ Without({"NODE_STARTED", "NODE_COMPLETED", "NODE_FAILED"})
      /\ Without({"CONTEXT_EVALUATED"})
      /\ Without({"PLAN_GENERATION_STARTED", "PLAN_GENERATED"})
  BY WithoutLess DEF HistoryEvents
<1>2. /\ Visits' = Visits /\ Ended' = Ended
      /\ Decisions' = Decisions /\ LastDecision' = LastDecision
      /\ PlansAsked' = PlansAsked /\ (Started' <=> Started) /\ (Generated' <=> Generated)
      /\ \A i \in Positions({"CONTEXT_EVALUATED"}) : journal'[i] = journal[i]
  BY <1>1, NodeStays, DecisionsStay, PlanStays
<1>3. LastDecision # 0 => (Sufficient(LastDecision)' <=> Sufficient(LastDecision))
  <2>1. LastDecision = 0 \/ LastDecision \in Positions({"CONTEXT_EVALUATED"})
    BY PositionFacts DEF LastDecision
  <2> QED
    BY <1>2, <2>1 DEF Sufficient
<1> QED
  BY <1>2, <1>3 DEF HistoryInv

\* Starts keep their numbers when nothing is started.
LEMMA StartsStay ==
  ASSUME IsJournal(journal), StartsInv, Without(Attempted)
  PROVE  StartsInv'
<1>1. Visits' = Visits
  BY WithoutLess, VisitsStay DEF Attempted
<1>2. Positions(Attempted)' = Positions(Attempted)
  BY WithoutPositions
<1>3. \A i \in Positions(Attempted) : journal'[i] = journal[i]
  BY PositionFacts DEF Without, Continued
<1>4. \A s \in Positions(Attempted) : StartIsTyped(journal[s])' <=> StartIsTyped(journal[s])
  BY <1>1, <1>3 DEF StartIsTyped
<1> QED
  BY <1>2, <1>4 DEF StartsInv

\* Suites keep their numbers when no suite, visit or repair is written.
LEMMA SuitesInvStays ==
  ASSUME IsJournal(journal), SuitesInv, Without(VerdictEvents)
  PROVE  SuitesInv'
<1> DEFINE D == {"VERIFICATION_SUITE_RECORDED", "VERIFICATION_GATE_RECORDED"}
           E == {"VERIFICATION_REPAIR_SCHEDULED", "NODE_STARTED"}
<1>1. Without(SuiteEvents) /\ Without(E)
  BY WithoutLess DEF VerdictEvents
<1>2. /\ Positions(SuiteEvents)' = Positions(SuiteEvents)
      /\ Suites' = Suites /\ LastSuite' = LastSuite /\ SuiteNumber' = SuiteNumber
      /\ Positions(D)' = Positions(D)
      /\ \A i \in Positions(SuiteEvents) : journal'[i] = journal[i]
  BY <1>1, SuitesStay
<1>3. Last(E)' = Last(E)
  BY <1>1, WithoutPositions
<1>4. Suites \subseteq Positions(SuiteEvents) /\ Positions(D) \subseteq Positions(SuiteEvents)
  BY DEF Positions, Of, SuiteEvents, Suites
<1>5. Suites # {} => LastSuite \in Suites
  BY PositionFacts DEF Suites, LastSuite
<1> HIDE DEF D, E
<1>6. \A i \in Positions(SuiteEvents)' :
        /\ journal'[i].attempt \in Nat
        /\ i <= LastSuite' => journal'[i].attempt <= Cardinality(Suites')
        /\ i > LastSuite' => journal'[i].attempt = SuiteNumber'
  BY <1>2 DEF SuitesInv
<1>7. \A i, k \in Suites' : i < k => journal'[i].attempt < journal'[k].attempt
  BY <1>2, <1>4 DEF SuitesInv
<1>8. Suites' # {} => journal'[LastSuite'].attempt = Cardinality(Suites')
  BY <1>2, <1>4, <1>5 DEF SuitesInv
<1>9. \A i \in Positions(D)' : journal'[i].passed \in BOOLEAN
  BY <1>2, <1>4 DEF SuitesInv, D
<1>10. Suites' # {} /\ journal'[LastSuite'].passed => Last(E)' < LastSuite'
  BY <1>2, <1>3, <1>4, <1>5 DEF SuitesInv, E
<1> QED
  BY <1>6, <1>7, <1>8, <1>9, <1>10 DEF SuitesInv, D, E

\* The suite that a schedule follows is there, unless there is none.
LEMMA SourceFacts ==
  ASSUME IsJournal(journal), NEW i \in Nat
  PROVE  /\ SourceOf(i) = 0 \/ (SourceOf(i) \in Suites /\ SourceOf(i) < i)
         /\ \A k \in Suites : k < i => k <= SourceOf(i)
<1> DEFINE P == {k \in Suites : k < i} \cup {0}
<1>1. P \in SUBSET (0 .. Len(journal)) /\ P # {} /\ Len(journal) \in Nat
  BY PositionFacts DEF Suites
<1>2. Max(P) \in P /\ \A k \in P : k <= Max(P)
  <2> HIDE DEF P
  <2> QED
    BY <1>1, MaxIsLast
<1> QED
  BY <1>2 DEF SourceOf

\* Schedules replay as before when no suite and no schedule is written.
LEMMA SchedulesStay ==
  ASSUME IsJournal(journal), SchedulesInv, Without(RepairEvents)
  PROVE  /\ SchedulesInv' /\ (SchedulesReplay' <=> SchedulesReplay)
         /\ Suites' = Suites /\ Schedules' = Schedules /\ LastSuite' = LastSuite
         /\ RepairedSince' <=> RepairedSince
         /\ \A k \in Schedules \cup Suites : journal'[k] = journal[k]
<1> DEFINE A == {"VERIFICATION_SUITE_RECORDED"}
           B == {"VERIFICATION_REPAIR_SCHEDULED"}
<1>1. Without(A) /\ Without(B)
  BY DEF Without, RepairEvents
<1> HIDE DEF A, B
<1>2. /\ Positions(A)' = Positions(A) /\ Positions(B)' = Positions(B)
      /\ Last(A)' = Last(A) /\ Last(B)' = Last(B)
  BY <1>1, WithoutPositions
<1>3. /\ Suites' = Suites /\ Schedules' = Schedules /\ LastSuite' = LastSuite
      /\ RepairedSince' <=> RepairedSince
  BY <1>2 DEF Suites, Schedules, LastSuite, RepairedSince, A, B
<1>4. \A k \in Schedules \cup Suites : journal'[k] = journal[k] /\ k \in Nat
  BY PositionFacts DEF Without, Continued, Schedules, Suites
<1>5. \A i : SourceOf(i)' = SourceOf(i)
  BY <1>3 DEF SourceOf
<1>6. \A i \in Schedules : SourceOf(i) # 0 => SourceOf(i) \in Suites
  BY <1>4, SourceFacts
<1>7. SchedulesReplay' <=> SchedulesReplay
  <2> DEFINE Good(i) == LET source == SourceOf(i)
        IN  /\ source # 0 /\ ~ journal[source].passed
            /\ journal[i].source = journal[source].attempt
            /\ journal[i].repair = Cardinality({k \in Schedules : k <= i})
            /\ \A k \in Schedules : journal[k].deadline = journal[i].deadline
  <2>1. \A i \in Schedules : Good(i)' <=> Good(i)
    <3> TAKE i \in Schedules
    <3> DEFINE s == SourceOf(i)
    <3>1. s' = s /\ journal'[i] = journal[i] /\ (s # 0 => journal'[s] = journal[s])
      BY <1>4, <1>5, <1>6
    <3> HIDE DEF s
    <3> QED
      BY <1>3, <1>4, <3>1 DEF s
  <2> HIDE DEF Good
  <2>2. SchedulesReplay <=> \A i \in Schedules : Good(i)
    BY DEF SchedulesReplay, Good
  <2>3. SchedulesReplay' <=> \A i \in Schedules' : Good(i)'
    BY DEF SchedulesReplay, Good
  <2> QED
    BY <1>3, <2>1, <2>2, <2>3
<1> QED
  BY <1>3, <1>4, <1>7 DEF SchedulesInv

\* Where only the ledger goes on, all of it stays.
LEMMA KeepsJournal ==
  ASSUME JournalInv, Keeps
  PROVE  JournalInv'
<1>1. /\ Without(HistoryEvents) /\ Without(Attempted)
      /\ Without(VerdictEvents) /\ Without(RepairEvents)
  BY KeepsWithout DEF HistoryEvents, Attempted, VerdictEvents, SuiteEvents, RepairEvents, Silent
<1> QED
  BY <1>1, HistoryStays, StartsStay, SuitesInvStays, SchedulesStay
     DEF JournalInv, Keeps, Continued

-----------------------------------------------------------------------------
(* Who holds the lock, and what the others see of his step.                *)

\* A caller in a section, or one that enters it, is alone there.
LEMMA Alone ==
  ASSUME LockInv, NEW c \in Callers, at[c] \in Sections \/ Free
  PROVE  \A d \in Callers : d # c => at[d] \notin Sections
BY DEF LockInv, Free

\* What a caller outside of the sections relies on.
Further ==
  /\ Generated => Generated'
  /\ Suites # {} => Suites' # {}
  /\ \/ /\ Schedules' = Schedules
        /\ \A k \in Schedules : journal'[k] = journal[k]
        /\ ~ RepairedSince => ~ RepairedSince'
     \/ Cardinality(Schedules)' = Cardinality(Schedules) + 1

\* The counts are numbers, and zero when there is nothing to count.
LEMMA NumberFacts ==
  ASSUME IsJournal(journal)
  PROVE  /\ Cardinality(Suites) \in Nat /\ Cardinality(Schedules) \in Nat
         /\ Visits \in Nat /\ Ended \in Nat /\ Decisions \in Nat /\ PlansAsked \in Nat
         /\ LastSuite \in Nat /\ LastDecision \in Nat /\ Len(journal) \in Nat
         /\ Suites = {} <=> Cardinality(Suites) = 0
         /\ Schedules = {} <=> Cardinality(Schedules) = 0
         /\ Started <=> PlansAsked # 0
         /\ Suites # {} <=> LastSuite # 0
         /\ LastSuite # 0 => LastSuite \in Suites
         /\ \A i \in Suites : i <= LastSuite
         /\ LastSuite <= Len(journal)
<1>1. Cardinality(Suites) = Count({"VERIFICATION_SUITE_RECORDED"})
  BY DEF Suites, Count
<1>2. Cardinality(Schedules) = Count({"VERIFICATION_REPAIR_SCHEDULED"})
  BY DEF Schedules, Count
<1>3. \A i \in Suites : i # 0
  BY PositionFacts DEF Suites
<1> QED
  BY <1>1, <1>2, <1>3, PositionFacts
     DEF Visits, Ended, Decisions, PlansAsked, LastSuite, LastDecision, Suites, Schedules, Started

\* What holds of a caller outside the sections goes on to hold when the step of another
\* one only takes repairs and visits further.
LEMMA OthersStay ==
  ASSUME ServiceInv, Further, NEW d \in Callers, at[d] \notin Sections,
         at'[d] = at[d], seen'[d] = seen[d]
  PROVE  PlaceOf(d)' /\ DueOf(d)' /\ RequestOf(d)' /\ ProgressOf(d)'
<1>1. PlaceOf(d)'
  BY DEF ServiceInv, CallerInv, PlaceOf, Further, Sections
<1>2. Unrecorded(d)' = {}
  BY DEF Unrecorded, Sections
<1>3. ProgressOf(d)'
  BY DEF ProgressOf, InSuite, Sections
<1>4. RequestOf(d)'
  <2>1. SUFFICES ASSUME at[d] = "schedule" PROVE RequestOf(d)'
    BY DEF RequestOf, Sections
  <2>2. /\ Suites # {} /\ seen[d].visit <= MaxIterations /\ seen[d].repair <= RetryMax
        /\ seen[d].repair <= Cardinality(Schedules) + 1
        /\ seen[d].repair = Cardinality(Schedules) + 1 =>
             /\ ~ RepairedSince
             /\ \A k \in Schedules : journal[k].deadline = seen[d].deadline
    BY <2>1 DEF ServiceInv, CallerInv, RequestOf
  <2>3. seen[d].repair \in Nat /\ Cardinality(Schedules) \in Nat
    BY NumberFacts DEF ServiceInv, JournalInv, TypeInv, TypeOK
  <2>4. CASE Cardinality(Schedules)' = Cardinality(Schedules) + 1
    BY <2>1, <2>2, <2>3, <2>4 DEF RequestOf, Further
  <2>5. CASE /\ Schedules' = Schedules
             /\ \A k \in Schedules : journal'[k] = journal[k]
             /\ ~ RepairedSince => ~ RepairedSince'
    BY <2>1, <2>2, <2>5 DEF RequestOf, Further
  <2> QED
    BY <2>4, <2>5 DEF Further
<1> QED
  BY <1>1, <1>2, <1>3, <1>4 DEF DueOf

\* A step of the one that holds the lock, or of one that enters a section.
LEMMA HolderStep ==
  ASSUME ServiceInv, NEW c \in Callers, at[c] \in Sections \/ Free, Further,
         \A d \in Callers : d # c => at'[d] = at[d] /\ seen'[d] = seen[d],
         TypeInv', JournalInv', StateInv', MadeOnce', Uninterrupted', VerdictIsEarned',
         PlaceOf(c)', DueOf(c)', RequestOf(c)', ProgressOf(c)'
  PROVE  ServiceInv'
<1>1. \A d \in Callers : d # c => at[d] \notin Sections
  BY Alone DEF ServiceInv
<1>2. LockInv'
  BY <1>1 DEF LockInv
<1>3. \A d \in Callers : d # c => PlaceOf(d)' /\ DueOf(d)' /\ RequestOf(d)' /\ ProgressOf(d)'
  BY <1>1, OthersStay
<1>4. CallerInv'
  BY <1>3 DEF CallerInv
<1> QED
  BY <1>2, <1>4 DEF ServiceInv

\* After a silent step everything derived from the journal is what it was,
LEMMA KeepsControl ==
  ASSUME IsJournal(journal), Keeps
  PROVE  /\ Visits' = Visits /\ Ended' = Ended /\ (NodeIsOpen' <=> NodeIsOpen)
         /\ Decisions' = Decisions /\ LastDecision' = LastDecision
         /\ DecisionPending' <=> DecisionPending
         /\ (Started' <=> Started) /\ (Generated' <=> Generated)
         /\ RepairPending' <=> RepairPending
         /\ RepairedSince' <=> RepairedSince
         /\ Suites' = Suites /\ Schedules' = Schedules /\ LastSuite' = LastSuite
         /\ Positions(GraphEvents)' = Positions(GraphEvents)
         /\ Positions(Attempted)' = Positions(Attempted)
         /\ \A i \in DOMAIN journal : journal'[i] = journal[i]
         /\ \A T : \A i \in Positions(T) : journal'[i] = journal[i]
<1>1. /\ Without({"NODE_STARTED", "NODE_COMPLETED", "NODE_FAILED"})
      /\ Without({"CONTEXT_EVALUATED"}) /\ Without({"CONTEXT_ASSEMBLING"})
      /\ Without({"PLAN_GENERATION_STARTED", "PLAN_GENERATED"})
      /\ Without({"VERIFICATION_REPAIR_SCHEDULED"}) /\ Without({"NODE_COMPLETED"})
      /\ Without({"VERIFICATION_SUITE_RECORDED"})
      /\ Without(GraphEvents) /\ Without(Attempted)
  BY KeepsWithout DEF Silent, GraphEvents, Attempted, SuiteEvents
<1>2. /\ Last({"CONTEXT_ASSEMBLING"})' = Last({"CONTEXT_ASSEMBLING"})
      /\ Last({"VERIFICATION_REPAIR_SCHEDULED"})' = Last({"VERIFICATION_REPAIR_SCHEDULED"})
      /\ Last({"VERIFICATION_SUITE_RECORDED"})' = Last({"VERIFICATION_SUITE_RECORDED"})
      /\ Last({"NODE_COMPLETED"})' = Last({"NODE_COMPLETED"})
      /\ Positions({"VERIFICATION_REPAIR_SCHEDULED"})' = Positions({"VERIFICATION_REPAIR_SCHEDULED"})
      /\ Positions({"VERIFICATION_SUITE_RECORDED"})' = Positions({"VERIFICATION_SUITE_RECORDED"})
  BY <1>1, WithoutPositions
<1>3. /\ Positions(GraphEvents)' = Positions(GraphEvents)
      /\ Positions(Attempted)' = Positions(Attempted)
  BY <1>1, WithoutPositions
<1>4. /\ Visits' = Visits /\ Ended' = Ended /\ (NodeIsOpen' <=> NodeIsOpen)
      /\ Decisions' = Decisions /\ LastDecision' = LastDecision
      /\ (Started' <=> Started) /\ (Generated' <=> Generated)
  BY <1>1, NodeStays, DecisionsStay, PlanStays
<1>5. /\ Suites' = Suites /\ Schedules' = Schedules /\ LastSuite' = LastSuite
  BY <1>2 DEF Suites, Schedules, LastSuite
<1>6. /\ DecisionPending' <=> DecisionPending
      /\ RepairPending' <=> RepairPending
      /\ RepairedSince' <=> RepairedSince
  BY <1>2, <1>4, <1>5 DEF DecisionPending, RepairPending, RepairedSince
<1>7. \A T : \A i \in Positions(T) : i \in DOMAIN journal
  BY DEF Positions, Of
<1> QED
  BY <1>3, <1>4, <1>5, <1>6, <1>7 DEF Keeps, Continued

\* the suites too,
LEMMA KeepsSuites ==
  ASSUME Keeps
  PROVE  Without(SuiteEvents)
BY KeepsWithout DEF SuiteEvents, Silent

\* and requests are no later than they were.
LEMMA KeepsFurther ==
  ASSUME IsJournal(journal), Keeps
  PROVE  Further
<1>1. \A k \in Schedules : journal'[k] = journal[k]
  BY KeepsControl DEF Schedules
<1> QED
  BY <1>1, KeepsControl DEF Further

-----------------------------------------------------------------------------
(* What a step leaves as it is.                                            *)

Carriage == [commit : Nat, gates : SUBSET Gates, source : Nat, repair : Nat,
             visit : Nat, deadline : Nat]

\* Who carries nothing carries something well typed.
LEMMA NothingIsCarried == Nothing \in Carriage
BY DEF Nothing, Carriage

\* The places of the callers after a step of one of them.
LEMMA GoFacts ==
  ASSUME TypeInv, NEW c \in Callers, NEW p \in Places, Go(c, p)
  PROVE  /\ at' \in [Callers -> Places] /\ at'[c] = p
         /\ \A d \in Callers : d # c => at'[d] = at[d]
BY DEF TypeInv, TypeOK, Go

\* What the callers carry after one of them took up something,
LEMMA CarryFacts ==
  ASSUME TypeInv, NEW c \in Callers, NEW s \in Carriage, seen' = [seen EXCEPT ![c] = s]
  PROVE  /\ DOMAIN seen' = Callers /\ \A d \in Callers : seen'[d] \in Carriage
         /\ seen'[c] = s
         /\ \A d \in Callers : d # c => seen'[d] = seen[d]
BY DEF TypeInv, TypeOK, Carriage

\* before,
LEMMA SeenFacts ==
  ASSUME TypeInv
  PROVE  DOMAIN seen = Callers /\ \A d \in Callers : seen[d] \in Carriage
BY DEF TypeInv, TypeOK, Carriage

\* and after one of them returned.
LEMMA ReturnFacts ==
  ASSUME TypeInv, NEW c \in Callers, Return(c)
  PROVE  /\ at' \in [Callers -> Places] /\ at'[c] = "idle"
         /\ DOMAIN seen' = Callers /\ \A d \in Callers : seen'[d] \in Carriage
         /\ seen'[c] = Nothing
         /\ \A d \in Callers : d # c => at'[d] = at[d] /\ seen'[d] = seen[d]
BY NothingIsCarried, GoFacts, CarryFacts DEF Return, Places

\* What was started was started.
LEMMA StartedStays ==
  ASSUME IsJournal(journal), Continued, NEW e, IsStarted(e)
  PROVE  IsStarted(e)'
<1>1. PICK s \in Positions(Attempted) : <<journal[s].node, journal[s].attempt>> = e
  BY DEF IsStarted
<1>2. /\ DOMAIN journal = 1 .. Len(journal) /\ Len(journal) \in Nat
      /\ DOMAIN journal' = 1 .. Len(journal') /\ Len(journal') \in Nat
  BY DEF IsJournal, Continued
<1>3. s \in DOMAIN journal /\ journal[s].type \in Attempted
  BY DEF Positions, Of
<1>4. journal'[s] = journal[s] /\ s \in DOMAIN journal'
  BY <1>2, <1>3 DEF Continued
<1>5. s \in Positions(Attempted)'
  BY <1>3, <1>4 DEF Positions, Of
<1> QED
  BY <1>1, <1>4, <1>5 DEF IsStarted

\* Effects made once stay so while none is made.
LEMMA EffectsStay ==
  ASSUME IsJournal(journal), MadeOnce, Continued, UNCHANGED effects
  PROVE  MadeOnce'
<1>1. \A i \in DOMAIN effects : IsStarted(effects[i])'
  BY StartedStays DEF MadeOnce
<1> QED
  BY <1>1 DEF MadeOnce, IsStarted

\* One effect more, a new one.
LEMMA EffectMade ==
  ASSUME IsJournal(journal), MadeOnce, Continued, effects \in Seq(Nodes \X Nat),
         NEW e \in Nodes \X Nat, effects' = Append(effects, e), IsNew(e), IsStarted(e)
  PROVE  MadeOnce' /\ effects' \in Seq(Nodes \X Nat)
<1>1. /\ Len(effects) \in Nat /\ DOMAIN effects = 1 .. Len(effects)
      /\ DOMAIN effects' = 1 .. Len(effects) + 1
      /\ effects' \in Seq(Nodes \X Nat)
      /\ \A i \in 1 .. Len(effects) : effects'[i] = effects[i]
      /\ effects'[Len(effects) + 1] = e
  BY SMT
<1>2. \A i \in DOMAIN effects' : i \in DOMAIN effects \/ i = Len(effects) + 1
  BY <1>1
<1>3. \A i, k \in DOMAIN effects' : effects'[i] = effects'[k] => i = k
  BY <1>1, <1>2 DEF MadeOnce, IsNew
<1>4. \A i \in DOMAIN effects' :
        \E s \in Positions(Attempted)' : <<journal'[s].node, journal'[s].attempt>> = effects'[i]
  <2> TAKE i \in DOMAIN effects'
  <2>1. PICK f : f = effects'[i]
    OBVIOUS
  <2>2. IsStarted(f)
    BY <1>1, <1>2, <2>1 DEF MadeOnce
  <2>3. IsStarted(f)'
    BY <2>2, StartedStays
  <2> QED
    BY <2>1, <2>3 DEF IsStarted
<1> QED
  BY <1>1, <1>3, <1>4 DEF MadeOnce, IsStarted

\* The state says of the journal what it said, after a silent step,
LEMMA StateStays ==
  ASSUME IsJournal(journal), StateInv, Keeps, UNCHANGED <<state, cursor>>
  PROVE  StateInv'
<1>1. LastSuite # 0 => (journal'[LastSuite] = journal[LastSuite])
  BY NumberFacts, KeepsControl DEF Suites
<1> QED
  BY <1>1, KeepsControl, NumberFacts DEF StateInv

\* and says nothing once the execution is over.
LEMMA StateIsOver ==
  ASSUME state' \notin Alive
  PROVE  StateInv'
BY DEF StateInv, Alive, Early, Gathering

\* Suites replay, and progress, as before when no event of theirs is written and nobody
\* leaves a suite alive.
LEMMA StaysUninterrupted ==
  ASSUME IsJournal(journal), Uninterrupted, Without(SuiteEvents), UNCHANGED faults,
         state' \in Alive => state \in Alive,
         state' \in Alive => \A c \in Callers : at[c] \in InSuite => at'[c] \in InSuite
  PROVE  Uninterrupted'
<1>1. SuitesReplay' <=> SuitesReplay
  BY SuitesStay
<1> QED
  BY <1>1 DEF Uninterrupted

\* A completed execution stays earned after a silent step.
LEMMA StaysEarned ==
  ASSUME IsJournal(journal), VerdictIsEarned, Keeps, UNCHANGED <<state, promotes>>,
         candidate' = candidate \/ state # "COMPLETED"
  PROVE  VerdictIsEarned'
<1> SUFFICES ASSUME state = "COMPLETED" PROVE VerdictIsEarned'
  BY DEF VerdictIsEarned
<1> DEFINE E == {"VERIFICATION_REPAIR_SCHEDULED", "NODE_STARTED"}
<1>1. /\ SuitesReplay /\ Verdict(LastSuite)
      /\ \A g \in Blocking :
           \E r \in Positions({"VERIFICATION_GATE_RECORDED"}) :
             /\ journal[r].node = g /\ journal[r].passed
             /\ journal[r].attempt = journal[LastSuite].attempt
      /\ Last(E) < LastSuite
      /\ promotes => candidate = journal[LastSuite].commit
  BY DEF VerdictIsEarned
<1>2. Suites # {} /\ LastSuite \in Suites
  <2>1. Last(E) \in Nat
    BY PositionFacts
  <2> QED
    BY <1>1, <2>1, NumberFacts
<1>3. /\ LastSuite' = LastSuite
      /\ \A T : \A i \in Positions(T) : journal'[i] = journal[i]
  BY KeepsControl
<1>4. Without(SuiteEvents) /\ Without(E) /\ Without({"VERIFICATION_GATE_RECORDED"})
  BY KeepsWithout DEF SuiteEvents, Silent
<1>5. /\ Last(E)' = Last(E)
      /\ Positions({"VERIFICATION_GATE_RECORDED"})' = Positions({"VERIFICATION_GATE_RECORDED"})
  BY <1>4, WithoutPositions
<1>6. SuitesReplay' /\ Verdict(LastSuite)'
  BY <1>1, <1>2, <1>4, SuitesStay
<1>7. journal'[LastSuite] = journal[LastSuite]
  BY <1>2, <1>3 DEF Suites
<1>8. \A g \in Blocking :
        \E r \in Positions({"VERIFICATION_GATE_RECORDED"})' :
          /\ journal'[r].node = g /\ journal'[r].passed
          /\ journal'[r].attempt = journal'[LastSuite].attempt
  BY <1>1, <1>3, <1>5, <1>7
<1> QED
  BY <1>1, <1>3, <1>5, <1>6, <1>7, <1>8 DEF VerdictIsEarned

\* A caller that stays where it is, when nothing of what it looks at changes.
LEMMA StaysPut ==
  ASSUME ServiceInv, Keeps, UNCHANGED <<state, effects>>,
         NEW d \in Callers, at'[d] = at[d], seen'[d] = seen[d]
  PROVE  PlaceOf(d)' /\ DueOf(d)' /\ RequestOf(d)' /\ ProgressOf(d)'
<1>1. IsJournal(journal) /\ PlaceOf(d) /\ DueOf(d) /\ RequestOf(d) /\ ProgressOf(d)
  BY DEF ServiceInv, CallerInv, JournalInv
<1>2. PlaceOf(d)'
  BY <1>1, KeepsControl DEF PlaceOf
<1>3. /\ SuiteNumber' = SuiteNumber /\ Positions(SuiteEvents)' = Positions(SuiteEvents)
      /\ Last(SuiteEvents)' = Last(SuiteEvents)
      /\ Positions({"VERIFICATION_GATE_STARTED"})' = Positions({"VERIFICATION_GATE_STARTED"})
      /\ \A n : Results(n)' = Results(n) /\ GatesOf(n)' = GatesOf(n)
      /\ SuitesAreWhole' <=> SuitesAreWhole
      /\ SuitesReplay' <=> SuitesReplay
      /\ Suites' = Suites /\ LastSuite' = LastSuite
  BY <1>1, KeepsSuites, SuitesStay
<1>4. NextGate(d)' = NextGate(d)
  BY DEF NextGate
<1>5. DueOf(d)'
  <2>1. Unrecorded(d)' = Unrecorded(d)
    BY <1>1, <1>3, <1>4, KeepsControl DEF Unrecorded
  <2>2. ASSUME NEW e \in Unrecorded(d) PROVE IsNew(e)' /\ IsStarted(e)'
    <3>1. IsNew(e) /\ IsStarted(e)
      BY <1>1, <2>2 DEF DueOf
    <3> QED
      BY <1>1, <3>1, StartedStays DEF IsNew, Keeps
  <2>3. \A e \in Unrecorded(d)' : IsNew(e)' /\ IsStarted(e)'
    BY <2>1, <2>2
  <2> QED
    BY <2>3 DEF DueOf, IsNew, IsStarted
<1>6. RequestOf(d)'
  <2>1. /\ Suites # {} => LastSuite \in Positions({"VERIFICATION_SUITE_RECORDED"})
        /\ Schedules = Positions({"VERIFICATION_REPAIR_SCHEDULED"})
    BY <1>1, NumberFacts DEF Suites, Schedules
  <2> QED
    BY <1>1, <2>1, KeepsControl DEF RequestOf
<1>7. ProgressOf(d)'
  <2>1. ASSUME at[d] \in InSuite, Recorded(d) PROVE Recorded(d)'
    <3> DEFINE n == SuiteNumber
               last == Last(SuiteEvents)
    <3>1. /\ n' = n /\ last' = last /\ LastSuite' = LastSuite
          /\ Results(n)' = Results(n) /\ GatesOf(n)' = GatesOf(n)
          /\ NextGate(d)' = NextGate(d)
      BY <1>3, <1>4
    <3>2. \A r \in Results(n) : journal'[r] = journal[r]
      BY <1>1, KeepsControl DEF Results
    <3>3. last > LastSuite => journal'[last] = journal[last]
      <4>1. last = 0 \/ last \in Positions(SuiteEvents)
        BY <1>1, PositionFacts
      <4> QED
        BY <1>1, <4>1, KeepsControl, NumberFacts
    <3>4. \A s \in Positions({"VERIFICATION_GATE_STARTED"}) : journal'[s] = journal[s]
      BY <1>1, KeepsControl
    <3>5. at[d] = "gates" /\ last # LastSuite => last > LastSuite
      <4>1. LastSuite <= last /\ last \in Nat /\ LastSuite \in Nat
        <5>1. LastSuite = 0 \/ LastSuite \in Positions(SuiteEvents)
          <6>1. LastSuite = 0 \/ LastSuite \in Suites
            BY <1>1, NumberFacts
          <6> QED
            BY <6>1 DEF Suites, Positions, Of, SuiteEvents
        <5> QED
          BY <1>1, <5>1, NumberFacts, PositionFacts
      <4> QED
        BY <4>1
    <3> HIDE DEF n, last
    <3> QED
      BY <2>1, <3>1, <3>2, <3>3, <3>4, <3>5, <1>3 DEF Recorded, n, last
  <2> QED
    BY <1>1, <1>3, <2>1 DEF ProgressOf
<1> QED
  BY <1>2, <1>5, <1>6, <1>7

\* A step of a caller to a place outside of the sections, where nothing else changes.
LEMMA PassiveStep ==
  ASSUME ServiceInv, NEW c \in Callers, Keeps,
         UNCHANGED <<state, cursor, candidate, promotes, effects, faults>>,
         \A d \in Callers : d # c => at'[d] = at[d] /\ seen'[d] = seen[d],
         at[c] \notin InSuite, at'[c] \notin Sections, at'[c] = "execute" => Generated,
         TypeInv', RequestOf(c)'
  PROVE  ServiceInv'
<1>1. IsJournal(journal) /\ JournalInv' /\ Continued
  BY KeepsJournal DEF ServiceInv, JournalInv, Keeps
<1>2. StateInv'
  BY <1>1, StateStays DEF ServiceInv
<1>3. MadeOnce'
  BY <1>1, EffectsStay DEF ServiceInv
<1>4. Uninterrupted'
  BY <1>1, KeepsSuites, StaysUninterrupted DEF ServiceInv
<1>5. VerdictIsEarned'
  BY <1>1, StaysEarned DEF ServiceInv
<1>6. PlaceOf(c)' /\ DueOf(c)' /\ ProgressOf(c)'
  <2>1. PlaceOf(c)'
    BY <1>1, KeepsControl DEF PlaceOf, Sections
  <2>2. Unrecorded(c)' = {}
    BY DEF Unrecorded, Sections
  <2> QED
    BY <2>1, <2>2 DEF DueOf, ProgressOf, Sections, InSuite
<1>7. \A d \in Callers : d # c => PlaceOf(d)' /\ DueOf(d)' /\ RequestOf(d)' /\ ProgressOf(d)'
  BY StaysPut
<1>8. LockInv'
  <2>1. \A d \in Callers : at'[d] \in Sections => d # c /\ at[d] \in Sections
    OBVIOUS
  <2> QED
    BY <2>1 DEF LockInv, ServiceInv
<1> QED
  BY <1>1, <1>2, <1>3, <1>4, <1>5, <1>6, <1>7, <1>8 DEF ServiceInv, CallerInv

\* A step of nobody who is inside a command.
LEMMA QuietStep ==
  ASSUME ServiceInv, UNCHANGED <<state, journal, cursor, promotes, effects, faults, at, seen>>,
         candidate' = candidate \/ state # "COMPLETED", TypeInv'
  PROVE  ServiceInv'
<1>1. IsJournal(journal) /\ Keeps
  BY NothingKeeps DEF ServiceInv, JournalInv
<1>2. JournalInv' /\ Continued
  BY <1>1, KeepsJournal DEF ServiceInv, JournalInv, Keeps
<1>3. StateInv'
  BY <1>1, StateStays DEF ServiceInv
<1>4. MadeOnce'
  BY <1>1, <1>2, EffectsStay DEF ServiceInv
<1>5. Uninterrupted'
  BY <1>1, KeepsSuites, StaysUninterrupted DEF ServiceInv
<1>6. VerdictIsEarned'
  BY <1>1, StaysEarned DEF ServiceInv
<1>7. CallerInv'
  BY <1>1, StaysPut DEF CallerInv
<1>8. LockInv'
  BY DEF LockInv, ServiceInv
<1> QED
  BY <1>2, <1>3, <1>4, <1>5, <1>6, <1>7, <1>8 DEF ServiceInv

\* A step that ends the execution, but for a completion.
LEMMA StopStep ==
  ASSUME ServiceInv, NEW c \in Callers, at[c] \in Sections \/ Free, Further, JournalInv',
         state' \notin Alive, state' # "COMPLETED", Return(c),
         TypeInv', MadeOnce'
  PROVE  ServiceInv'
<1>1. /\ at'[c] = "idle"
      /\ \A d \in Callers : d # c => at'[d] = at[d] /\ seen'[d] = seen[d]
  BY ReturnFacts DEF ServiceInv
<1>2. StateInv'
  BY StateIsOver
<1>3. Uninterrupted' /\ VerdictIsEarned'
  BY DEF Uninterrupted, VerdictIsEarned
<1>4. PlaceOf(c)' /\ RequestOf(c)' /\ ProgressOf(c)'
  BY <1>1 DEF PlaceOf, RequestOf, ProgressOf, InSuite
<1>5. DueOf(c)'
  <2>1. Unrecorded(c)' = {}
    BY <1>1 DEF Unrecorded
  <2> QED
    BY <2>1 DEF DueOf
<1> QED
  BY <1>1, <1>2, <1>3, <1>4, <1>5, HolderStep

\* The same, when nothing is written but in the ledger.
LEMMA FinishStep ==
  ASSUME ServiceInv, NEW c \in Callers, at[c] \in Sections \/ Free, Keeps,
         NEW s, s \in State \ Alive, s # "COMPLETED", Finish(c, s),
         UNCHANGED <<promotes, cursor, candidate, head, tree, clock, moves, faults, effects>>,
         stale' \in BOOLEAN
  PROVE  ServiceInv'
<1>1. IsJournal(journal) /\ JournalInv' /\ Continued
  BY KeepsJournal DEF ServiceInv, JournalInv, Keeps
<1>2. MadeOnce'
  BY <1>1, EffectsStay DEF ServiceInv
<1>3. state' = s /\ Return(c)
  BY DEF Finish, MoveTo
<1>4. TypeInv'
  BY <1>3, ReturnFacts DEF ServiceInv, TypeInv, TypeOK, Carriage
<1> QED
  BY <1>1, <1>2, <1>3, <1>4, KeepsFurther, StopStep

\* _transition_budget_exceeded: the refusal that ends the execution.
LEMMA DenyStep ==
  ASSUME ServiceInv, NEW c \in Callers, at[c] \in Sections \/ Free,
         NEW node, NEW attempt, NEW kind, Deny(c, node, attempt, kind),
         UNCHANGED <<promotes, cursor, candidate, head, tree, stale, clock, moves, faults, effects>>
  PROVE  ServiceInv'
<1>1. Denial(journal, node, attempt, kind).type \in Silent
  BY DEF Denial, Evidence, Silent
<1>2. Keeps
  BY <1>1, SilenceKeeps DEF Deny, ServiceInv, JournalInv
<1>3. "FAILED_BUDGET_EXCEEDED" \in State \ Alive
  BY DEF State, Terminal, Alive, Early
<1> QED
  BY <1>2, <1>3, FinishStep DEF Deny, ServiceInv, TypeInv, TypeOK

\* A step of the one that holds the lock, to a place without an effect to come.
LEMMA MoveStep ==
  ASSUME ServiceInv, NEW c \in Callers, at[c] \in Sections \/ Free, Keeps,
         UNCHANGED <<effects, faults>>,
         \A d \in Callers : d # c => at'[d] = at[d] /\ seen'[d] = seen[d],
         state' \in Alive => state \in Alive, at[c] \notin InSuite,
         at'[c] \notin {"planning", "node", "run"},
         TypeInv', StateInv', VerdictIsEarned', PlaceOf(c)', RequestOf(c)', ProgressOf(c)'
  PROVE  ServiceInv'
<1>1. IsJournal(journal) /\ JournalInv' /\ Continued
  BY KeepsJournal DEF ServiceInv, JournalInv, Keeps
<1>2. MadeOnce'
  BY <1>1, EffectsStay DEF ServiceInv
<1>3. Uninterrupted'
  <2>1. \A d \in Callers : at[d] \in InSuite => at'[d] \in InSuite
    OBVIOUS
  <2> QED
    BY <1>1, <2>1, KeepsSuites, StaysUninterrupted DEF ServiceInv
<1>4. DueOf(c)'
  <2>1. Unrecorded(c)' = {}
    BY DEF Unrecorded
  <2> QED
    BY <2>1 DEF DueOf
<1> QED
  BY <1>1, <1>2, <1>3, <1>4, KeepsFurther, HolderStep

\* A step of the one that holds the lock that writes an event of the way to the graph or
\* of a visit.
LEMMA WriteStep ==
  ASSUME ServiceInv, NEW c \in Callers, at[c] \in Sections \/ Free, NEW e, Adds(e),
         e.type \in HistoryEvents \cup {"CONTEXT_ASSEMBLING"},
         UNCHANGED <<effects, faults>>,
         \A d \in Callers : d # c => at'[d] = at[d] /\ seen'[d] = seen[d],
         state' \in Alive => state \in Alive, state' # "COMPLETED",
         at[c] \notin InSuite,
         at'[c] \in {"idle", "assembling", "decided", "planning", "execute", "node", "loop"},
         TypeInv', HistoryInv', StartsInv', SuitesInv', StateInv', PlaceOf(c)', DueOf(c)'
  PROVE  ServiceInv'
<1>1. IsJournal(journal) /\ Continued /\ IsJournal(journal')
  BY DEF ServiceInv, JournalInv, Adds, Continued
<1>2. Without(SuiteEvents) /\ Without(RepairEvents)
  BY <1>1, AddsWithout DEF SuiteEvents, RepairEvents, HistoryEvents, Silent
<1>3. SchedulesInv' /\ Schedules' = Schedules /\ (RepairedSince' <=> RepairedSince)
      /\ Suites' = Suites /\ \A k \in Schedules : journal'[k] = journal[k]
  BY <1>1, <1>2, SchedulesStay DEF ServiceInv, JournalInv
<1>4. JournalInv'
  BY <1>1, <1>3 DEF JournalInv
<1>5. MadeOnce'
  BY <1>1, EffectsStay DEF ServiceInv
<1>6. Uninterrupted'
  <2>1. \A d \in Callers : at[d] \in InSuite => at'[d] \in InSuite
    OBVIOUS
  <2> QED
    BY <1>1, <1>2, <2>1, StaysUninterrupted DEF ServiceInv
<1>7. Generated => Generated'
  <2> DEFINE G == {"PLAN_GENERATED"}
  <2>1. Positions(G) \subseteq Positions(G)'
    <3>1. G \cap Silent = {}
      BY DEF Silent
    <3> HIDE DEF G
    <3> QED
      BY <1>1, <3>1, AddsPositions
  <2> QED
    BY <2>1 DEF Generated
<1>8. Further
  BY <1>3, <1>7 DEF Further
<1>9. VerdictIsEarned' /\ RequestOf(c)' /\ ProgressOf(c)'
  BY DEF VerdictIsEarned, RequestOf, ProgressOf, InSuite
<1> QED
  BY <1>4, <1>5, <1>6, <1>8, <1>9, HolderStep

\* Where the places are that a step goes to.
LEMMA PlacesAre ==
  /\ Sections \subseteq Places
  /\ {"idle", "context", "plan", "execute", "reenter", "look", "look at failure", "block",
      "verify", "ask", "schedule"} \subseteq Places
  /\ {"assembling", "decided", "planning", "planned", "loop", "node", "worked", "gates",
      "run", "verdict", "scheduling", "cursor"} \subseteq Sections
BY DEF Places, Sections

-----------------------------------------------------------------------------
(* start and resume, up to the plan.                                       *)

\* start: no execution before, an empty journal after.
LEMMA StartKeeps ==
  ASSUME ServiceInv, NEW c \in Callers, Start(c)
  PROVE  ServiceInv'
<1>1. /\ at'[c] = "context" /\ at' \in [Callers -> Places]
      /\ \A d \in Callers : d # c => at'[d] = at[d] /\ seen'[d] = seen[d]
  BY GoFacts DEF Start, ServiceInv, Places
<1>2. Keeps
  BY NothingKeeps DEF Start, ServiceInv, JournalInv
<1>3. Free
  <2>1. \A d \in Callers : PlaceOf(d) /\ state = "absent"
    BY DEF ServiceInv, CallerInv, Start
  <2> QED
    BY <2>1 DEF Free, PlaceOf, Sections
<1>4. TypeInv'
  BY <1>1, SeenFacts DEF Start, ServiceInv, TypeInv, TypeOK, outside, bounds, State
<1>5. StateInv'
  <2>1. /\ Positions(GraphEvents)' = Positions(GraphEvents) /\ cursor' = cursor
        /\ Decisions' = Decisions /\ (Started' <=> Started)
    BY <1>2, KeepsControl DEF Start, ServiceInv, JournalInv
  <2> QED
    BY <2>1 DEF Start, ServiceInv, StateInv, Early, Gathering
<1>6. VerdictIsEarned' /\ PlaceOf(c)' /\ RequestOf(c)' /\ ProgressOf(c)'
  BY <1>1 DEF Start, VerdictIsEarned, PlaceOf, RequestOf, ProgressOf, InSuite
<1>7. state \in Alive /\ at[c] \notin InSuite
  BY DEF Start, Alive, Early, InSuite
<1> QED
  BY <1>1, <1>2, <1>3, <1>4, <1>5, <1>6, <1>7, MoveStep DEF Start, outside, bounds

\* resume looks where to go on; nothing is held yet.
LEMMA ResumeKeeps ==
  ASSUME ServiceInv, NEW c \in Callers, Resume(c)
  PROVE  ServiceInv'
<1>1. PICK p \in {"context", "plan", "look at failure", "reenter"} : Go(c, p)
  BY DEF Resume
<1>2. /\ at'[c] = p /\ at' \in [Callers -> Places]
      /\ \A d \in Callers : d # c => at'[d] = at[d] /\ seen'[d] = seen[d]
  BY <1>1, GoFacts DEF Resume, ServiceInv, Places
<1>3. Keeps
  BY NothingKeeps DEF Resume, ServiceInv, JournalInv, stored
<1>4. TypeInv'
  BY <1>2, SeenFacts DEF Resume, ServiceInv, TypeInv, TypeOK, stored, outside, bounds
<1>5. RequestOf(c)' /\ at[c] \notin InSuite /\ at'[c] \notin Sections /\ at'[c] # "execute"
  BY <1>2 DEF Resume, Enters, RequestOf, InSuite, Sections
<1> QED
  BY <1>2, <1>3, <1>4, <1>5, PassiveStep DEF Resume, stored, outside, bounds

\* What a decision leads to.
LEMMA SettleKeeps ==
  ASSUME ServiceInv, NEW c \in Callers, at[c] \in Sections \/ Free, at[c] \notin InSuite,
         state = "CONTEXT_ASSEMBLING", DecisionPending, Settle(c, LastDecision),
         UNCHANGED <<journal, cursor, candidate, outside, bounds>>
  PROVE  ServiceInv'
<1>1. Keeps /\ IsJournal(journal)
  BY NothingKeeps DEF ServiceInv, JournalInv
<1>2. /\ Positions(GraphEvents)' = Positions(GraphEvents)
      /\ LastDecision' = LastDecision /\ (Started' <=> Started)
  BY <1>1, KeepsControl
<1>3. LastDecision # 0
  BY <1>1, PositionFacts DEF DecisionPending, LastDecision
<1>4. state \in Alive /\ Positions(GraphEvents) = {} /\ cursor = "work" /\ ~ Started
  BY DEF ServiceInv, StateInv, Alive, Early, Gathering
<1>5. CASE Sufficient(LastDecision)
  <2>1. /\ at'[c] = "plan" /\ at' \in [Callers -> Places] /\ state' = "PLANNING"
        /\ \A d \in Callers : d # c => at'[d] = at[d] /\ seen'[d] = seen[d]
    BY <1>5, GoFacts DEF Settle, MoveTo, ServiceInv, Places
  <2>2. TypeInv'
    BY <1>5, <2>1, SeenFacts DEF Settle, ServiceInv, TypeInv, TypeOK, outside, bounds, State
  <2>3. StateInv'
    BY <1>2, <1>3, <1>4, <2>1 DEF StateInv, Early, Gathering
  <2>4. VerdictIsEarned' /\ PlaceOf(c)' /\ RequestOf(c)' /\ ProgressOf(c)'
    BY <2>1 DEF VerdictIsEarned, PlaceOf, RequestOf, ProgressOf, InSuite
  <2> QED
    BY <1>1, <1>4, <2>1, <2>2, <2>3, <2>4, MoveStep DEF outside, bounds
<1>6. CASE ~ Sufficient(LastDecision)
  <2>1. Return(c) /\ state' = "BLOCKED_INSUFFICIENT_CONTEXT"
    BY <1>6 DEF Settle, Finish, MoveTo
  <2>2. /\ at'[c] = "idle"
        /\ \A d \in Callers : d # c => at'[d] = at[d] /\ seen'[d] = seen[d]
    BY <2>1, ReturnFacts DEF ServiceInv
  <2>3. TypeInv'
    BY <2>1, ReturnFacts DEF ServiceInv, TypeInv, TypeOK, Carriage, outside, bounds,
                             State, Blocked
  <2>4. StateInv'
    BY <1>2, <1>4, <2>1 DEF StateInv, Early, Gathering
  <2>5. VerdictIsEarned' /\ PlaceOf(c)' /\ RequestOf(c)' /\ ProgressOf(c)'
    BY <2>1, <2>2 DEF VerdictIsEarned, PlaceOf, RequestOf, ProgressOf, InSuite
  <2> QED
    BY <1>1, <1>4, <2>2, <2>3, <2>4, <2>5, MoveStep DEF outside, bounds
<1> QED
  BY <1>5, <1>6

\* _prepare_context_attempt begins an attempt only when fewer decisions than the bound
\* were made: one more will be counted.
LEMMA BeginAttemptKeeps ==
  ASSUME ServiceInv, NEW c \in Callers, at[c] \in Sections \/ Free, at[c] = "context",
         state = "INITIATED" \/ (state = "BLOCKED_INSUFFICIENT_CONTEXT" /\ ~ Exhausted),
         BeginAttempt(c), UNCHANGED <<cursor, candidate, outside, bounds>>
  PROVE  ServiceInv'
<1> DEFINE e == [type |-> "CONTEXT_ASSEMBLING"]
<1>1. IsJournal(journal) /\ Adds(e)
  BY WriteAdds DEF BeginAttempt, ServiceInv, JournalInv
<1>2. /\ at'[c] = "assembling" /\ at' \in [Callers -> Places]
      /\ state' = "CONTEXT_ASSEMBLING"
      /\ \A d \in Callers : d # c => at'[d] = at[d] /\ seen'[d] = seen[d]
  BY GoFacts, PlacesAre DEF BeginAttempt, MoveTo, ServiceInv
<1>3. /\ Without(HistoryEvents) /\ Without(Attempted) /\ Without(VerdictEvents)
      /\ Without(GraphEvents) /\ Without({"CONTEXT_EVALUATED"})
      /\ Without({"PLAN_GENERATION_STARTED", "PLAN_GENERATED"})
  BY <1>1, AddsWithout DEF HistoryEvents, Attempted, VerdictEvents, SuiteEvents,
                           GraphEvents, Silent
<1>4. HistoryInv' /\ StartsInv' /\ SuitesInv'
  BY <1>1, <1>3, HistoryStays, StartsStay, SuitesInvStays DEF ServiceInv, JournalInv
<1>5. /\ Positions(GraphEvents)' = Positions(GraphEvents)
      /\ Decisions' = Decisions /\ LastDecision' = LastDecision
      /\ (Started' <=> Started)
  BY <1>1, <1>3, WithoutPositions, DecisionsStay, PlanStays
<1>6. TypeInv'
  BY <1>2, SeenFacts DEF BeginAttempt, ServiceInv, TypeInv, TypeOK, outside, bounds, State
<1>7. ~ DecisionPending'
  <2>1. Last({"CONTEXT_ASSEMBLING"})' = Len(journal) + 1
    BY <1>1, AddsPositions DEF Silent
  <2>2. LastDecision \in Nat /\ Len(journal) \in Nat /\ LastDecision <= Len(journal)
    BY <1>1, PositionFacts DEF LastDecision
  <2> QED
    BY <1>5, <2>1, <2>2 DEF DecisionPending
<1>8. Decisions <= MaxRetrievals
  <2>1. state = "INITIATED" => Decisions = 0
    BY DEF ServiceInv, StateInv
  <2>2. Decisions \in Nat /\ MaxRetrievals \in Nat
    BY <1>1, NumberFacts, ServiceIsConfigured
  <2> QED
    BY <2>1, <2>2 DEF Exhausted
<1>9. StateInv'
  BY <1>2, <1>5, <1>8 DEF BeginAttempt, ServiceInv, StateInv, Early, Gathering
<1>10. state \in Alive /\ at[c] \notin InSuite
  BY DEF Alive, Early, InSuite
<1>11. PlaceOf(c)'
  BY <1>2, <1>7 DEF PlaceOf
<1>12. DueOf(c)'
  <2>1. Unrecorded(c)' = {}
    BY <1>2 DEF Unrecorded
  <2> QED
    BY <2>1 DEF DueOf
<1>13. e.type \in HistoryEvents \cup {"CONTEXT_ASSEMBLING"} /\ UNCHANGED <<effects, faults>>
  BY DEF outside, bounds
<1> HIDE DEF e
<1> QED
  BY <1>1, <1>2, <1>4, <1>6, <1>9, <1>10, <1>11, <1>12, <1>13, WriteStep

\* _prepare_context_attempt: an attempt begins, or one goes on that a death interrupted.
LEMMA EnterContextKeeps ==
  ASSUME ServiceInv, NEW c \in Callers, EnterContext(c)
  PROVE  ServiceInv'
<1>1. /\ at[c] = "context" /\ Free /\ at[c] \notin InSuite
      /\ UNCHANGED <<cursor, candidate, outside, bounds>>
  BY DEF EnterContext, Enters, InSuite
<1>2. CASE state = "INITIATED" \/ (state = "BLOCKED_INSUFFICIENT_CONTEXT" /\ ~ Exhausted)
  <2>1. BeginAttempt(c)
    BY <1>2 DEF EnterContext
  <2> QED
    BY <1>1, <1>2, <2>1, BeginAttemptKeeps
<1>3. CASE state = "BLOCKED_INSUFFICIENT_CONTEXT" /\ Exhausted
  <2>1. Finish(c, "FAILED_RETRY_EXHAUSTED") /\ UNCHANGED journal
    BY <1>3 DEF EnterContext
  <2>2. Keeps
    BY <2>1, NothingKeeps DEF ServiceInv, JournalInv
  <2>3. "FAILED_RETRY_EXHAUSTED" \in State \ Alive
    BY DEF State, Terminal, Alive, Early
  <2> QED
    BY <1>1, <2>1, <2>2, <2>3, FinishStep DEF outside, bounds, ServiceInv, TypeInv, TypeOK
<1>4. CASE state = "CONTEXT_ASSEMBLING" /\ DecisionPending
  <2>1. Settle(c, LastDecision) /\ UNCHANGED journal
    BY <1>4 DEF EnterContext
  <2> QED
    BY <1>1, <1>4, <2>1, SettleKeeps
<1>5. CASE state = "CONTEXT_ASSEMBLING" /\ ~ DecisionPending
  <2>1. Go(c, "assembling") /\ UNCHANGED <<state, journal, seen>>
    BY <1>5 DEF EnterContext
  <2>2. /\ at'[c] = "assembling" /\ at' \in [Callers -> Places]
        /\ \A d \in Callers : d # c => at'[d] = at[d] /\ seen'[d] = seen[d]
    BY <2>1, GoFacts, PlacesAre DEF ServiceInv
  <2>3. Keeps /\ IsJournal(journal)
    BY <2>1, NothingKeeps DEF ServiceInv, JournalInv
  <2>4. TypeInv'
    BY <1>1, <2>1, <2>2, SeenFacts DEF ServiceInv, TypeInv, TypeOK, outside, bounds
  <2>5. StateInv' /\ VerdictIsEarned'
    BY <1>1, <2>1, <2>3, StateStays, StaysEarned DEF ServiceInv, outside
  <2>6. PlaceOf(c)' /\ RequestOf(c)' /\ ProgressOf(c)'
    BY <1>5, <2>1, <2>2, <2>3, KeepsControl DEF PlaceOf, RequestOf, ProgressOf, InSuite
  <2> QED
    BY <1>1, <2>1, <2>2, <2>3, <2>4, <2>5, <2>6, MoveStep DEF outside, bounds
<1>6. CASE state \notin {"INITIATED", "BLOCKED_INSUFFICIENT_CONTEXT", "CONTEXT_ASSEMBLING"}
  <2>1. Return(c) /\ UNCHANGED <<state, journal>>
    BY <1>6 DEF EnterContext
  <2>2. Keeps
    BY <2>1, NothingKeeps DEF ServiceInv, JournalInv
  <2>3. TypeInv' /\ RequestOf(c)'
    BY <1>1, <2>1, ReturnFacts DEF ServiceInv, TypeInv, TypeOK, Carriage, outside, bounds,
                                   RequestOf
  <2>4. at'[c] = "idle" /\ \A d \in Callers : d # c => at'[d] = at[d] /\ seen'[d] = seen[d]
    BY <2>1, ReturnFacts DEF ServiceInv
  <2> QED
    BY <1>1, <2>1, <2>2, <2>3, <2>4, PassiveStep DEF outside, bounds, Sections
<1> QED
  BY <1>2, <1>3, <1>4, <1>5, <1>6

\* A command that returns or raises without having done anything.
LEMMA ReturnKeeps ==
  ASSUME ServiceInv, NEW c \in Callers, at[c] \notin InSuite, Return(c), UNCHANGED <<stored, outside, bounds>>
  PROVE  ServiceInv'
<1>1. Keeps
  BY NothingKeeps DEF ServiceInv, JournalInv, stored
<1>2. TypeInv' /\ RequestOf(c)'
  BY ReturnFacts DEF ServiceInv, TypeInv, TypeOK, Carriage, stored, outside, bounds, RequestOf
<1>3. at'[c] = "idle" /\ \A d \in Callers : d # c => at'[d] = at[d] /\ seen'[d] = seen[d]
  BY ReturnFacts DEF ServiceInv
<1> QED
  BY <1>1, <1>2, <1>3, PassiveStep DEF stored, outside, bounds, Sections

\* The context is assembled and its decision written ahead.
LEMMA AssembleKeeps ==
  ASSUME ServiceInv, NEW c \in Callers, Assemble(c)
  PROVE  ServiceInv'
<1>1. /\ at[c] = "assembling" /\ at[c] \in Sections /\ at[c] \notin InSuite
      /\ state = "CONTEXT_ASSEMBLING" /\ ~ DecisionPending
      /\ UNCHANGED <<cursor, candidate, promotes, head, tree, clock, effects, bounds>>
  BY PlacesAre DEF Assemble, InSuite, ServiceInv, CallerInv, PlaceOf
<1>2. ASSUME Finish(c, "BLOCKED_PREREQUISITE") /\ UNCHANGED <<journal, stale>>
      PROVE  ServiceInv'
  <2>1. Keeps
    BY <1>2, NothingKeeps DEF ServiceInv, JournalInv
  <2>2. "BLOCKED_PREREQUISITE" \in State \ Alive
    BY DEF State, Blocked, Alive, Early
  <2> QED
    BY <1>1, <1>2, <2>1, <2>2, FinishStep DEF bounds, ServiceInv, TypeInv, TypeOK
<1>3. ASSUME NEW enough \in BOOLEAN,
             Write([type |-> "CONTEXT_EVALUATED", attempt |-> Decisions + 1,
                    sufficient |-> enough]),
             stale' = FALSE, Go(c, "decided"), UNCHANGED <<state, seen>>
      PROVE  ServiceInv'
  <2> DEFINE e == [type |-> "CONTEXT_EVALUATED", attempt |-> Decisions + 1,
                   sufficient |-> enough]
  <2>1. IsJournal(journal) /\ Adds(e) /\ e.type = "CONTEXT_EVALUATED"
    BY <1>3, WriteAdds DEF ServiceInv, JournalInv
  <2> HIDE DEF e
  <2>2. /\ at'[c] = "decided" /\ at' \in [Callers -> Places]
        /\ \A d \in Callers : d # c => at'[d] = at[d] /\ seen'[d] = seen[d]
    BY <1>3, GoFacts, PlacesAre DEF ServiceInv
  <2>3. /\ Without(Attempted) /\ Without(VerdictEvents) /\ Without(GraphEvents)
        /\ Without({"NODE_STARTED", "NODE_COMPLETED", "NODE_FAILED"})
        /\ Without({"PLAN_GENERATION_STARTED", "PLAN_GENERATED"})
        /\ Without({"CONTEXT_ASSEMBLING"})
    BY <2>1, AddsWithout DEF Attempted, VerdictEvents, SuiteEvents, GraphEvents, Silent
  <2>4. StartsInv' /\ SuitesInv'
    BY <2>1, <2>3, StartsStay, SuitesInvStays DEF ServiceInv, JournalInv
  <2>5. /\ Positions(GraphEvents)' = Positions(GraphEvents)
        /\ Last({"CONTEXT_ASSEMBLING"})' = Last({"CONTEXT_ASSEMBLING"})
        /\ Visits' = Visits /\ Ended' = Ended
        /\ (Started' <=> Started) /\ (Generated' <=> Generated) /\ PlansAsked' = PlansAsked
    BY <2>1, <2>3, WithoutPositions, NodeStays, PlanStays
  <2>6. Decisions' = Decisions + 1 /\ LastDecision' = Len(journal) + 1
    BY <2>1, AddsPositions DEF Decisions, LastDecision, Silent
  <2>7. ~ Started /\ Decisions <= MaxRetrievals /\ Positions(GraphEvents) = {} /\ cursor = "work"
    BY <1>1 DEF ServiceInv, StateInv, Early, Gathering
  <2>8. HistoryInv'
    <3>1. Decisions \in Nat /\ MaxRetrievals \in Nat
      BY <2>1, NumberFacts, ServiceIsConfigured
    <3>2. Decisions + 1 <= MaxRetrievals + 1
      BY <2>7, <3>1
    <3> QED
      BY <2>5, <2>6, <2>7, <3>2 DEF ServiceInv, JournalInv, HistoryInv
  <2>9. DecisionPending'
    <3>1. Last({"CONTEXT_ASSEMBLING"}) <= Len(journal) /\ Len(journal) \in Nat
          /\ Last({"CONTEXT_ASSEMBLING"}) \in Nat
      BY <2>1, PositionFacts
    <3> QED
      BY <2>5, <2>6, <3>1 DEF DecisionPending
  <2>10. StateInv'
    BY <1>1, <1>3, <2>5, <2>7, <2>9 DEF StateInv, Early, Gathering
  <2>11. TypeInv'
    BY <1>1, <1>3, <2>2, SeenFacts DEF ServiceInv, TypeInv, TypeOK, bounds
  <2>12. PlaceOf(c)'
    BY <1>1, <1>3, <2>2, <2>9 DEF PlaceOf
  <2>13. DueOf(c)'
    <3>1. Unrecorded(c)' = {}
      BY <2>2 DEF Unrecorded
    <3> QED
      BY <3>1 DEF DueOf
  <2>14. e.type \in HistoryEvents /\ faults' = faults /\ state \in Alive /\ state' # "COMPLETED"
    BY <1>1, <1>3, <2>1 DEF HistoryEvents, bounds, Alive, Early
  <2> QED
    BY <1>1, <2>1, <2>2, <2>4, <2>8, <2>10, <2>11, <2>12, <2>13, <2>14, WriteStep
<1> QED
  BY <1>2, <1>3 DEF Assemble

\* _persist_context_decision: the decision that was written moves the state.
LEMMA ConcludeKeeps ==
  ASSUME ServiceInv, NEW c \in Callers, Conclude(c)
  PROVE  ServiceInv'
<1>1. /\ at[c] \in Sections /\ at[c] \notin InSuite
      /\ state = "CONTEXT_ASSEMBLING" /\ DecisionPending
  BY PlacesAre DEF Conclude, InSuite, ServiceInv, CallerInv, PlaceOf
<1> QED
  BY <1>1, SettleKeeps DEF Conclude

\* _prepare_plan asks only if no start of a plan is in the journal, and writes it first.
LEMMA AskForPlanKeeps ==
  ASSUME ServiceInv, NEW c \in Callers, at[c] = "plan", Free, state = "PLANNING",
         Sufficient(LastDecision), ~ Generated,
         AskForPlan(c), UNCHANGED <<cursor, candidate, outside, bounds>>
  PROVE  ServiceInv'
<1>1. CASE Started
  <2>1. Finish(c, "BLOCKED_PREREQUISITE") /\ UNCHANGED journal
    BY <1>1 DEF AskForPlan
  <2>2. Keeps
    BY <2>1, NothingKeeps DEF ServiceInv, JournalInv
  <2>3. "BLOCKED_PREREQUISITE" \in State \ Alive
    BY DEF State, Blocked, Alive, Early
  <2> QED
    BY <2>1, <2>2, <2>3, FinishStep DEF outside, bounds, ServiceInv, TypeInv, TypeOK
<1>2. CASE ~ Started /\ ~ Fits(journal, "planning", "attempt")
  <2>1. Deny(c, "planning", 1, "attempt")
    BY <1>2 DEF AskForPlan
  <2> QED
    BY <2>1, DenyStep DEF outside, bounds
<1>3. CASE ~ Started /\ Fits(journal, "planning", "attempt")
  <2> DEFINE e == [type |-> "PLAN_GENERATION_STARTED", node |-> "planning", attempt |-> 1]
  <2>1. /\ Write(e) /\ Go(c, "planning") /\ UNCHANGED <<state, seen>>
    BY <1>3 DEF AskForPlan
  <2>2. /\ IsJournal(journal) /\ Adds(e) /\ e.type = "PLAN_GENERATION_STARTED"
        /\ e.node = "planning" /\ e.attempt = 1
    BY <2>1, WriteAdds DEF ServiceInv, JournalInv
  <2> HIDE DEF e
  <2>3. /\ at'[c] = "planning" /\ at' \in [Callers -> Places]
        /\ \A d \in Callers : d # c => at'[d] = at[d] /\ seen'[d] = seen[d]
    BY <2>1, GoFacts, PlacesAre DEF ServiceInv
  <2>4. /\ Without(VerdictEvents) /\ Without(GraphEvents) /\ Without({"CONTEXT_EVALUATED"})
        /\ Without({"NODE_STARTED", "NODE_COMPLETED", "NODE_FAILED"})
        /\ Without({"NODE_STARTED"}) /\ Without({"PLAN_GENERATED"})
        /\ Without({"CONTEXT_ASSEMBLING"})
    BY <2>2, AddsWithout DEF VerdictEvents, SuiteEvents, GraphEvents, Silent
  <2>5. SuitesInv'
    BY <2>2, <2>4, SuitesInvStays DEF ServiceInv, JournalInv
  <2>6. /\ Positions(GraphEvents)' = Positions(GraphEvents)
        /\ Visits' = Visits /\ Ended' = Ended
        /\ Decisions' = Decisions /\ LastDecision' = LastDecision
        /\ Positions({"PLAN_GENERATED"})' = Positions({"PLAN_GENERATED"})
        /\ \A i \in Positions({"CONTEXT_EVALUATED"}) : journal'[i] = journal[i]
    BY <2>2, <2>4, WithoutPositions, NodeStays, DecisionsStay
  <2>7. PlansAsked' = PlansAsked + 1
    BY <2>2, AddsPositions DEF PlansAsked, Silent
  <2>8. /\ Positions(Attempted)' = Positions(Attempted) \cup {Len(journal) + 1}
        /\ Positions({"PLAN_GENERATION_STARTED"})' =
             Positions({"PLAN_GENERATION_STARTED"}) \cup {Len(journal) + 1}
    BY <2>2, AddsPositions DEF Attempted, Silent
  <2>9. LastDecision # 0 /\ Positions(GraphEvents) = {} /\ cursor = "work"
    BY DEF ServiceInv, StateInv, Early
  <2>10. Sufficient(LastDecision)'
    <3>1. LastDecision \in Positions({"CONTEXT_EVALUATED"})
      BY <2>2, <2>9, PositionFacts DEF LastDecision
    <3> QED
      BY <2>6, <3>1 DEF Sufficient
  <2>11. HistoryInv'
    <3>1. PlansAsked = 0
      BY <1>3, <2>2, NumberFacts
    <3> QED
      BY <2>6, <2>7, <2>9, <2>10, <3>1 DEF ServiceInv, JournalInv, HistoryInv, Generated
  <2>12. StartsInv'
    <3>1. \A s \in Positions(Attempted) : journal'[s] = journal[s]
      BY PositionFacts, <2>2 DEF Adds, Continued
    <3>2. \A s \in Positions(Attempted) : StartIsTyped(journal[s])'
      BY <2>6, <3>1 DEF ServiceInv, JournalInv, StartsInv, StartIsTyped
    <3>3. journal'[Len(journal) + 1] = e
      BY <2>2 DEF Adds
    <3>4. \A s \in Positions(Attempted)' : StartIsTyped(journal[s])'
      BY <2>2, <2>8, <3>2, <3>3 DEF StartIsTyped
    <3> QED
      BY <3>4 DEF StartsInv
  <2>13. StateInv'
    BY <2>1, <2>6, <2>9 DEF StateInv, Early, Gathering
  <2>14. TypeInv'
    BY <2>1, <2>3, SeenFacts DEF ServiceInv, TypeInv, TypeOK, outside, bounds
  <2>15. PlaceOf(c)'
    BY <2>1, <2>3 DEF PlaceOf
  <2>16. DueOf(c)'
    <3>1. Unrecorded(c)' = {<<"planning", 1>>}
      BY <2>3 DEF Unrecorded
    <3>2. IsStarted(<<"planning", 1>>)'
      <4>1. Len(journal) + 1 \in Positions(Attempted)' /\ journal'[Len(journal) + 1] = e
        BY <2>2, <2>8 DEF Adds
      <4> QED
        BY <2>2, <4>1 DEF IsStarted
    <3>3. IsNew(<<"planning", 1>>)
      <4> SUFFICES ASSUME NEW i \in DOMAIN effects, effects[i] = <<"planning", 1>>
                   PROVE  FALSE
        BY DEF IsNew
      <4>1. PICK s \in Positions(Attempted) : <<journal[s].node, journal[s].attempt>> = effects[i]
        BY DEF ServiceInv, MadeOnce, IsStarted
      <4>2. journal[s].node = "planning" /\ journal[s].type \in Attempted
        BY <2>2, <4>1, PositionFacts
      <4>3. journal[s].type # "PLAN_GENERATION_STARTED"
        BY <1>3, <2>2, PositionFacts DEF Started, Positions, Of
      <4>4. "planning" \notin Gates
        BY ServiceIsConfigured
      <4>5. StartIsTyped(journal[s])
        BY DEF ServiceInv, JournalInv, StartsInv
      <4> QED
        BY <4>2, <4>3, <4>4, <4>5 DEF StartIsTyped, Attempted
    <3>4. IsNew(<<"planning", 1>>)'
      BY <3>3 DEF IsNew, outside
    <3> QED
      BY <3>1, <3>2, <3>4 DEF DueOf, IsNew, IsStarted
  <2>17. /\ e.type \in HistoryEvents /\ UNCHANGED <<effects, faults>> /\ state \in Alive
         /\ state' # "COMPLETED" /\ at[c] \notin InSuite
    BY <2>1, <2>2 DEF HistoryEvents, outside, bounds, Alive, Early, InSuite
  <2> QED
    BY <2>2, <2>3, <2>5, <2>11, <2>12, <2>13, <2>14, <2>15, <2>16, <2>17, WriteStep
<1> QED
  BY <1>1, <1>2, <1>3

\* _prepare_plan under the lock: ask, go on with a plan, or stop.
LEMMA EnterPlanKeeps ==
  ASSUME ServiceInv, NEW c \in Callers, EnterPlan(c)
  PROVE  ServiceInv'
<1>1. /\ at[c] = "plan" /\ Free /\ at[c] \notin InSuite
      /\ UNCHANGED <<cursor, candidate, outside, bounds>>
  BY DEF EnterPlan, Enters, InSuite
<1>2. CASE state # "PLANNING"
  <2>1. Return(c) /\ UNCHANGED <<state, journal>>
    BY <1>2 DEF EnterPlan
  <2> QED
    BY <1>1, <2>1, ReturnKeeps DEF stored
<1>3. ASSUME Finish(c, "BLOCKED_PREREQUISITE"), UNCHANGED journal
      PROVE  ServiceInv'
  <2>1. Keeps
    BY <1>3, NothingKeeps DEF ServiceInv, JournalInv
  <2>2. "BLOCKED_PREREQUISITE" \in State \ Alive
    BY DEF State, Blocked, Alive, Early
  <2> QED
    BY <1>1, <1>3, <2>1, <2>2, FinishStep DEF outside, bounds, ServiceInv, TypeInv, TypeOK
<1>4. ASSUME state = "PLANNING", Generated, Go(c, "execute"), UNCHANGED <<state, journal, seen>>
      PROVE  ServiceInv'
  <2>1. /\ at'[c] = "execute" /\ at' \in [Callers -> Places]
        /\ \A d \in Callers : d # c => at'[d] = at[d] /\ seen'[d] = seen[d]
    BY <1>4, GoFacts, PlacesAre DEF ServiceInv
  <2>2. Keeps
    BY <1>4, NothingKeeps DEF ServiceInv, JournalInv
  <2>3. TypeInv'
    BY <1>1, <1>4, <2>1, SeenFacts DEF ServiceInv, TypeInv, TypeOK, outside, bounds
  <2>4. RequestOf(c)' /\ at'[c] \notin Sections
    BY <2>1 DEF RequestOf, Sections
  <2> QED
    BY <1>1, <1>4, <2>1, <2>2, <2>3, <2>4, PassiveStep DEF outside, bounds
<1>5. CASE state = "PLANNING" /\ ~ Sufficient(LastDecision)
  BY <1>3, <1>5 DEF EnterPlan
<1>6. CASE state = "PLANNING" /\ Sufficient(LastDecision)
  <2>1. \/ Generated /\ Go(c, "execute") /\ UNCHANGED <<state, journal, seen>>
        \/ ~ Generated /\ AskForPlan(c)
        \/ Finish(c, "BLOCKED_PREREQUISITE") /\ UNCHANGED journal
    BY <1>6 DEF EnterPlan
  <2> QED
    BY <1>1, <1>3, <1>4, <1>6, <2>1, AskForPlanKeeps
<1> QED
  BY <1>2, <1>5, <1>6

\* A call of a model is in the ledger only.
LEMMA CalledKeeps ==
  ASSUME IsJournal(journal), NEW node, NEW attempt, NEW d, journal' = Called(node, attempt, d)
  PROVE  Keeps
<1> DEFINE r == Reserved(node, attempt, "model")
           j == Append(journal, r)
           e == Committed(j, Len(j), TRUE, d)
           k == Append(j, e)
           o == Overrun(k, Len(j))
<1>1. journal' = IF IsExceeded(k) THEN Append(k, o) ELSE k
  BY DEF Called
<1>2. r.type \in Silent /\ e.type \in Silent /\ o.type \in Silent
  BY DEF Silent, Reserved, Committed, Overrun, Evidence
<1> HIDE DEF r, e, o
<1>3. /\ IsJournal(j) /\ Len(j) = Len(journal) + 1
      /\ DOMAIN j = 1 .. Len(journal) + 1 /\ DOMAIN journal = 1 .. Len(journal)
      /\ Len(journal) \in Nat
      /\ \A i \in 1 .. Len(journal) : j[i] = journal[i]
      /\ j[Len(journal) + 1] = r
  BY AppendFacts
<1> HIDE DEF j
<1>4. /\ IsJournal(k) /\ Len(k) = Len(j) + 1
      /\ DOMAIN k = 1 .. Len(j) + 1
      /\ \A i \in 1 .. Len(j) : k[i] = j[i]
      /\ k[Len(j) + 1] = e
  BY <1>3, AppendFacts
<1> HIDE DEF k
<1>5. CASE ~ IsExceeded(k)
  BY <1>1, <1>2, <1>3, <1>4, <1>5 DEF Keeps, Continued
<1>6. CASE IsExceeded(k)
  <2>1. /\ IsJournal(journal') /\ Len(journal') = Len(k) + 1
        /\ DOMAIN journal' = 1 .. Len(k) + 1
        /\ \A i \in 1 .. Len(k) : journal'[i] = k[i]
        /\ journal'[Len(k) + 1] = o
    BY <1>1, <1>4, <1>6, AppendFacts
  <2>2. Continued
    BY <1>3, <1>4, <2>1 DEF Continued
  <2>3. \A i \in DOMAIN journal' :
          i > Len(journal) => i \in {Len(journal) + 1, Len(journal) + 2, Len(journal) + 3}
    BY <1>3, <1>4, <2>1
  <2>4. /\ journal'[Len(journal) + 1] = r /\ journal'[Len(journal) + 2] = e
        /\ journal'[Len(journal) + 3] = o
    BY <1>3, <1>4, <2>1
  <2> QED
    BY <1>2, <2>2, <2>3, <2>4 DEF Keeps
<1> QED
  BY <1>5, <1>6

\* The planner is called after its start was written, by the one who holds the lock.
LEMMA CallPlannerKeeps ==
  ASSUME ServiceInv, NEW c \in Callers, CallPlanner(c)
  PROVE  ServiceInv'
<1>1. /\ at[c] = "planning" /\ at[c] \in Sections /\ at[c] \notin InSuite
      /\ state = "PLANNING"
      /\ UNCHANGED <<cursor, candidate, promotes, head, tree, stale, clock, bounds>>
      /\ IsJournal(journal)
  BY PlacesAre DEF CallPlanner, InSuite, ServiceInv, CallerInv, PlaceOf, JournalInv
<1>2. "BLOCKED_PREREQUISITE" \in State \ Alive /\ "FAILED_BUDGET_EXCEEDED" \in State \ Alive
  BY DEF State, Blocked, Terminal, Alive, Early
<1>3. stale' \in BOOLEAN
  BY <1>1 DEF ServiceInv, TypeInv, TypeOK
<1>4. CASE stale
  <2>1. Finish(c, "BLOCKED_PREREQUISITE") /\ UNCHANGED <<journal, effects>>
    BY <1>4 DEF CallPlanner
  <2> QED
    BY <1>1, <1>2, <1>3, <2>1, NothingKeeps, FinishStep DEF bounds
<1>5. CASE ~ stale /\ ~ Fits(journal, "planning", "model")
  <2>1. Deny(c, "planning", 1, "model") /\ UNCHANGED effects
    BY <1>5 DEF CallPlanner
  <2> QED
    BY <1>1, <2>1, DenyStep DEF bounds
<1>6. CASE ~ stale /\ Fits(journal, "planning", "model")
  <2>1. /\ \E d \in Durations : journal' = Called("planning", 1, d)
        /\ Affect("planning", 1)
        /\ \/ Finish(c, "FAILED_BUDGET_EXCEEDED") \/ Finish(c, "BLOCKED_PREREQUISITE")
           \/ Go(c, "planned") /\ UNCHANGED <<state, seen>>
    BY <1>6 DEF CallPlanner
  <2>2. Keeps /\ Continued
    BY <1>1, <2>1, CalledKeeps DEF Keeps
  <2>3. JournalInv' /\ Further
    BY <1>1, <2>2, KeepsJournal, KeepsFurther DEF ServiceInv
  <2>4. IsNew(<<"planning", 1>>) /\ IsStarted(<<"planning", 1>>)
    <3>1. Unrecorded(c) = {<<"planning", 1>>}
      BY <1>1 DEF Unrecorded
    <3> QED
      BY <3>1 DEF ServiceInv, CallerInv, DueOf
  <2>5. MadeOnce' /\ effects' \in Seq(Nodes \X Nat)
    <3>1. <<"planning", 1>> \in Nodes \X Nat
      BY ServiceIsConfigured
    <3> QED
      BY <1>1, <2>1, <2>2, <2>4, <3>1, EffectMade DEF ServiceInv, TypeInv, Affect
  <2>6. ASSUME NEW s \in {"FAILED_BUDGET_EXCEEDED", "BLOCKED_PREREQUISITE"}, Finish(c, s)
        PROVE  ServiceInv'
    <3>1. state' = s /\ Return(c)
      BY <2>6 DEF Finish, MoveTo
    <3>2. TypeInv'
      BY <1>1, <1>2, <2>5, <2>6, <3>1, ReturnFacts
         DEF ServiceInv, TypeInv, TypeOK, Carriage, bounds
    <3> QED
      BY <1>1, <1>2, <2>3, <2>5, <2>6, <3>1, <3>2, StopStep
  <2>7. ASSUME Go(c, "planned"), UNCHANGED <<state, seen>>
        PROVE  ServiceInv'
    <3>1. /\ at'[c] = "planned" /\ at' \in [Callers -> Places]
          /\ \A d \in Callers : d # c => at'[d] = at[d] /\ seen'[d] = seen[d]
      BY <2>7, GoFacts, PlacesAre DEF ServiceInv
    <3>2. TypeInv'
      BY <1>1, <2>5, <2>7, <3>1, SeenFacts DEF ServiceInv, TypeInv, TypeOK, bounds
    <3>3. StateInv' /\ VerdictIsEarned'
      BY <1>1, <2>2, <2>7, StateStays, StaysEarned DEF ServiceInv
    <3>4. PlaceOf(c)' /\ RequestOf(c)' /\ ProgressOf(c)'
      BY <1>1, <2>7, <3>1 DEF PlaceOf, RequestOf, ProgressOf, InSuite
    <3>5. DueOf(c)'
      <4>1. Unrecorded(c)' = {}
        BY <3>1 DEF Unrecorded
      <4> QED
        BY <4>1 DEF DueOf
    <3>6. Uninterrupted'
      <4>1. \A d \in Callers : at[d] \in InSuite => at'[d] \in InSuite
        BY <1>1, <3>1
      <4> QED
        BY <1>1, <2>2, <2>7, <4>1, KeepsSuites, StaysUninterrupted DEF ServiceInv, bounds
    <3> QED
      BY <1>1, <2>3, <2>5, <3>1, <3>2, <3>3, <3>4, <3>5, <3>6, HolderStep
  <2> QED
    BY <2>1, <2>6, <2>7
<1> QED
  BY <1>4, <1>5, <1>6

\* _append_plan_event, and PLANNING goes on to the graph.
LEMMA RecordPlanKeeps ==
  ASSUME ServiceInv, NEW c \in Callers, RecordPlan(c)
  PROVE  ServiceInv'
<1> DEFINE e == [type |-> "PLAN_GENERATED"]
<1>1. /\ at[c] = "planned" /\ at[c] \in Sections /\ at[c] \notin InSuite
      /\ state = "PLANNING"
      /\ UNCHANGED <<state, cursor, candidate, outside, seen, bounds>>
      /\ IsJournal(journal) /\ Write(e) /\ Go(c, "execute")
  BY PlacesAre DEF RecordPlan, InSuite, ServiceInv, CallerInv, PlaceOf, JournalInv
<1>2. Adds(e) /\ e.type = "PLAN_GENERATED"
  BY <1>1, WriteAdds
<1> HIDE DEF e
<1>3. /\ at'[c] = "execute" /\ at' \in [Callers -> Places]
      /\ \A d \in Callers : d # c => at'[d] = at[d] /\ seen'[d] = seen[d]
  BY <1>1, GoFacts, PlacesAre DEF ServiceInv
<1>4. /\ Without(VerdictEvents) /\ Without(GraphEvents) /\ Without({"CONTEXT_EVALUATED"})
      /\ Without({"NODE_STARTED", "NODE_COMPLETED", "NODE_FAILED"})
      /\ Without({"PLAN_GENERATION_STARTED"}) /\ Without(Attempted)
  BY <1>1, <1>2, AddsWithout DEF VerdictEvents, SuiteEvents, GraphEvents, Attempted, Silent
<1>5. SuitesInv' /\ StartsInv'
  BY <1>1, <1>4, SuitesInvStays, StartsStay DEF ServiceInv, JournalInv
<1>6. /\ Positions(GraphEvents)' = Positions(GraphEvents)
      /\ Visits' = Visits /\ Ended' = Ended
      /\ Decisions' = Decisions /\ LastDecision' = LastDecision
      /\ PlansAsked' = PlansAsked /\ (Started' <=> Started)
      /\ \A i \in Positions({"CONTEXT_EVALUATED"}) : journal'[i] = journal[i]
  BY <1>1, <1>4, WithoutPositions, NodeStays, DecisionsStay DEF PlansAsked, Started
<1>7. Generated'
  <2>1. Positions({"PLAN_GENERATED"})' = Positions({"PLAN_GENERATED"}) \cup {Len(journal) + 1}
    BY <1>1, <1>2, AddsPositions DEF Silent
  <2> QED
    BY <2>1 DEF Generated
<1>8. LastDecision # 0 /\ Positions(GraphEvents) = {} /\ cursor = "work"
  BY <1>1 DEF ServiceInv, StateInv, Early
<1>9. Sufficient(LastDecision)' <=> Sufficient(LastDecision)
  <2>1. LastDecision \in Positions({"CONTEXT_EVALUATED"})
    BY <1>1, <1>8, PositionFacts DEF LastDecision
  <2> QED
    BY <1>6, <2>1 DEF Sufficient
<1>10. HistoryInv'
  BY <1>6, <1>7, <1>9 DEF ServiceInv, JournalInv, HistoryInv
<1>11. StateInv'
  BY <1>1, <1>6, <1>8 DEF StateInv, Early, Gathering
<1>12. TypeInv'
  BY <1>1, <1>3, SeenFacts DEF ServiceInv, TypeInv, TypeOK, outside, bounds
<1>13. PlaceOf(c)'
  BY <1>3, <1>7 DEF PlaceOf
<1>14. DueOf(c)'
  <2>1. Unrecorded(c)' = {}
    BY <1>3 DEF Unrecorded
  <2> QED
    BY <2>1 DEF DueOf
<1>15. /\ e.type \in HistoryEvents /\ UNCHANGED <<effects, faults>> /\ state \in Alive
       /\ state' # "COMPLETED"
  BY <1>1, <1>2 DEF HistoryEvents, outside, bounds, Alive, Early
<1> QED
  BY <1>1, <1>2, <1>3, <1>5, <1>10, <1>11, <1>12, <1>13, <1>14, <1>15, WriteStep

\* Every section of the preparation.
LEMMA PreparationKeeps ==
  ASSUME ServiceInv, NEW c \in Callers, PreparationSession(c)
  PROVE  ServiceInv'
BY EnterContextKeeps, AssembleKeeps, ConcludeKeeps, EnterPlanKeeps, CallPlannerKeeps,
   RecordPlanKeeps DEF PreparationSession

-----------------------------------------------------------------------------
(* The graph.                                                              *)

\* _execute_locked: with a plan, and nothing of the graph in the journal, to EXECUTING.
LEMMA EnterGraphKeeps ==
  ASSUME ServiceInv, NEW c \in Callers, EnterGraph(c)
  PROVE  ServiceInv'
<1>1. /\ at[c] = "execute" /\ Free /\ at[c] \notin InSuite
      /\ UNCHANGED <<journal, cursor, candidate, outside, bounds>>
      /\ IsJournal(journal)
  BY DEF EnterGraph, Enters, InSuite, ServiceInv, JournalInv
<1>2. CASE Return(c) /\ UNCHANGED state
  BY <1>1, <1>2, ReturnKeeps DEF stored
<1>3. CASE /\ state = "PLANNING" /\ cursor = "work" /\ MoveTo("EXECUTING")
           /\ Go(c, "loop") /\ UNCHANGED seen
  <2>1. /\ at'[c] = "loop" /\ at' \in [Callers -> Places]
        /\ \A d \in Callers : d # c => at'[d] = at[d] /\ seen'[d] = seen[d]
    BY <1>3, GoFacts, PlacesAre DEF ServiceInv
  <2>2. state' = "EXECUTING" /\ state \in Alive
    BY <1>3 DEF MoveTo, Alive, Early
  <2>3. Keeps
    BY <1>1, NothingKeeps
  <2>4. TypeInv'
    <3>1. "EXECUTING" \in State
      BY DEF State
    <3> QED
      BY <1>1, <1>3, <2>1, <2>2, <3>1, SeenFacts
         DEF ServiceInv, TypeInv, TypeOK, outside, bounds
  <2>5. Generated /\ Positions(GraphEvents) = {}
    BY <1>1, <1>3 DEF ServiceInv, CallerInv, PlaceOf, StateInv, Early
  <2>6. Positions({"NODE_STARTED"}) = {} /\ Suites = {}
    BY <2>5 DEF Positions, Of, GraphEvents, Suites, SuiteEvents
  <2>7. Visits = 0 /\ ~ NodeIsOpen
    <3>1. Visits = 0
      BY <1>1, <2>6, PositionFacts DEF Visits
    <3>2. Ended \in Nat
      BY <1>1, NumberFacts
    <3> QED
      BY <3>1, <3>2 DEF NodeIsOpen, Ended
  <2>8. /\ Visits' = Visits /\ (NodeIsOpen' <=> NodeIsOpen) /\ (Generated' <=> Generated)
        /\ Suites' = Suites
    BY <1>1, <2>3, KeepsControl
  <2>9. StateInv'
    <3>1. 0 < MaxIterations
      BY ServiceIsConfigured
    <3> QED
      BY <2>2, <2>5, <2>6, <2>7, <2>8, <3>1 DEF StateInv, Early, Gathering
  <2>10. PlaceOf(c)' /\ RequestOf(c)' /\ ProgressOf(c)' /\ VerdictIsEarned'
    BY <2>1, <2>2, <2>7, <2>8 DEF PlaceOf, RequestOf, ProgressOf, InSuite, VerdictIsEarned
  <2> QED
    BY <1>1, <2>1, <2>2, <2>3, <2>4, <2>9, <2>10, MoveStep DEF outside, bounds
<1> QED
  BY <1>2, <1>3 DEF EnterGraph

\* resume of an execution that is in the graph: the node is open or it is not.
LEMMA ReenterKeeps ==
  ASSUME ServiceInv, NEW c \in Callers, Reenter(c)
  PROVE  ServiceInv'
<1>1. /\ at[c] = "reenter" /\ Free /\ at[c] \notin InSuite
      /\ UNCHANGED <<state, journal, candidate, outside, bounds>>
      /\ IsJournal(journal)
  BY DEF Reenter, Enters, InSuite, ServiceInv, JournalInv
<1>2. CASE Return(c) /\ UNCHANGED cursor
  BY <1>1, <1>2, ReturnKeeps DEF stored
<1>3. CASE /\ state = "EXECUTING" /\ ~ NodeIsOpen
           /\ cursor' = IF RepairPending THEN "work" ELSE cursor
           /\ Go(c, "loop") /\ UNCHANGED seen
  <2>1. /\ at'[c] = "loop" /\ at' \in [Callers -> Places]
        /\ \A d \in Callers : d # c => at'[d] = at[d] /\ seen'[d] = seen[d]
    BY <1>3, GoFacts, PlacesAre DEF ServiceInv
  <2>2. Keeps
    BY <1>1, NothingKeeps
  <2>3. TypeInv'
    BY <1>1, <1>3, <2>1, SeenFacts DEF ServiceInv, TypeInv, TypeOK, outside, bounds
  <2>4. /\ Visits' = Visits /\ (NodeIsOpen' <=> NodeIsOpen) /\ (Generated' <=> Generated)
        /\ Suites' = Suites /\ LastSuite' = LastSuite /\ (RepairPending' <=> RepairPending)
    BY <1>1, <2>2, KeepsControl
  <2>5. StateInv'
    BY <1>1, <1>3, <2>4 DEF ServiceInv, StateInv, Early, Gathering
  <2>6. PlaceOf(c)' /\ RequestOf(c)' /\ ProgressOf(c)' /\ VerdictIsEarned'
    BY <1>1, <1>3, <2>1, <2>4 DEF PlaceOf, RequestOf, ProgressOf, InSuite, VerdictIsEarned
  <2> QED
    BY <1>1, <2>1, <2>2, <2>3, <2>5, <2>6, MoveStep DEF outside, bounds
<1> QED
  BY <1>2, <1>3 DEF Reenter

\* A visit begins while there is one left; it was open nowhere, and its number is new.
LEMMA StartNodeKeeps ==
  ASSUME ServiceInv, NEW c \in Callers, StartNode(c)
  PROVE  ServiceInv'
<1> DEFINE e == [type |-> "NODE_STARTED", node |-> "work", attempt |-> Visits + 1]
<1>1. /\ at[c] = "loop" /\ at[c] \in Sections /\ at[c] \notin InSuite /\ cursor = "work"
      /\ state = "EXECUTING" /\ ~ NodeIsOpen
      /\ UNCHANGED <<cursor, candidate, outside, bounds>>
      /\ IsJournal(journal)
  BY PlacesAre DEF StartNode, InSuite, ServiceInv, JournalInv, CallerInv, PlaceOf
<1>2. CASE Deny(c, "work", Visits + 1, "attempt")
  BY <1>1, <1>2, DenyStep DEF outside, bounds
<1>3. CASE Write(e) /\ Go(c, "node") /\ UNCHANGED <<state, seen>>
  <2>1. /\ Adds(e) /\ e.type = "NODE_STARTED" /\ e.node = "work" /\ e.attempt = Visits + 1
    BY <1>1, <1>3, WriteAdds
  <2> HIDE DEF e
  <2>2. /\ at'[c] = "node" /\ at' \in [Callers -> Places]
        /\ \A d \in Callers : d # c => at'[d] = at[d] /\ seen'[d] = seen[d]
    BY <1>3, GoFacts, PlacesAre DEF ServiceInv
  <2>3. /\ Without(SuiteEvents) /\ Without({"CONTEXT_EVALUATED"})
        /\ Without({"NODE_COMPLETED", "NODE_FAILED"})
        /\ Without({"PLAN_GENERATION_STARTED", "PLAN_GENERATED"})
    BY <1>1, <2>1, AddsWithout DEF SuiteEvents, Silent
  <2>4. /\ Ended' = Ended /\ Decisions' = Decisions /\ LastDecision' = LastDecision
        /\ \A i \in Positions({"CONTEXT_EVALUATED"}) : journal'[i] = journal[i]
        /\ PlansAsked' = PlansAsked /\ (Started' <=> Started) /\ (Generated' <=> Generated)
    BY <1>1, <2>3, WithoutPositions, DecisionsStay, PlanStays DEF Ended
  <2>5. Visits' = Visits + 1
    BY <1>1, <2>1, AddsPositions DEF Visits, Silent
  <2>6. Positions(Attempted)' = Positions(Attempted) \cup {Len(journal) + 1}
    BY <1>1, <2>1, AddsPositions DEF Attempted, Silent
  <2>7. Visits \in Nat /\ Ended \in Nat /\ Visits = Ended /\ Visits < MaxIterations
    <3>1. Visits \in Nat /\ Ended \in Nat
      BY <1>1, NumberFacts
    <3>2. Ended <= Visits /\ ~ (Visits > Ended) /\ Visits < MaxIterations
      BY <1>1 DEF ServiceInv, JournalInv, HistoryInv, StateInv, NodeIsOpen, Ended
    <3> QED
      BY <3>1, <3>2
  <2>8. NodeIsOpen'
    BY <2>4, <2>5, <2>7 DEF NodeIsOpen, Ended
  <2>9. Generated
    BY <1>1 DEF ServiceInv, StateInv
  <2>10. HistoryInv'
    <3>1. MaxIterations \in Nat
      BY ServiceIsConfigured
    <3>2. Started => (Sufficient(LastDecision)' <=> Sufficient(LastDecision))
      <4>1. Started => LastDecision # 0
        BY DEF ServiceInv, JournalInv, HistoryInv
      <4>2. Started => LastDecision \in Positions({"CONTEXT_EVALUATED"})
        BY <1>1, <4>1, PositionFacts DEF LastDecision
      <4> QED
        BY <2>4, <4>2 DEF Sufficient
    <3> QED
      BY <2>4, <2>5, <2>7, <2>9, <3>1, <3>2 DEF ServiceInv, JournalInv, HistoryInv
  <2>11. StartsInv'
    <3>1. \A s \in Positions(Attempted) : journal'[s] = journal[s]
      BY <1>1, PositionFacts, <2>1 DEF Adds, Continued
    <3>2. \A s \in Positions(Attempted) : StartIsTyped(journal[s])'
      BY <2>5, <2>7, <3>1 DEF ServiceInv, JournalInv, StartsInv, StartIsTyped
    <3>3. journal'[Len(journal) + 1] = e
      BY <2>1 DEF Adds
    <3>4. \A s \in Positions(Attempted)' : StartIsTyped(journal[s])'
      BY <2>1, <2>5, <2>6, <2>7, <3>2, <3>3 DEF StartIsTyped
    <3> QED
      BY <3>4 DEF StartsInv
  <2>12. SuitesInv' /\ (Suites # {} => ~ journal[LastSuite].passed)'
    <3>1. Suites # {} => ~ journal[LastSuite].passed
      BY <1>1 DEF ServiceInv, StateInv
    <3>2. LastSuite \in Suites \/ LastSuite = 0
      BY <1>1, NumberFacts
    <3>3. Suites \subseteq Positions(SuiteEvents) /\ (Suites # {} => LastSuite # 0)
          /\ Positions({"VERIFICATION_SUITE_RECORDED", "VERIFICATION_GATE_RECORDED"})
               \subseteq Positions(SuiteEvents)
      BY <1>1, NumberFacts DEF Suites, SuiteEvents, Positions, Of
    <3>4. /\ Positions(SuiteEvents)' = Positions(SuiteEvents)
          /\ Suites' = Suites /\ LastSuite' = LastSuite /\ SuiteNumber' = SuiteNumber
          /\ Positions({"VERIFICATION_SUITE_RECORDED", "VERIFICATION_GATE_RECORDED"})' =
               Positions({"VERIFICATION_SUITE_RECORDED", "VERIFICATION_GATE_RECORDED"})
          /\ \A i \in Positions(SuiteEvents) : journal'[i] = journal[i]
      BY <1>1, <2>3, SuitesStay
    <3> QED
      BY <3>1, <3>2, <3>3, <3>4 DEF ServiceInv, JournalInv, SuitesInv
  <2>13. StateInv'
    BY <1>1, <1>3, <2>4, <2>8, <2>9, <2>12 DEF StateInv, Early, Gathering
  <2>14. TypeInv'
    BY <1>1, <1>3, <2>2, SeenFacts DEF ServiceInv, TypeInv, TypeOK, outside, bounds
  <2>15. PlaceOf(c)'
    BY <1>1, <1>3, <2>2, <2>8 DEF PlaceOf
  <2>16. DueOf(c)'
    <3>1. PICK n : n = Visits + 1
      OBVIOUS
    <3>2. Unrecorded(c)' = {<<"work", n>>}
      <4>1. Unrecorded(c)' = {<<"work", Visits'>>}
        BY <2>2 DEF Unrecorded
      <4> QED
        BY <2>5, <3>1, <4>1
    <3>3. IsStarted(<<"work", n>>)'
      <4>1. Len(journal) + 1 \in Positions(Attempted)' /\ journal'[Len(journal) + 1] = e
        BY <2>1, <2>6 DEF Adds
      <4> QED
        BY <2>1, <3>1, <4>1 DEF IsStarted
    <3>4. IsNew(<<"work", n>>)
      <4> SUFFICES ASSUME NEW i \in DOMAIN effects, effects[i] = <<"work", n>>
                   PROVE  FALSE
        BY DEF IsNew
      <4>1. PICK s \in Positions(Attempted) : <<journal[s].node, journal[s].attempt>> = effects[i]
        BY DEF ServiceInv, MadeOnce, IsStarted
      <4>2. journal[s].node = "work" /\ journal[s].attempt = Visits + 1
            /\ journal[s].type \in Attempted
        BY <1>1, <3>1, <4>1, PositionFacts
      <4>3. "work" \notin Gates
        BY ServiceIsConfigured
      <4>4. StartIsTyped(journal[s])
        BY DEF ServiceInv, JournalInv, StartsInv
      <4> QED
        BY <2>7, <4>2, <4>3, <4>4 DEF StartIsTyped, Attempted
    <3>5. IsNew(<<"work", n>>)'
      BY <1>1, <3>4 DEF IsNew, outside
    <3> QED
      BY <3>2, <3>3, <3>5 DEF DueOf, IsNew, IsStarted
  <2>17. /\ e.type \in HistoryEvents /\ UNCHANGED <<effects, faults>> /\ state \in Alive
         /\ state' # "COMPLETED"
    BY <1>1, <1>3, <2>1 DEF HistoryEvents, outside, bounds, Alive
  <2> QED
    BY <1>1, <2>1, <2>2, <2>10, <2>11, <2>12, <2>13, <2>14, <2>15, <2>16, <2>17, WriteStep
<1> QED
  BY <1>2, <1>3 DEF StartNode

\* The agent of the node works once in the visit its caller has started.
LEMMA WorkOnNodeKeeps ==
  ASSUME ServiceInv, NEW c \in Callers, WorkOnNode(c)
  PROVE  ServiceInv'
<1>1. /\ at[c] = "node" /\ at[c] \in Sections /\ at[c] \notin InSuite
      /\ state = "EXECUTING" /\ NodeIsOpen
      /\ UNCHANGED <<cursor, candidate, promotes, head, tree, stale, clock, bounds>>
      /\ IsJournal(journal)
  BY PlacesAre DEF WorkOnNode, InSuite, ServiceInv, CallerInv, PlaceOf, JournalInv
<1>2. CASE ~ Fits(journal, "work", "model")
  <2>1. Deny(c, "work", Visits, "model") /\ UNCHANGED effects
    BY <1>2 DEF WorkOnNode
  <2> QED
    BY <1>1, <2>1, DenyStep DEF bounds
<1>3. CASE Fits(journal, "work", "model")
  <2>1. /\ \E d \in Durations : journal' = Called("work", Visits, d)
        /\ Affect("work", Visits)
        /\ \/ Return(c) /\ UNCHANGED state
           \/ Finish(c, "FAILED_BUDGET_EXCEEDED")
           \/ Go(c, "worked") /\ UNCHANGED <<state, seen>>
    BY <1>3 DEF WorkOnNode
  <2>2. Keeps /\ Continued
    BY <1>1, <2>1, CalledKeeps DEF Keeps
  <2>3. JournalInv' /\ Further
    BY <1>1, <2>2, KeepsJournal, KeepsFurther DEF ServiceInv
  <2>4. IsNew(<<"work", Visits>>) /\ IsStarted(<<"work", Visits>>)
    <3>1. Unrecorded(c) = {<<"work", Visits>>}
      BY <1>1 DEF Unrecorded
    <3> QED
      BY <3>1 DEF ServiceInv, CallerInv, DueOf
  <2>5. MadeOnce' /\ effects' \in Seq(Nodes \X Nat)
    <3>1. PICK n : n = Visits
      OBVIOUS
    <3>2. <<"work", n>> \in Nodes \X Nat
      BY <1>1, <3>1, NumberFacts, ServiceIsConfigured
    <3>3. IsNew(<<"work", n>>) /\ IsStarted(<<"work", n>>)
      BY <2>4, <3>1
    <3>4. effects' = Append(effects, <<"work", n>>)
      BY <2>1, <3>1 DEF Affect
    <3> QED
      BY <1>1, <2>2, <3>2, <3>3, <3>4, EffectMade DEF ServiceInv, TypeInv
  <2>6. "FAILED_BUDGET_EXCEEDED" \in State \ Alive
    BY DEF State, Terminal, Alive, Early
  <2>7. CASE Finish(c, "FAILED_BUDGET_EXCEEDED")
    <3>1. state' = "FAILED_BUDGET_EXCEEDED" /\ Return(c)
      BY <2>7 DEF Finish, MoveTo
    <3>2. TypeInv'
      BY <1>1, <2>5, <2>6, <3>1, ReturnFacts
         DEF ServiceInv, TypeInv, TypeOK, Carriage, bounds
    <3> QED
      BY <1>1, <2>3, <2>5, <2>6, <3>1, <3>2, StopStep
  <2>8. ASSUME NEW p \in {"idle", "worked"}, UNCHANGED state, TypeInv', at'[c] = p,
               \A d \in Callers : d # c => at'[d] = at[d] /\ seen'[d] = seen[d]
        PROVE  ServiceInv'
    <3>1. StateInv' /\ VerdictIsEarned'
      BY <1>1, <2>2, <2>8, StateStays, StaysEarned DEF ServiceInv
    <3>2. NodeIsOpen'
      BY <1>1, <2>2, KeepsControl
    <3>3. PlaceOf(c)' /\ RequestOf(c)' /\ ProgressOf(c)'
      BY <1>1, <2>8, <3>2 DEF PlaceOf, RequestOf, ProgressOf, InSuite
    <3>4. DueOf(c)'
      <4>1. Unrecorded(c)' = {}
        BY <2>8 DEF Unrecorded
      <4> QED
        BY <4>1 DEF DueOf
    <3>5. Uninterrupted'
      <4>1. \A d \in Callers : at[d] \in InSuite => at'[d] \in InSuite
        BY <1>1, <2>8
      <4> QED
        BY <1>1, <2>2, <2>8, <4>1, KeepsSuites, StaysUninterrupted DEF ServiceInv, bounds
    <3> QED
      BY <1>1, <2>3, <2>5, <2>8, <3>1, <3>3, <3>4, <3>5, HolderStep
  <2>9. CASE Return(c) /\ UNCHANGED state
    <3>1. TypeInv'
      BY <1>1, <2>5, <2>9, ReturnFacts DEF ServiceInv, TypeInv, TypeOK, Carriage, bounds
    <3>2. /\ at'[c] = "idle"
          /\ \A d \in Callers : d # c => at'[d] = at[d] /\ seen'[d] = seen[d]
      BY <2>9, ReturnFacts DEF ServiceInv
    <3> QED
      BY <2>8, <2>9, <3>1, <3>2
  <2>10. CASE Go(c, "worked") /\ UNCHANGED <<state, seen>>
    <3>1. /\ at'[c] = "worked" /\ at' \in [Callers -> Places]
          /\ \A d \in Callers : d # c => at'[d] = at[d] /\ seen'[d] = seen[d]
      BY <2>10, GoFacts, PlacesAre DEF ServiceInv
    <3>2. TypeInv'
      BY <1>1, <2>5, <2>10, <3>1, SeenFacts DEF ServiceInv, TypeInv, TypeOK, bounds
    <3> QED
      BY <2>8, <2>10, <3>1, <3>2
  <2> QED
    BY <2>1, <2>7, <2>9, <2>10
<1> QED
  BY <1>2, <1>3

\* The end of a visit, whichever it is: what of it the rest looks at.
LEMMA EndOfVisit ==
  ASSUME ServiceInv, NodeIsOpen, NEW e, Adds(e), e.type \in {"NODE_COMPLETED", "NODE_FAILED"}
  PROVE  /\ JournalInv' /\ Further /\ ~ NodeIsOpen'
         /\ HistoryInv' /\ StartsInv' /\ SuitesInv' /\ (Generated' <=> Generated)
         /\ Suites' = Suites /\ LastSuite' = LastSuite
         /\ \A i \in Suites : journal'[i] = journal[i]
<1>1. IsJournal(journal) /\ Continued /\ IsJournal(journal')
  BY DEF ServiceInv, JournalInv, Adds, Continued
<1>2. /\ Without(VerdictEvents) /\ Without(RepairEvents) /\ Without({"CONTEXT_EVALUATED"})
      /\ Without({"PLAN_GENERATION_STARTED", "PLAN_GENERATED"}) /\ Without({"NODE_STARTED"})
      /\ Without(Attempted)
  BY <1>1, AddsWithout DEF VerdictEvents, RepairEvents, SuiteEvents, Attempted, Silent
<1>3. SuitesInv' /\ StartsInv'
  BY <1>1, <1>2, SuitesInvStays, StartsStay DEF ServiceInv, JournalInv
<1>4. /\ SchedulesInv' /\ Schedules' = Schedules /\ (RepairedSince' <=> RepairedSince)
      /\ Suites' = Suites /\ LastSuite' = LastSuite
      /\ \A k \in Schedules \cup Suites : journal'[k] = journal[k]
  BY <1>1, <1>2, SchedulesStay DEF ServiceInv, JournalInv
<1>5. /\ Visits' = Visits /\ Decisions' = Decisions /\ LastDecision' = LastDecision
      /\ \A i \in Positions({"CONTEXT_EVALUATED"}) : journal'[i] = journal[i]
      /\ PlansAsked' = PlansAsked /\ (Started' <=> Started) /\ (Generated' <=> Generated)
  BY <1>1, <1>2, VisitsStay, DecisionsStay, PlanStays
<1>6. Ended' = Ended + 1
  BY <1>1, AddsPositions DEF Ended, Silent
<1>7. Visits \in Nat /\ Ended \in Nat /\ Visits = Ended + 1
  <2>1. Visits \in Nat /\ Ended \in Nat
    BY <1>1, NumberFacts
  <2>2. Visits <= Ended + 1 /\ Visits > Ended
    BY DEF ServiceInv, JournalInv, HistoryInv, NodeIsOpen, Ended
  <2> QED
    BY <2>1, <2>2
<1>8. ~ NodeIsOpen'
  BY <1>5, <1>6, <1>7 DEF NodeIsOpen, Ended
<1>9. HistoryInv'
  <2>1. Started => (Sufficient(LastDecision)' <=> Sufficient(LastDecision))
    <3>1. Started => LastDecision # 0
      BY DEF ServiceInv, JournalInv, HistoryInv
    <3>2. Started => LastDecision \in Positions({"CONTEXT_EVALUATED"})
      BY <1>1, <3>1, PositionFacts DEF LastDecision
    <3> QED
      BY <1>5, <3>2 DEF Sufficient
  <2> QED
    BY <1>5, <1>6, <1>7, <2>1 DEF ServiceInv, JournalInv, HistoryInv
<1> QED
  BY <1>1, <1>3, <1>4, <1>5, <1>8, <1>9 DEF JournalInv, Further

\* A visit ends as one that was open.
LEMMA FinishNodeKeeps ==
  ASSUME ServiceInv, NEW c \in Callers, FinishNode(c)
  PROVE  ServiceInv'
<1>1. /\ at[c] = "worked" /\ at[c] \in Sections /\ at[c] \notin InSuite
      /\ state = "EXECUTING" /\ NodeIsOpen
      /\ UNCHANGED <<candidate, promotes, head, stale, clock, effects, bounds>>
      /\ IsJournal(journal)
  BY PlacesAre DEF FinishNode, InSuite, ServiceInv, CallerInv, PlaceOf, JournalInv
<1>2. CASE Write([type |-> "NODE_FAILED"]) /\ Finish(c, "FAILED") /\ UNCHANGED <<tree, cursor>>
  <2>1. PICK e : e = [type |-> "NODE_FAILED"]
    OBVIOUS
  <2>2. Adds(e) /\ e.type = "NODE_FAILED"
    BY <1>1, <1>2, <2>1, WriteAdds
  <2>3. JournalInv' /\ Further /\ Continued
    BY <1>1, <2>2, EndOfVisit DEF Adds
  <2>4. MadeOnce'
    BY <1>1, <2>3, EffectsStay DEF ServiceInv
  <2>5. state' = "FAILED" /\ Return(c)
    BY <1>2 DEF Finish, MoveTo
  <2>6. "FAILED" \in State \ Alive
    BY DEF State, Terminal, Alive, Early
  <2>7. TypeInv'
    BY <1>1, <1>2, <2>5, <2>6, ReturnFacts DEF ServiceInv, TypeInv, TypeOK, Carriage, bounds
  <2> QED
    BY <1>1, <2>3, <2>4, <2>5, <2>6, <2>7, StopStep
<1>3. CASE /\ Write([type |-> "NODE_COMPLETED"])
           /\ tree' \in {tree, IF tree = "clean" THEN "edited" ELSE tree}
           /\ cursor' = "end" /\ Go(c, "loop") /\ UNCHANGED <<state, seen>>
  <2>1. PICK e : e = [type |-> "NODE_COMPLETED"]
    OBVIOUS
  <2>2. Adds(e) /\ e.type = "NODE_COMPLETED"
    BY <1>1, <1>3, <2>1, WriteAdds
  <2>3. /\ HistoryInv' /\ StartsInv' /\ SuitesInv' /\ ~ NodeIsOpen' /\ (Generated' <=> Generated)
        /\ Suites' = Suites /\ LastSuite' = LastSuite
        /\ \A i \in Suites : journal'[i] = journal[i]
    BY <1>1, <2>2, EndOfVisit
  <2>4. /\ at'[c] = "loop" /\ at' \in [Callers -> Places]
        /\ \A d \in Callers : d # c => at'[d] = at[d] /\ seen'[d] = seen[d]
    BY <1>3, GoFacts, PlacesAre DEF ServiceInv
  <2>5. TypeInv'
    BY <1>1, <1>3, <2>4, SeenFacts DEF ServiceInv, TypeInv, TypeOK, bounds
  <2>6. ~ RepairPending'
    <3>1. /\ Last({"NODE_COMPLETED"})' = Len(journal) + 1
          /\ Last({"VERIFICATION_REPAIR_SCHEDULED"})' = Last({"VERIFICATION_REPAIR_SCHEDULED"})
      BY <1>1, <2>2, AddsPositions DEF Silent
    <3>2. /\ Last({"VERIFICATION_REPAIR_SCHEDULED"}) \in Nat /\ Len(journal) \in Nat
          /\ Last({"VERIFICATION_REPAIR_SCHEDULED"}) <= Len(journal)
      BY <1>1, PositionFacts
    <3> QED
      BY <3>1, <3>2 DEF RepairPending
  <2>7. StateInv'
    <3>1. Suites # {} => LastSuite \in Suites
      BY <1>1, NumberFacts
    <3>2. Generated /\ (Suites # {} => ~ journal[LastSuite].passed)
      BY <1>1 DEF ServiceInv, StateInv
    <3> QED
      BY <1>1, <1>3, <2>3, <2>6, <3>1, <3>2 DEF StateInv, Early, Gathering
  <2>8. PlaceOf(c)'
    BY <1>1, <1>3, <2>3, <2>4 DEF PlaceOf
  <2>9. DueOf(c)'
    <3>1. Unrecorded(c)' = {}
      BY <2>4 DEF Unrecorded
    <3> QED
      BY <3>1 DEF DueOf
  <2>10. /\ e.type \in HistoryEvents /\ UNCHANGED <<effects, faults>> /\ state \in Alive
         /\ state' # "COMPLETED"
    BY <1>1, <1>3, <2>2 DEF HistoryEvents, bounds, Alive
  <2> QED
    BY <1>1, <2>2, <2>3, <2>4, <2>5, <2>7, <2>8, <2>9, <2>10, WriteStep
<1> QED
  BY <1>2, <1>3 DEF FinishNode

\* _resolve_terminal leaves the graph for VERIFYING with the node closed.
LEMMA ReachEndKeeps ==
  ASSUME ServiceInv, NEW c \in Callers, ReachEnd(c)
  PROVE  ServiceInv'
<1>1. /\ at[c] = "loop" /\ at[c] \in Sections /\ at[c] \notin InSuite
      /\ state = "EXECUTING" /\ ~ NodeIsOpen /\ Finish(c, "VERIFYING")
      /\ UNCHANGED <<journal, cursor, candidate, outside, bounds>>
      /\ IsJournal(journal)
  BY PlacesAre DEF ReachEnd, InSuite, ServiceInv, JournalInv, CallerInv, PlaceOf
<1>2. state' = "VERIFYING" /\ Return(c) /\ state \in Alive /\ "VERIFYING" \in State
  BY <1>1 DEF Finish, MoveTo, Alive, State
<1>3. /\ at'[c] = "idle"
      /\ \A d \in Callers : d # c => at'[d] = at[d] /\ seen'[d] = seen[d]
  BY <1>2, ReturnFacts DEF ServiceInv
<1>4. Keeps
  BY <1>1, NothingKeeps
<1>5. TypeInv'
  BY <1>1, <1>2, ReturnFacts DEF ServiceInv, TypeInv, TypeOK, Carriage, outside, bounds
<1>6. ~ NodeIsOpen' /\ Generated'
  BY <1>1, <1>4, KeepsControl DEF ServiceInv, StateInv
<1>7. StateInv'
  BY <1>2, <1>6 DEF StateInv, Early, Gathering
<1>8. PlaceOf(c)' /\ RequestOf(c)' /\ ProgressOf(c)' /\ VerdictIsEarned'
  BY <1>2, <1>3 DEF PlaceOf, RequestOf, ProgressOf, InSuite, VerdictIsEarned
<1> QED
  BY <1>1, <1>2, <1>3, <1>4, <1>5, <1>7, <1>8, MoveStep DEF outside, bounds

\* Every section of the graph.
LEMMA GraphKeeps ==
  ASSUME ServiceInv, NEW c \in Callers, GraphSession(c)
  PROVE  ServiceInv'
BY EnterGraphKeeps, ReenterKeeps, StartNodeKeeps, WorkOnNodeKeeps, FinishNodeKeeps,
   ReachEndKeeps DEF GraphSession

-----------------------------------------------------------------------------
(* Verification: what leads up to a suite, and what leads to none.         *)

\* verify begins outside the lock and changes nothing.
LEMMA VerifyKeeps ==
  ASSUME ServiceInv, NEW c \in Callers, Verify(c)
  PROVE  ServiceInv'
<1> DEFINE s == [Nothing EXCEPT !.commit = candidate]
<1>1. /\ at[c] = "idle" /\ Go(c, "look") /\ seen' = [seen EXCEPT ![c] = s]
      /\ UNCHANGED <<stored, outside, bounds>> /\ IsJournal(journal)
  BY DEF Verify, Enters, Carry, ServiceInv, JournalInv
<1>2. s \in Carriage
  BY NothingIsCarried DEF Carriage, ServiceInv, TypeInv, TypeOK
<1> HIDE DEF s
<1>3. /\ at'[c] = "look" /\ at' \in [Callers -> Places]
      /\ DOMAIN seen' = Callers /\ \A d \in Callers : seen'[d] \in Carriage
      /\ \A d \in Callers : d # c => at'[d] = at[d] /\ seen'[d] = seen[d]
  BY <1>1, <1>2, GoFacts, CarryFacts, PlacesAre DEF ServiceInv
<1>4. TypeInv'
  BY <1>1, <1>3 DEF ServiceInv, TypeInv, TypeOK, Carriage, stored, outside, bounds
<1>5. Keeps
  BY <1>1, NothingKeeps DEF stored
<1>6. RequestOf(c)' /\ at'[c] \notin Sections /\ at[c] \notin InSuite
  BY <1>1, <1>3 DEF RequestOf, Sections, InSuite
<1> QED
  BY <1>1, <1>3, <1>4, <1>5, <1>6, PassiveStep DEF stored, outside, bounds

\* _verification_worktree looks outside the lock too.
LEMMA LookAtWorktreeKeeps ==
  ASSUME ServiceInv, NEW c \in Callers, LookAtWorktree(c)
  PROVE  ServiceInv'
<1>1. /\ at[c] \in {"look", "look at failure"} /\ UNCHANGED <<stored, outside, bounds>>
      /\ IsJournal(journal) /\ at[c] \notin InSuite
      /\ \/ Go(c, "block") /\ UNCHANGED seen
         \/ Go(c, "ask") /\ UNCHANGED seen
         \/ Return(c)
         \/ Go(c, "verify") /\ Carry(c, [Nothing EXCEPT !.commit = head])
  BY DEF LookAtWorktree, InSuite, ServiceInv, JournalInv
<1>2. ASSUME NEW p \in {"block", "ask", "verify"}, at'[c] = p, at' \in [Callers -> Places],
             DOMAIN seen' = Callers, \A d \in Callers : seen'[d] \in Carriage,
             \A d \in Callers : d # c => at'[d] = at[d] /\ seen'[d] = seen[d]
      PROVE  ServiceInv'
  <2>1. TypeInv'
    BY <1>1, <1>2 DEF ServiceInv, TypeInv, TypeOK, Carriage, stored, outside, bounds
  <2>2. Keeps
    BY <1>1, NothingKeeps DEF stored
  <2>3. RequestOf(c)' /\ at'[c] \notin Sections
    BY <1>2 DEF RequestOf, Sections
  <2> QED
    BY <1>1, <1>2, <2>1, <2>2, <2>3, PassiveStep DEF stored, outside, bounds
<1>3. ASSUME NEW p \in {"block", "ask"}, Go(c, p), UNCHANGED seen
      PROVE  ServiceInv'
  <2>1. p \in Places
    BY PlacesAre
  <2> QED
    BY <1>2, <1>3, <2>1, GoFacts, SeenFacts DEF ServiceInv
<1>4. CASE Return(c)
  BY <1>1, <1>4, ReturnKeeps
<1>5. CASE Go(c, "verify") /\ Carry(c, [Nothing EXCEPT !.commit = head])
  <2> DEFINE s == [Nothing EXCEPT !.commit = head]
  <2>1. s \in Carriage
    BY NothingIsCarried DEF Carriage, ServiceInv, TypeInv, TypeOK
  <2>2. seen' = [seen EXCEPT ![c] = s]
    BY <1>5 DEF Carry
  <2> HIDE DEF s
  <2> QED
    BY <1>2, <1>5, <2>1, <2>2, GoFacts, CarryFacts, PlacesAre DEF ServiceInv
<1> QED
  BY <1>1, <1>3, <1>4, <1>5

\* A prerequisite is missing, and nothing was written.
LEMMA BlockedKeeps ==
  ASSUME ServiceInv, NEW c \in Callers, at[c] \in Sections \/ Free,
         NEW s \in {"BLOCKED_PREREQUISITE", "FAILED_RETRY_EXHAUSTED"}, Finish(c, s),
         UNCHANGED <<journal, cursor, candidate, outside, bounds>>
  PROVE  ServiceInv'
<1>1. Keeps
  BY NothingKeeps DEF ServiceInv, JournalInv
<1>2. s \in State \ Alive /\ s # "COMPLETED"
  BY DEF State, Blocked, Terminal, Alive, Early
<1> QED
  BY <1>1, <1>2, FinishStep DEF outside, bounds, ServiceInv, TypeInv, TypeOK

\* _block_verification_prerequisite ends an execution or leaves it alone.
LEMMA BlockKeeps ==
  ASSUME ServiceInv, NEW c \in Callers, Block(c)
  PROVE  ServiceInv'
<1>1. /\ at[c] = "block" /\ Free /\ at[c] \notin InSuite
      /\ UNCHANGED <<journal, cursor, candidate, outside, bounds>>
      /\ Finish(c, "BLOCKED_PREREQUISITE") \/ (Return(c) /\ UNCHANGED state)
  BY DEF Block, Enters, InSuite
<1> QED
  BY <1>1, ReturnKeeps, BlockedKeeps DEF stored

\* A verdict that stands completes the execution.
LEMMA CompleteStep ==
  ASSUME ServiceInv, NEW c \in Callers, at[c] \in Sections \/ Free, MoveTo("COMPLETED"),
         SuitesReplay, Suites # {}, Verdict(LastSuite),
         promotes => candidate = journal[LastSuite].commit,
         UNCHANGED <<journal, cursor, candidate, outside, bounds>>,
         at'[c] = "idle", at' \in [Callers -> Places],
         DOMAIN seen' = Callers, \A d \in Callers : seen'[d] \in Carriage,
         \A d \in Callers : d # c => at'[d] = at[d] /\ seen'[d] = seen[d]
  PROVE  ServiceInv'
<1>1. IsJournal(journal) /\ Keeps /\ Continued /\ state' = "COMPLETED"
  BY NothingKeeps DEF ServiceInv, JournalInv, MoveTo, Keeps
<1>2. "COMPLETED" \in State \ Alive
  BY DEF State, Alive, Early
<1>3. TypeInv'
  BY <1>1, <1>2 DEF ServiceInv, TypeInv, TypeOK, Carriage, outside, bounds
<1>4. StateInv' /\ Uninterrupted'
  BY <1>1, <1>2, StateIsOver DEF Uninterrupted
<1>5. MadeOnce' /\ JournalInv' /\ Further
  BY <1>1, EffectsStay, KeepsJournal, KeepsFurther DEF ServiceInv, outside
<1>6. VerdictIsEarned'
  <2>1. LastSuite \in Suites
    BY <1>1, NumberFacts
  <2>2. IsWhole(LastSuite) /\ journal[LastSuite].passed
        /\ GatesOf(journal[LastSuite].attempt) = Gates
    BY <2>1 DEF SuitesReplay, Verdict, IsFull
  <2>3. AllPassed(journal[LastSuite].attempt)
    BY <2>2 DEF IsWhole
  <2>4. \A g \in Blocking :
          \E r \in Positions({"VERIFICATION_GATE_RECORDED"}) :
            /\ journal[r].node = g /\ journal[r].passed
            /\ journal[r].attempt = journal[LastSuite].attempt
    <3> TAKE g \in Blocking
    <3>1. PICK r \in Results(journal[LastSuite].attempt) : journal[r].node = g
      BY <2>2, ServiceIsConfigured DEF GatesOf
    <3>2. journal[r].passed
      BY <2>3, <3>1 DEF AllPassed
    <3> QED
      BY <3>1, <3>2 DEF Results
  <2>5. Last({"VERIFICATION_REPAIR_SCHEDULED", "NODE_STARTED"}) < LastSuite
    BY <2>2 DEF ServiceInv, JournalInv, SuitesInv
  <2>6. VerdictIsEarned' <=> (state' = "COMPLETED" => VerdictIsEarned')
    BY <1>1
  <2>7. /\ SuitesReplay' <=> SuitesReplay
        /\ LastSuite' = LastSuite /\ (Verdict(LastSuite)' <=> Verdict(LastSuite))
    BY <1>1, KeepsSuites, SuitesStay
  <2>8. /\ Last({"VERIFICATION_REPAIR_SCHEDULED", "NODE_STARTED"})' =
             Last({"VERIFICATION_REPAIR_SCHEDULED", "NODE_STARTED"})
        /\ Positions({"VERIFICATION_GATE_RECORDED"})' = Positions({"VERIFICATION_GATE_RECORDED"})
    BY DEF Last, Positions
  <2> QED
    BY <2>4, <2>5, <2>7, <2>8 DEF VerdictIsEarned, outside
<1>7. PlaceOf(c)' /\ RequestOf(c)' /\ ProgressOf(c)' /\ DueOf(c)'
  <2>1. Unrecorded(c)' = {}
    BY DEF Unrecorded
  <2> QED
    BY <2>1 DEF PlaceOf, RequestOf, ProgressOf, InSuite, DueOf
<1> QED
  BY <1>3, <1>4, <1>5, <1>6, <1>7, HolderStep

\* promote completes with the suite that _require_passing_candidate_suite demands.
LEMMA PromoteKeeps ==
  ASSUME ServiceInv, NEW c \in Callers, Promote(c)
  PROVE  ServiceInv'
<1>1. /\ at[c] = "idle" /\ Free
      /\ SuitesReplay /\ Suites # {} /\ Verdict(LastSuite)
      /\ journal[LastSuite].commit = candidate /\ MoveTo("COMPLETED")
      /\ UNCHANGED <<journal, cursor, candidate, outside, at, seen, bounds>>
  BY DEF Promote, Enters
<1>2. at \in [Callers -> Places] /\ DOMAIN seen = Callers /\ \A d \in Callers : seen[d] \in Carriage
  BY SeenFacts DEF ServiceInv, TypeInv, TypeOK
<1> QED
  BY <1>1, <1>2, CompleteStep

\* What the user and the clock do outside.
LEMMA PrepareCandidateKeeps ==
  ASSUME ServiceInv, NEW c \in Callers, PrepareCandidate(c)
  PROVE  ServiceInv'
<1>1. TypeInv'
  BY DEF PrepareCandidate, NextHead, ServiceInv, TypeInv, TypeOK, bounds
<1> QED
  BY <1>1, QuietStep DEF PrepareCandidate, bounds

\* A commit without the manager changes nothing that the journal speaks of,
LEMMA CommitKeeps ==
  ASSUME ServiceInv, Commit
  PROVE  ServiceInv'
<1>1. TypeInv'
  BY DEF Commit, ServiceInv, TypeInv, TypeOK, stored, bounds
<1> QED
  BY <1>1, QuietStep DEF Commit, stored, bounds

\* nor does the user, or the clock.
LEMMA MoveKeeps ==
  ASSUME ServiceInv, Move
  PROVE  ServiceInv'
<1>1. TypeInv'
  <2>1. /\ moves' = moves + 1 /\ UNCHANGED <<stored, promotes, head, effects, at, seen, faults>>
        /\ \/ stale' = TRUE /\ UNCHANGED <<tree, clock>>
           \/ /\ tree' \in IF tree = "clean" THEN {"edited", "stray"} ELSE {"clean"}
              /\ UNCHANGED <<stale, clock>>
           \/ clock' = clock + 1 /\ UNCHANGED <<tree, stale>>
    BY DEF Move
  <2>2. tree \in {"clean", "edited", "stray"} /\ clock \in Nat /\ stale \in BOOLEAN
    BY DEF ServiceInv, TypeInv, TypeOK
  <2>3. tree' \in {"clean", "edited", "stray"}
    BY <2>1, <2>2
  <2>4. clock' \in Nat
    BY <2>1, <2>2
  <2>5. stale' \in BOOLEAN
    BY <2>1, <2>2
  <2> QED
    BY <2>1, <2>3, <2>4, <2>5 DEF ServiceInv, TypeInv, TypeOK, stored
<1> QED
  BY <1>1, QuietStep DEF Move, stored

-----------------------------------------------------------------------------
(* The repair.                                                             *)

\* The limits are numbers.
LEMMA LimitFacts == RetryMax \in Nat /\ RetryDuration \in Nat /\ MaxIterations \in Nat
<1>1. /\ {MaxRetrievals, RetryMax, RetryDuration, MaxUpsets} \cup Durations \subseteq Nat
      /\ MaxIterations \in Nat
  BY ServiceIsConfigured
<1> QED
  BY <1>1

\* All schedules have one deadline, which is the one that is asked for.
LEMMA DeadlineFacts ==
  ASSUME TypeInv, JournalInv
  PROVE  Deadline \in Nat /\ \A k \in Schedules : journal[k].deadline = Deadline
<1>1. IsJournal(journal)
  BY DEF JournalInv
<1>2. CASE Schedules = {}
  BY <1>2, LimitFacts DEF Deadline, TypeInv, TypeOK
<1>3. CASE Schedules # {}
  <2>1. Schedules \in SUBSET Nat
    BY <1>1, PositionFacts DEF Schedules
  <2>2. Min(Schedules) \in Schedules
    BY <1>3, <2>1, MinIsFirst
  <2>3. Deadline = journal[Min(Schedules)].deadline
    BY <1>3 DEF Deadline
  <2> QED
    BY <2>2, <2>3 DEF JournalInv, SchedulesInv, SchedulesReplay
<1> QED
  BY <1>2, <1>3

\* _resume_verification_repair decides under one lock: the request holds now, with the
\* next number and the first deadline.
LEMMA AskRepairKeeps ==
  ASSUME ServiceInv, NEW c \in Callers, AskRepair(c)
  PROVE  ServiceInv'
<1> DEFINE s == [commit |-> 0, gates |-> {}, source |-> journal[LastSuite].attempt,
                 repair |-> Cardinality(Schedules) + 1, visit |-> Visits + 1,
                 deadline |-> Deadline]
<1>1. /\ at[c] = "ask" /\ Free /\ at[c] \notin InSuite
      /\ UNCHANGED <<journal, cursor, candidate, outside, bounds>> /\ IsJournal(journal)
      /\ \/ Return(c) /\ UNCHANGED state
         \/ Finish(c, "FAILED_RETRY_EXHAUSTED")
         \/ /\ Suites # {} /\ ~ RepairedSince /\ ~ LoopIsOver
            /\ seen' = [seen EXCEPT ![c] = s] /\ Go(c, "schedule") /\ UNCHANGED state
  BY DEF AskRepair, Enters, InSuite, Carry, ServiceInv, JournalInv
<1>2. CASE Return(c) /\ UNCHANGED state
  BY <1>1, <1>2, ReturnKeeps DEF stored
<1>3. CASE Finish(c, "FAILED_RETRY_EXHAUSTED")
  BY <1>1, <1>3, BlockedKeeps
<1>4. CASE /\ Suites # {} /\ ~ RepairedSince /\ ~ LoopIsOver
           /\ seen' = [seen EXCEPT ![c] = s] /\ Go(c, "schedule") /\ UNCHANGED state
  <2>1. /\ Deadline \in Nat /\ \A k \in Schedules : journal[k].deadline = Deadline
        /\ Visits \in Nat /\ Cardinality(Schedules) \in Nat
    BY <1>1, DeadlineFacts, NumberFacts DEF ServiceInv
  <2>2. journal[LastSuite].attempt \in Nat
    <3>1. Cardinality(Suites) \in Nat
      BY <1>1, NumberFacts
    <3> QED
      BY <1>4, <3>1 DEF ServiceInv, JournalInv, SuitesInv
  <2>3. s \in Carriage
    BY <2>1, <2>2 DEF Carriage
  <2>4. s.visit = Visits + 1 /\ s.repair = Cardinality(Schedules) + 1 /\ s.deadline = Deadline
    OBVIOUS
  <2>5. Visits + 1 <= MaxIterations /\ Cardinality(Schedules) + 1 <= RetryMax
    BY <1>4, <2>1, LimitFacts DEF LoopIsOver
  <2> HIDE DEF s
  <2>6. /\ at'[c] = "schedule" /\ at' \in [Callers -> Places] /\ seen'[c] = s
        /\ DOMAIN seen' = Callers /\ \A d \in Callers : seen'[d] \in Carriage
        /\ \A d \in Callers : d # c => at'[d] = at[d] /\ seen'[d] = seen[d]
    BY <1>4, <2>3, GoFacts, CarryFacts, PlacesAre DEF ServiceInv
  <2>7. TypeInv'
    BY <1>1, <1>4, <2>6 DEF ServiceInv, TypeInv, TypeOK, Carriage, outside, bounds
  <2>8. Keeps
    BY <1>1, NothingKeeps
  <2>9. /\ Suites' = Suites /\ Schedules' = Schedules /\ (RepairedSince' <=> RepairedSince)
    BY <1>1, <2>8, KeepsControl
  <2>10. RequestOf(c)'
    BY <1>1, <1>4, <2>1, <2>4, <2>5, <2>6, <2>9 DEF RequestOf
  <2>11. at'[c] \notin Sections
    BY <2>6 DEF Sections
  <2> QED
    BY <1>1, <1>4, <2>6, <2>7, <2>8, <2>10, <2>11, PassiveStep DEF outside, bounds
<1> QED
  BY <1>1, <1>2, <1>3, <1>4

\* retry_from_verification asks again under the other lock whether the request holds.
LEMMA ScheduleRepairKeeps ==
  ASSUME ServiceInv, NEW c \in Callers, ScheduleRepair(c)
  PROVE  ServiceInv'
<1>1. /\ at[c] = "schedule" /\ Free /\ at[c] \notin InSuite
      /\ UNCHANGED <<journal, cursor, candidate, outside, bounds>> /\ IsJournal(journal)
      /\ \/ RequestHolds(c) /\ MoveTo("EXECUTING") /\ Go(c, "scheduling") /\ UNCHANGED seen
         \/ Return(c) /\ UNCHANGED state
  BY DEF ScheduleRepair, Enters, InSuite, ServiceInv, JournalInv
<1>2. CASE Return(c) /\ UNCHANGED state
  BY <1>1, <1>2, ReturnKeeps DEF stored
<1>3. CASE RequestHolds(c) /\ MoveTo("EXECUTING") /\ Go(c, "scheduling") /\ UNCHANGED seen
  <2>1. /\ at'[c] = "scheduling" /\ at' \in [Callers -> Places]
        /\ \A d \in Callers : d # c => at'[d] = at[d] /\ seen'[d] = seen[d]
    BY <1>3, GoFacts, PlacesAre DEF ServiceInv
  <2>2. state' = "EXECUTING" /\ state = "VERIFYING" /\ state \in Alive /\ "EXECUTING" \in State
    BY <1>3 DEF MoveTo, RequestHolds, Alive, State
  <2>3. TypeInv'
    BY <1>1, <1>3, <2>1, <2>2, SeenFacts DEF ServiceInv, TypeInv, TypeOK, outside, bounds
  <2>4. Keeps
    BY <1>1, NothingKeeps
  <2>5. /\ Visits' = Visits /\ (NodeIsOpen' <=> NodeIsOpen) /\ (Generated' <=> Generated)
        /\ Suites' = Suites /\ LastSuite' = LastSuite /\ Schedules' = Schedules
        /\ (RepairedSince' <=> RepairedSince)
    BY <1>1, <2>4, KeepsControl
  <2>6. Generated /\ ~ NodeIsOpen
    BY <2>2 DEF ServiceInv, StateInv
  <2>7. RequestOf(c)
    BY DEF ServiceInv, CallerInv
  <2>8. Visits < MaxIterations
    <3>1. Visits \in Nat /\ MaxIterations \in Nat
      BY <1>1, NumberFacts, ServiceIsConfigured
    <3>2. Visits + 1 <= MaxIterations
      BY <1>1, <1>3, <2>7 DEF RequestOf, RequestHolds
    <3> QED
      BY <3>1, <3>2
  <2>9. StateInv'
    BY <1>1, <1>3, <2>2, <2>5, <2>6, <2>8 DEF StateInv, Early, Gathering, RequestHolds
  <2>10. RequestOf(c)'
    BY <1>1, <1>3, <2>1, <2>5, <2>7 DEF RequestOf, RequestHolds
  <2>11. PlaceOf(c)' /\ ProgressOf(c)' /\ VerdictIsEarned'
    BY <2>1, <2>2, <2>5, <2>6 DEF PlaceOf, ProgressOf, InSuite, VerdictIsEarned
  <2> QED
    BY <1>1, <2>1, <2>2, <2>3, <2>4, <2>9, <2>10, <2>11, MoveStep DEF outside, bounds
<1> QED
  BY <1>1, <1>2, <1>3

\* After its schedule was written the cursor goes back to the node that is visited again.
LEMMA MoveCursorKeeps ==
  ASSUME ServiceInv, NEW c \in Callers, MoveCursor(c)
  PROVE  ServiceInv'
<1>1. /\ at[c] = "cursor" /\ at[c] \in Sections /\ at[c] \notin InSuite
      /\ state = "EXECUTING" /\ ~ NodeIsOpen /\ RepairPending
      /\ cursor' = "work" /\ Go(c, "loop") /\ seen' = [seen EXCEPT ![c] = Nothing]
      /\ UNCHANGED <<state, journal, candidate, outside, bounds>> /\ IsJournal(journal)
  BY PlacesAre DEF MoveCursor, Carry, InSuite, ServiceInv, JournalInv, CallerInv, PlaceOf
<1>2. /\ at'[c] = "loop" /\ at' \in [Callers -> Places]
      /\ DOMAIN seen' = Callers /\ \A d \in Callers : seen'[d] \in Carriage
      /\ \A d \in Callers : d # c => at'[d] = at[d] /\ seen'[d] = seen[d]
  BY <1>1, NothingIsCarried, GoFacts, CarryFacts, PlacesAre DEF ServiceInv
<1>3. TypeInv'
  BY <1>1, <1>2 DEF ServiceInv, TypeInv, TypeOK, Carriage, outside, bounds
<1>4. Keeps
  BY <1>1, NothingKeeps
<1>5. /\ Visits' = Visits /\ (NodeIsOpen' <=> NodeIsOpen) /\ (Generated' <=> Generated)
      /\ Suites' = Suites /\ LastSuite' = LastSuite /\ (RepairPending' <=> RepairPending)
  BY <1>1, <1>4, KeepsControl
<1>6. StateInv'
  BY <1>1, <1>5 DEF ServiceInv, StateInv, Early, Gathering
<1>7. PlaceOf(c)' /\ RequestOf(c)' /\ ProgressOf(c)' /\ VerdictIsEarned'
  BY <1>1, <1>2, <1>5 DEF PlaceOf, RequestOf, ProgressOf, InSuite, VerdictIsEarned
<1> QED
  BY <1>1, <1>2, <1>3, <1>4, <1>6, <1>7, MoveStep DEF outside, bounds, Alive

\* A schedule more: it follows the last suite, and no other one does.
LEMMA ScheduleAdded ==
  ASSUME ServiceInv, NEW e, Adds(e), e.type = "VERIFICATION_REPAIR_SCHEDULED",
         e.repair = Cardinality(Schedules) + 1, e.repair <= RetryMax, e.deadline \in Nat,
         \A k \in Schedules : journal[k].deadline = e.deadline,
         Suites # {}, ~ journal[LastSuite].passed, ~ RepairedSince,
         e.source = journal[LastSuite].attempt
  PROVE  SchedulesInv' /\ Cardinality(Schedules)' = Cardinality(Schedules) + 1
<1> DEFINE S == {"VERIFICATION_REPAIR_SCHEDULED"}
<1>1. /\ IsJournal(journal) /\ Continued /\ IsJournal(journal') /\ SchedulesInv
      /\ Len(journal) \in Nat
  BY NumberFacts DEF ServiceInv, JournalInv, Adds, Continued
<1>2. PICK n \in Nat : n = Len(journal) + 1
  BY <1>1
<1>3. /\ Schedules' = Schedules \cup {n} /\ Cardinality(Schedules)' = Cardinality(Schedules) + 1
      /\ journal'[n] = e
  <2>1. S \cap Silent = {}
    BY DEF Silent
  <2> QED
    BY <1>1, <1>2, <2>1, AddsPositions DEF Schedules, Count, Adds
<1>4. Suites' = Suites
  <2>1. Without({"VERIFICATION_SUITE_RECORDED"})
    BY <1>1, AddsWithout DEF Silent
  <2> QED
    BY <1>1, <2>1, WithoutPositions DEF Suites
<1>5. /\ \A i \in Schedules \cup Suites : i \in Nat /\ i < n /\ journal'[i] = journal[i]
      /\ IsFiniteSet(Schedules)
  <2>1. /\ IsFiniteSet(Schedules)
        /\ \A i \in Schedules \cup Suites : i \in Nat /\ i >= 1 /\ i <= Len(journal)
    BY <1>1, PositionFacts DEF Schedules, Suites
  <2>2. DOMAIN journal = 1 .. Len(journal)
    BY <1>1, PositionFacts
  <2> QED
    BY <1>1, <1>2, <2>1, <2>2 DEF Continued
<1>6. \A i : SourceOf(i)' = SourceOf(i)
  BY <1>4 DEF SourceOf
<1>7. LastSuite \in Suites /\ LastSuite \in Nat /\ LastSuite # 0
  BY <1>1, NumberFacts
<1>8. SourceOf(n) = LastSuite
  <2>1. SourceOf(n) \in Suites /\ LastSuite <= SourceOf(n)
    BY <1>1, <1>2, <1>5, <1>7, SourceFacts
  <2>2. SourceOf(n) <= LastSuite /\ SourceOf(n) \in Nat
    BY <1>1, <1>5, <2>1, NumberFacts
  <2> QED
    BY <1>7, <2>1, <2>2
<1>9. \A i \in Schedules : SourceOf(i) \in Suites /\ SourceOf(i) < LastSuite
  <2> TAKE i \in Schedules
  <2>1. SourceOf(i) # 0
    BY <1>1 DEF SchedulesInv, SchedulesReplay
  <2>2. SourceOf(i) \in Suites /\ SourceOf(i) < i /\ i \in Nat /\ SourceOf(i) \in Nat
    BY <1>1, <1>5, <2>1, SourceFacts
  <2>3. i <= LastSuite
    <3>1. i <= Last(S) /\ Last(S) \in Nat
      BY <1>1, PositionFacts DEF Schedules
    <3>2. Last(S) <= LastSuite
      BY <1>7, <3>1 DEF RepairedSince
    <3> QED
      BY <1>7, <2>2, <3>1, <3>2
  <2> QED
    BY <1>7, <2>2, <2>3
<1>10. \A i \in Schedules : journal[i].source # e.source
  <2> TAKE i \in Schedules
  <2>1. journal[i].source = journal[SourceOf(i)].attempt
    BY <1>1 DEF SchedulesInv, SchedulesReplay
  <2>2. journal[SourceOf(i)].attempt < journal[LastSuite].attempt
    BY <1>7, <1>9 DEF ServiceInv, JournalInv, SuitesInv
  <2>3. /\ journal[SourceOf(i)].attempt \in Nat /\ journal[LastSuite].attempt \in Nat
    <3>1. Suites \subseteq Positions(SuiteEvents)
      BY DEF Suites, Positions, Of, SuiteEvents
    <3> QED
      BY <1>7, <1>9, <3>1 DEF ServiceInv, JournalInv, SuitesInv
  <2> QED
    BY <2>1, <2>2, <2>3
<1>11. \A i, k \in Schedules' : journal'[i].source = journal'[k].source => i = k
  BY <1>1, <1>3, <1>5, <1>10 DEF SchedulesInv
<1>12. \A i \in Schedules' : journal'[i].deadline = e.deadline
  BY <1>3, <1>5
<1>13. SchedulesReplay'
  <2>1. ASSUME NEW i \in Schedules
        PROVE  /\ SourceOf(i)' # 0 /\ ~ journal'[SourceOf(i)'].passed
               /\ journal'[i].source = journal'[SourceOf(i)'].attempt
               /\ journal'[i].repair = Cardinality({k \in Schedules' : k <= i})
    <3>1. /\ SourceOf(i) # 0 /\ ~ journal[SourceOf(i)].passed
          /\ journal[i].source = journal[SourceOf(i)].attempt
          /\ journal[i].repair = Cardinality({k \in Schedules : k <= i})
      BY <1>1 DEF SchedulesInv, SchedulesReplay
    <3>2. {k \in Schedules' : k <= i} = {k \in Schedules : k <= i}
      BY <1>3, <1>5
    <3>3. SourceOf(i)' = SourceOf(i) /\ journal'[SourceOf(i)] = journal[SourceOf(i)]
      BY <1>5, <1>6, <1>9
    <3> QED
      BY <1>5, <3>1, <3>2, <3>3
  <2>2. /\ SourceOf(n)' # 0 /\ ~ journal'[SourceOf(n)'].passed
        /\ journal'[n].source = journal'[SourceOf(n)'].attempt
        /\ journal'[n].repair = Cardinality({k \in Schedules' : k <= n})
    <3>1. {k \in Schedules' : k <= n} = Schedules'
      BY <1>3, <1>5
    <3>2. SourceOf(n)' = LastSuite /\ journal'[LastSuite] = journal[LastSuite]
      BY <1>5, <1>6, <1>7, <1>8
    <3> QED
      BY <1>3, <1>7, <3>1, <3>2
  <2>3. \A i \in Schedules' :
          /\ SourceOf(i)' # 0 /\ ~ journal'[SourceOf(i)'].passed
          /\ journal'[i].source = journal'[SourceOf(i)'].attempt
          /\ journal'[i].repair = Cardinality({k \in Schedules' : k <= i})
    BY <1>3, <2>1, <2>2
  <2> QED
    BY <1>12, <2>3 DEF SchedulesReplay
<1>14. Cardinality(Schedules)' <= RetryMax
  BY <1>3
<1> QED
  BY <1>3, <1>11, <1>12, <1>13, <1>14 DEF SchedulesInv

\* The schedule that is written is the next one, after a failed suite that no other follows.
LEMMA RecordScheduleKeeps ==
  ASSUME ServiceInv, NEW c \in Callers, RecordSchedule(c)
  PROVE  ServiceInv'
<1>1. /\ at[c] = "scheduling" /\ at[c] \in Sections /\ at[c] \notin InSuite
      /\ state = "EXECUTING" /\ ~ NodeIsOpen
      /\ UNCHANGED <<cursor, candidate, outside, bounds>> /\ IsJournal(journal)
  BY PlacesAre DEF RecordSchedule, InSuite, ServiceInv, JournalInv, CallerInv, PlaceOf
<1>2. CASE Finish(c, "FAILED_RETRY_EXHAUSTED") /\ UNCHANGED journal
  BY <1>1, <1>2, BlockedKeeps
<1> DEFINE s == [type |-> "VERIFICATION_REPAIR_SCHEDULED", repair |-> seen[c].repair,
                 source |-> seen[c].source, deadline |-> seen[c].deadline]
<1>3. CASE Write(s) /\ Go(c, "cursor") /\ UNCHANGED <<state, seen>>
  <2>1. PICK e : e = s
    OBVIOUS
  <2>2. /\ Adds(e) /\ e.type = "VERIFICATION_REPAIR_SCHEDULED" /\ e.repair = seen[c].repair
        /\ e.source = seen[c].source /\ e.deadline = seen[c].deadline
    BY <1>1, <1>3, <2>1, WriteAdds
  <2> HIDE DEF s
  <2>3. Continued
    BY <2>2 DEF Adds
  <2>4. /\ at'[c] = "cursor" /\ at' \in [Callers -> Places]
        /\ \A d \in Callers : d # c => at'[d] = at[d] /\ seen'[d] = seen[d]
    BY <1>3, GoFacts, PlacesAre DEF ServiceInv
  <2>5. TypeInv'
    BY <1>1, <1>3, <2>4, SeenFacts DEF ServiceInv, TypeInv, TypeOK, outside, bounds
  <2>6. /\ Without(SuiteEvents) /\ Without(HistoryEvents) /\ Without(Attempted)
        /\ Without({"NODE_STARTED", "NODE_COMPLETED", "NODE_FAILED"})
        /\ Without({"PLAN_GENERATION_STARTED", "PLAN_GENERATED"})
        /\ Without({"NODE_COMPLETED"})
    BY <1>1, <2>2, AddsWithout DEF SuiteEvents, HistoryEvents, Attempted, Silent
  <2>7. /\ Visits' = Visits /\ (NodeIsOpen' <=> NodeIsOpen) /\ (Generated' <=> Generated)
        /\ Last({"NODE_COMPLETED"})' = Last({"NODE_COMPLETED"})
    BY <1>1, <2>6, NodeStays, PlanStays, WithoutPositions
  <2>8. HistoryInv' /\ StartsInv'
    BY <1>1, <2>6, HistoryStays, StartsStay DEF ServiceInv, JournalInv
  <2>9. /\ Generated /\ (Suites # {} => ~ journal[LastSuite].passed)
        /\ Visits < MaxIterations
    <3>1. RequestOf(c)
      BY DEF ServiceInv, CallerInv
    <3>2. Visits \in Nat /\ MaxIterations \in Nat
      BY <1>1, NumberFacts, LimitFacts
    <3>3. Visits + 1 <= MaxIterations
      BY <1>1, <3>1 DEF RequestOf
    <3> QED
      BY <1>1, <3>2, <3>3 DEF ServiceInv, StateInv
  <2>10. SchedulesInv' /\ Cardinality(Schedules)' = Cardinality(Schedules) + 1
    <3>1. RequestOf(c)
      BY DEF ServiceInv, CallerInv
    <3>2. seen[c].deadline \in Nat
      BY SeenFacts DEF ServiceInv, Carriage
    <3> QED
      BY <1>1, <2>2, <2>9, <3>1, <3>2, ScheduleAdded DEF RequestOf
  <2>11. SuitesInv' /\ (Suites # {} => ~ journal[LastSuite].passed)' /\ Suites' = Suites
    <3>1. LastSuite \in Suites \/ LastSuite = 0
      BY <1>1, NumberFacts
    <3>2. Suites \subseteq Positions(SuiteEvents) /\ (Suites # {} => LastSuite # 0)
          /\ Positions({"VERIFICATION_SUITE_RECORDED", "VERIFICATION_GATE_RECORDED"})
               \subseteq Positions(SuiteEvents)
      BY <1>1, NumberFacts DEF Suites, SuiteEvents, Positions, Of
    <3>3. /\ Positions(SuiteEvents)' = Positions(SuiteEvents)
          /\ Suites' = Suites /\ LastSuite' = LastSuite /\ SuiteNumber' = SuiteNumber
          /\ Positions({"VERIFICATION_SUITE_RECORDED", "VERIFICATION_GATE_RECORDED"})' =
               Positions({"VERIFICATION_SUITE_RECORDED", "VERIFICATION_GATE_RECORDED"})
          /\ \A i \in Positions(SuiteEvents) : journal'[i] = journal[i]
      BY <1>1, <2>6, SuitesStay
    <3> QED
      BY <2>9, <3>1, <3>2, <3>3 DEF ServiceInv, JournalInv, SuitesInv
  <2>12. JournalInv'
    BY <2>3, <2>8, <2>10, <2>11 DEF JournalInv, Continued
  <2>13. StateInv'
    BY <1>1, <1>3, <2>7, <2>9, <2>11 DEF StateInv, Early, Gathering
  <2>14. MadeOnce'
    BY <1>1, <2>3, EffectsStay DEF ServiceInv, outside
  <2>15. Further
    BY <2>7, <2>10, <2>11 DEF Further
  <2>16. RepairPending'
    <3>1. Last({"VERIFICATION_REPAIR_SCHEDULED"})' = Len(journal) + 1
      BY <1>1, <2>2, AddsPositions DEF Silent
    <3>2. /\ Last({"NODE_COMPLETED"}) \in Nat /\ Len(journal) \in Nat
          /\ Last({"NODE_COMPLETED"}) <= Len(journal)
      BY <1>1, PositionFacts
    <3> QED
      BY <2>7, <3>1, <3>2 DEF RepairPending
  <2>17. PlaceOf(c)' /\ RequestOf(c)' /\ ProgressOf(c)' /\ VerdictIsEarned'
    BY <1>1, <1>3, <2>4, <2>7, <2>16
       DEF PlaceOf, RequestOf, ProgressOf, InSuite, VerdictIsEarned
  <2>18. DueOf(c)'
    <3>1. Unrecorded(c)' = {}
      BY <2>4 DEF Unrecorded
    <3> QED
      BY <3>1 DEF DueOf
  <2>19. Uninterrupted'
    <3>1. \A d \in Callers : at[d] \in InSuite => at'[d] \in InSuite
      BY <1>1, <2>4
    <3> QED
      BY <1>1, <1>3, <2>6, <3>1, StaysUninterrupted DEF ServiceInv, bounds
  <2> QED
    BY <1>1, <2>4, <2>5, <2>12, <2>13, <2>14, <2>15, <2>17, <2>18, <2>19, HolderStep
<1> QED
  BY <1>2, <1>3 DEF RecordSchedule

-----------------------------------------------------------------------------
(* A death.                                                                *)

\* What was started is a node or a gate, and a number.
LEMMA StartedIsTyped ==
  ASSUME ServiceInv, NEW e, IsStarted(e)
  PROVE  e \in Nodes \X Nat
<1>1. PICK s \in Positions(Attempted) : <<journal[s].node, journal[s].attempt>> = e
  BY DEF IsStarted
<1>2. IsJournal(journal) /\ StartIsTyped(journal[s])
  BY DEF ServiceInv, JournalInv, StartsInv
<1>3. journal[s].type \in Attempted
  BY <1>2, PositionFacts
<1>4. journal[s].type = "VERIFICATION_GATE_STARTED" => journal[s].attempt \in Nat
  <2>1. journal[s].type = "VERIFICATION_GATE_STARTED" => s \in Positions(SuiteEvents)
    BY DEF Positions, Of, SuiteEvents
  <2> QED
    BY <2>1 DEF ServiceInv, JournalInv, SuitesInv
<1>5. journal[s].node \in Nodes /\ journal[s].attempt \in Nat
  BY <1>2, <1>3, <1>4, ServiceIsConfigured DEF StartIsTyped, Attempted
<1> QED
  BY <1>1, <1>5

\* A death leaves its start behind, with the effect or without it, and the state as it was.
LEMMA CrashKeeps ==
  ASSUME ServiceInv, NEW c \in Callers, Crash(c)
  PROVE  ServiceInv'
<1>1. /\ faults' = faults + 1 /\ Return(c) /\ tree' \in {tree, "edited"}
      /\ effects' \in {effects} \cup {Append(effects, e) : e \in Unrecorded(c)}
      /\ UNCHANGED <<stored, promotes, head, stale, clock, moves>> /\ IsJournal(journal)
  BY DEF Crash, ServiceInv, JournalInv
<1>2. Keeps /\ Continued
  BY <1>1, NothingKeeps DEF stored, Keeps
<1>3. MadeOnce' /\ effects' \in Seq(Nodes \X Nat)
  <2>1. CASE effects' = effects
    BY <1>1, <1>2, <2>1, EffectsStay DEF ServiceInv, TypeInv
  <2>2. ASSUME NEW e \in Unrecorded(c), effects' = Append(effects, e)
        PROVE  MadeOnce' /\ effects' \in Seq(Nodes \X Nat)
    <3>1. IsNew(e) /\ IsStarted(e)
      BY DEF ServiceInv, CallerInv, DueOf
    <3>2. e \in Nodes \X Nat
      BY <3>1, StartedIsTyped
    <3> QED
      BY <1>1, <1>2, <2>2, <3>1, <3>2, EffectMade DEF ServiceInv, TypeInv
  <2> QED
    BY <1>1, <2>1, <2>2
<1>4. /\ at'[c] = "idle" /\ at' \in [Callers -> Places]
      /\ DOMAIN seen' = Callers /\ \A d \in Callers : seen'[d] \in Carriage
      /\ \A d \in Callers : d # c => at'[d] = at[d] /\ seen'[d] = seen[d]
  BY <1>1, ReturnFacts DEF ServiceInv
<1>5. faults \in Nat
  BY DEF ServiceInv, TypeInv, TypeOK
<1>6. TypeInv'
  BY <1>1, <1>3, <1>4, <1>5 DEF ServiceInv, TypeInv, TypeOK, Carriage, stored
<1>7. JournalInv' /\ StateInv' /\ VerdictIsEarned' /\ Further
  BY <1>1, <1>2, KeepsJournal, KeepsFurther, StateStays, StaysEarned DEF ServiceInv, stored
<1>8. Uninterrupted'
  BY <1>1, <1>5 DEF Uninterrupted
<1>9. PlaceOf(c)' /\ RequestOf(c)' /\ ProgressOf(c)' /\ DueOf(c)'
  <2>1. Unrecorded(c)' = {}
    BY <1>4 DEF Unrecorded
  <2> QED
    BY <1>4, <2>1 DEF PlaceOf, RequestOf, ProgressOf, InSuite, DueOf
<1>10. CASE at[c] \in Sections
  BY <1>3, <1>4, <1>6, <1>7, <1>8, <1>9, <1>10, HolderStep
<1>11. CASE at[c] \notin Sections
  <2>1. effects' = effects
    <3>1. Unrecorded(c) = {}
      BY <1>11, PlacesAre DEF Unrecorded
    <3> QED
      BY <1>1, <3>1
  <2>2. \A d \in Callers : d # c => PlaceOf(d)' /\ DueOf(d)' /\ RequestOf(d)' /\ ProgressOf(d)'
    BY <1>1, <1>2, <1>4, <2>1, StaysPut DEF stored
  <2>3. CallerInv'
    BY <1>9, <2>2 DEF CallerInv
  <2>4. LockInv'
    <3>1. \A d \in Callers : at'[d] \in Sections => at[d] \in Sections
      BY <1>4 DEF Sections
    <3> QED
      BY <3>1 DEF ServiceInv, LockInv
  <2> QED
    BY <1>3, <1>6, <1>7, <1>8, <2>3, <2>4 DEF ServiceInv
<1> QED
  BY <1>10, <1>11

-----------------------------------------------------------------------------
(* A suite.                                                                *)

\* Nothing belongs to the suite that comes next, where the journal ends with a suite.
LEMMA SuiteBegins ==
  ASSUME ServiceInv, SuitesReplay
  PROVE  /\ SuitesAreWhole /\ Last(SuiteEvents) = LastSuite
         /\ Results(SuiteNumber) = {} /\ GatesOf(SuiteNumber) = {}
         /\ \A s \in Positions({"VERIFICATION_GATE_STARTED"}) : journal[s].attempt # SuiteNumber
<1>1. SuitesAreWhole /\ Last(SuiteEvents) = LastSuite
  BY DEF SuitesAreWhole, SuitesReplay
<1>2. IsJournal(journal) /\ Cardinality(Suites) \in Nat /\ SuitesInv
  BY NumberFacts DEF ServiceInv, JournalInv
<1>3. \A i \in Positions(SuiteEvents) : journal[i].attempt # SuiteNumber
  <2> TAKE i \in Positions(SuiteEvents)
  <2>1. i <= LastSuite
    BY <1>1, <1>2, PositionFacts
  <2>2. journal[i].attempt \in Nat /\ journal[i].attempt <= Cardinality(Suites)
    BY <1>2, <2>1 DEF SuitesInv
  <2> QED
    BY <1>2, <2>2 DEF SuiteNumber
<1>4. /\ Positions({"VERIFICATION_GATE_STARTED"}) \subseteq Positions(SuiteEvents)
      /\ Positions({"VERIFICATION_GATE_RECORDED"}) \subseteq Positions(SuiteEvents)
  BY DEF Positions, Of, SuiteEvents
<1>5. Results(SuiteNumber) = {}
  BY <1>3, <1>4 DEF Results
<1>6. GatesOf(SuiteNumber) = {}
  BY <1>5 DEF GatesOf
<1> QED
  BY <1>1, <1>3, <1>4, <1>5, <1>6

\* A suite is begun with all gates, or with those that have failed.
LEMMA BeginSuiteKeeps ==
  ASSUME ServiceInv, NEW c \in Callers, at[c] \in Sections \/ Free, at[c] \notin InSuite,
         state = "VERIFYING", SuitesReplay,
         NEW gates \in SUBSET Gates, gates # {}, Suites = {} => gates = Gates,
         Go(c, "gates"), Carry(c, [seen[c] EXCEPT !.gates = gates]),
         UNCHANGED <<state, journal, cursor, candidate, outside, bounds>>
  PROVE  ServiceInv'
<1> DEFINE s == [seen[c] EXCEPT !.gates = gates]
<1>1. IsJournal(journal) /\ Keeps
  BY NothingKeeps DEF ServiceInv, JournalInv
<1>2. s \in Carriage /\ s.gates = gates
  <2>1. seen[c] \in Carriage
    BY SeenFacts DEF ServiceInv
  <2> QED
    BY <2>1 DEF Carriage
<1>3. seen' = [seen EXCEPT ![c] = s]
  BY DEF Carry
<1> HIDE DEF s
<1>4. /\ at'[c] = "gates" /\ at' \in [Callers -> Places] /\ seen'[c] = s
      /\ DOMAIN seen' = Callers /\ \A d \in Callers : seen'[d] \in Carriage
      /\ \A d \in Callers : d # c => at'[d] = at[d] /\ seen'[d] = seen[d]
  <2>1. /\ at'[c] = "gates" /\ at' \in [Callers -> Places]
        /\ \A d \in Callers : d # c => at'[d] = at[d]
    BY GoFacts, PlacesAre DEF ServiceInv
  <2>2. TypeInv
    BY DEF ServiceInv
  <2> QED
    BY <1>2, <1>3, <2>1, <2>2, CarryFacts
<1>5. TypeInv'
  BY <1>4 DEF ServiceInv, TypeInv, TypeOK, Carriage, outside, bounds
<1>6. StateInv' /\ VerdictIsEarned'
  BY <1>1, StateStays DEF ServiceInv, VerdictIsEarned
<1>7. PlaceOf(c)' /\ RequestOf(c)'
  BY <1>4 DEF PlaceOf, RequestOf
<1>8. ProgressOf(c)'
  <2>1. SuitesAreWhole' /\ SuiteNumber' = SuiteNumber /\ Last(SuiteEvents)' = LastSuite'
        /\ Suites' = Suites
    BY <1>1, KeepsSuites, SuitesStay, SuiteBegins
  <2>2. /\ Results(SuiteNumber)' = {} /\ GatesOf(SuiteNumber)' = {}
        /\ \A i \in Positions({"VERIFICATION_GATE_STARTED"})' :
             journal'[i].attempt # SuiteNumber'
    <3>1. /\ Results(SuiteNumber) = {} /\ GatesOf(SuiteNumber) = {}
          /\ \A i \in Positions({"VERIFICATION_GATE_STARTED"}) : journal[i].attempt # SuiteNumber
      BY SuiteBegins
    <3> QED
      BY <2>1, <3>1 DEF Results, GatesOf, Positions
  <2>3. SuiteNumber = 1 => gates = Gates
    BY <1>1, NumberFacts DEF SuiteNumber
  <2>4. ~ (Last(SuiteEvents)' > LastSuite')
    <3>1. LastSuite \in Nat
      BY <1>1, NumberFacts
    <3>2. LastSuite' = LastSuite
      BY <1>1, KeepsControl
    <3> QED
      BY <2>1, <3>1, <3>2
  <2>5. Recorded(c)'
    BY <1>2, <1>4, <2>1, <2>2, <2>3, <2>4 DEF Recorded
  <2> QED
    BY <1>4, <2>1, <2>5 DEF ProgressOf
<1> QED
  BY <1>1, <1>4, <1>5, <1>6, <1>7, <1>8, MoveStep DEF outside, bounds

\* _verify_execution begins a suite of the gates the journal asks for, or gives its verdict.
LEMMA EnterVerifyKeeps ==
  ASSUME ServiceInv, NEW c \in Callers, EnterVerify(c)
  PROVE  ServiceInv'
<1> DEFINE gates == GatesToRun(seen[c].commit)
<1>1. /\ at[c] = "verify" /\ Free /\ at[c] \notin InSuite
      /\ UNCHANGED <<journal, cursor, candidate, outside, bounds>>
      /\ \/ Return(c) /\ UNCHANGED state
         \/ SuitesReplay /\ MayComplete(seen[c].commit) /\ Finish(c, "COMPLETED")
         \/ /\ state = "VERIFYING" /\ SuitesReplay /\ gates # {}
            /\ \/ /\ Go(c, "gates") /\ Carry(c, [seen[c] EXCEPT !.gates = gates])
                  /\ UNCHANGED state
               \/ Finish(c, "BLOCKED_PREREQUISITE")
  BY DEF EnterVerify, Enters, InSuite
<1>2. CASE Return(c) /\ UNCHANGED state
  BY <1>1, <1>2, ReturnKeeps DEF stored
<1>3. CASE SuitesReplay /\ MayComplete(seen[c].commit) /\ Finish(c, "COMPLETED")
  <2>1. MoveTo("COMPLETED") /\ Suites # {} /\ Verdict(LastSuite) /\ ~ promotes
    BY <1>3 DEF MayComplete, Finish
  <2>2. /\ at'[c] = "idle" /\ at' \in [Callers -> Places]
        /\ DOMAIN seen' = Callers /\ \A d \in Callers : seen'[d] \in Carriage
        /\ \A d \in Callers : d # c => at'[d] = at[d] /\ seen'[d] = seen[d]
    BY <1>3, ReturnFacts DEF ServiceInv, Finish
  <2> QED
    BY <1>1, <1>3, <2>1, <2>2, CompleteStep
<1>4. CASE Finish(c, "BLOCKED_PREREQUISITE")
  BY <1>1, <1>4, BlockedKeeps
<1>5. CASE /\ state = "VERIFYING" /\ SuitesReplay /\ gates # {}
           /\ Go(c, "gates") /\ Carry(c, [seen[c] EXCEPT !.gates = gates])
           /\ UNCHANGED state
  <2>1. Suites = {} => gates = Gates
    BY DEF GatesToRun
  <2>2. gates \in SUBSET Gates
    <3>1. FailedGates(LastSuite) \subseteq Gates
      BY ServiceIsConfigured DEF FailedGates
    <3>2. gates \in {Gates, FailedGates(LastSuite), {}}
      BY DEF GatesToRun
    <3> QED
      BY <3>1, <3>2
  <2> HIDE DEF gates
  <2> QED
    BY <1>1, <1>5, <2>1, <2>2, BeginSuiteKeeps
<1> QED
  BY <1>1, <1>2, <1>3, <1>4, <1>5

\* A suite that passed completes when it was full, and is followed by the full one else.
LEMMA CertifyKeeps ==
  ASSUME ServiceInv, NEW c \in Callers, Certify(c)
  PROVE  ServiceInv'
<1>1. /\ at[c] = "verdict" /\ at[c] \in Sections /\ at[c] \notin InSuite
      /\ UNCHANGED <<journal, cursor, candidate, outside, bounds>>
      /\ \/ Verdict(LastSuite) /\ ~ promotes /\ Finish(c, "COMPLETED")
         \/ /\ Go(c, "gates") /\ Carry(c, [seen[c] EXCEPT !.gates = Gates])
            /\ UNCHANGED state
         \/ Finish(c, "BLOCKED_PREREQUISITE")
         \/ Return(c) /\ UNCHANGED state
  BY PlacesAre DEF Certify, InSuite
<1>2. state = "VERIFYING" /\ Suites # {} /\ SuitesReplay
  BY <1>1 DEF ServiceInv, CallerInv, PlaceOf, ProgressOf
<1>3. CASE Verdict(LastSuite) /\ ~ promotes /\ Finish(c, "COMPLETED")
  <2>1. MoveTo("COMPLETED")
    BY <1>3 DEF Finish
  <2>2. /\ at'[c] = "idle" /\ at' \in [Callers -> Places]
        /\ DOMAIN seen' = Callers /\ \A d \in Callers : seen'[d] \in Carriage
        /\ \A d \in Callers : d # c => at'[d] = at[d] /\ seen'[d] = seen[d]
    BY <1>3, ReturnFacts DEF ServiceInv, Finish
  <2> QED
    BY <1>1, <1>2, <1>3, <2>1, <2>2, CompleteStep
<1>4. CASE Finish(c, "BLOCKED_PREREQUISITE")
  BY <1>1, <1>4, BlockedKeeps
<1>5. CASE Return(c) /\ UNCHANGED state
  BY <1>1, <1>5, ReturnKeeps DEF stored
<1>6. CASE /\ Go(c, "gates") /\ Carry(c, [seen[c] EXCEPT !.gates = Gates])
           /\ UNCHANGED state
  <2>1. Gates # {}
    BY ServiceIsConfigured
  <2> QED
    BY <1>1, <1>2, <1>6, <2>1, BeginSuiteKeeps
<1> QED
  BY <1>1, <1>3, <1>4, <1>5, <1>6

\* The next gate is one of those that are left, and before all others of them.
LEMMA NextGateFacts ==
  ASSUME NEW c \in Callers, seen[c].gates \in SUBSET Gates, seen[c].gates # {}
  PROVE  /\ NextGate(c) \in seen[c].gates
         /\ \A h \in seen[c].gates : h # NextGate(c) => Precedes(NextGate(c), h)
<1> DEFINE S == {i \in DOMAIN Policy : Policy[i] \in seen[c].gates}
<1>1. S \in SUBSET Nat
  BY ServiceIsConfigured
<1>2. S # {}
  BY DEF Gates
<1>3. Min(S) \in S /\ \A k \in S : Min(S) <= k
  <2> HIDE DEF S
  <2> QED
    BY <1>1, <1>2, MinIsFirst
<1>4. NextGate(c) = Policy[Min(S)]
  BY DEF NextGate
<1>5. ASSUME NEW h \in seen[c].gates, h # NextGate(c)
      PROVE  Precedes(NextGate(c), h)
  <2>1. PICK k \in S : Policy[k] = h
    BY DEF Gates
  <2>2. Min(S) < k
    <3>1. Min(S) # k /\ Min(S) <= k /\ Min(S) \in Nat /\ k \in Nat
      BY <1>1, <1>3, <1>4, <1>5, <2>1
    <3> HIDE DEF S
    <3> QED
      BY <3>1
  <2>3. Min(S) \in DOMAIN Policy /\ k \in DOMAIN Policy
    BY <1>3
  <2> HIDE DEF S
  <2> QED
    BY <1>4, <2>1, <2>2, <2>3 DEF Precedes
<1> QED
  BY <1>3, <1>4, <1>5

\* One event of a suite more: the ones before it stand as they did.
LEMMA SuiteEventAdded ==
  ASSUME IsJournal(journal), NEW e, Adds(e), e.type \in SuiteEvents,
         NEW n \in Nat, n = Len(journal) + 1
  PROVE  /\ journal'[n] = e /\ Len(journal) \in Nat
         /\ Positions(SuiteEvents)' = Positions(SuiteEvents) \cup {n}
         /\ Last(SuiteEvents)' = n
         /\ \A i \in Positions(SuiteEvents) : i \in Nat /\ i < n /\ journal'[i] = journal[i]
         /\ \A i \in Positions(SuiteEvents) : Continues(i)' <=> Continues(i)
         /\ Preceding(n)' = Last(SuiteEvents)
         /\ Last(SuiteEvents) = 0 \/ Last(SuiteEvents) \in Positions(SuiteEvents)
<1>1. /\ Positions(SuiteEvents)' = Positions(SuiteEvents) \cup {n}
      /\ Last(SuiteEvents)' = n
  <2>1. SuiteEvents \cap Silent = {}
    BY DEF SuiteEvents, Silent
  <2> QED
    BY <2>1, AddsPositions
<1>2. journal'[n] = e /\ Len(journal) \in Nat
  BY PositionFacts DEF Adds
<1>3. \A i \in Positions(SuiteEvents) : i \in Nat /\ i < n /\ journal'[i] = journal[i]
  <2>1. \A i \in Positions(SuiteEvents) : i \in Nat /\ i >= 1 /\ i <= Len(journal)
    BY PositionFacts
  <2>2. \A i \in 1 .. Len(journal) : journal'[i] = journal[i]
    BY PositionFacts DEF Adds, Continued
  <2> QED
    BY <1>2, <2>1, <2>2
<1>4. \A i \in Positions(SuiteEvents) : Preceding(i)' = Preceding(i)
  <2> TAKE i \in Positions(SuiteEvents)
  <2>1. {k \in Positions(SuiteEvents)' : k < i} = {k \in Positions(SuiteEvents) : k < i}
    BY <1>1, <1>3
  <2> QED
    BY <2>1 DEF Preceding
<1>5. \A i \in Positions(SuiteEvents) : Preceding(i) = 0 \/ Preceding(i) \in Positions(SuiteEvents)
  <2> TAKE i \in Positions(SuiteEvents)
  <2> DEFINE P == {k \in Positions(SuiteEvents) : k < i} \cup {0}
  <2>1. P \in SUBSET (0 .. Len(journal)) /\ P # {} /\ Len(journal) \in Nat
    BY PositionFacts
  <2>2. Max(P) \in P
    <3> HIDE DEF P
    <3> QED
      BY <2>1, MaxIsLast
  <2> QED
    BY <2>2 DEF Preceding
<1>6. \A i \in Positions(SuiteEvents) : Continues(i)' <=> Continues(i)
  <2> TAKE i \in Positions(SuiteEvents)
  <2> DEFINE p == Preceding(i)
  <2>1. p' = p /\ journal'[i] = journal[i] /\ (p # 0 => journal'[p] = journal[p])
    BY <1>3, <1>4, <1>5
  <2> HIDE DEF p
  <2> QED
    BY <2>1 DEF Continues, p
<1>7. Preceding(n)' = Last(SuiteEvents)
  <2>1. {k \in Positions(SuiteEvents)' : k < n} = Positions(SuiteEvents)
    BY <1>1, <1>3
  <2> QED
    BY <2>1 DEF Preceding, Last
<1>8. Last(SuiteEvents) = 0 \/ Last(SuiteEvents) \in Positions(SuiteEvents)
  BY PositionFacts
<1> QED
  BY <1>1, <1>2, <1>3, <1>6, <1>7, <1>8

\* It belongs to the suite that is going on, and leaves the others as they are.
LEMMA ResultsAdded ==
  ASSUME IsJournal(journal), SuitesInv, NEW e, Adds(e), e.type \in SuiteEvents,
         NEW n \in Nat, n = Len(journal) + 1, NEW m \in Nat, m = SuiteNumber, e.attempt = m
  PROVE  /\ \A k : k # m => Results(k)' = Results(k)
         /\ Results(m)' = IF e.type = "VERIFICATION_GATE_RECORDED" THEN Results(m) \cup {n}
                          ELSE Results(m)
         /\ GatesOf(m)' = IF e.type = "VERIFICATION_GATE_RECORDED"
                          THEN GatesOf(m) \cup {e.node} ELSE GatesOf(m)
         /\ \A k : \A r \in Results(k) : journal'[r] = journal[r]
         /\ \A i \in Suites : IsWhole(i)' <=> IsWhole(i)
<1> DEFINE B == {"VERIFICATION_GATE_RECORDED"}
<1>1. Positions(B)' = IF e.type \in B THEN Positions(B) \cup {n} ELSE Positions(B)
  <2>1. B \cap Silent = {}
    BY DEF Silent
  <2> HIDE DEF B
  <2> QED
    BY <2>1, AddsPositions
<1>2. /\ journal'[n] = e
      /\ \A i \in Positions(SuiteEvents) : journal'[i] = journal[i]
  BY SuiteEventAdded
<1>3. Positions(B) \subseteq Positions(SuiteEvents) /\ Suites \subseteq Positions(SuiteEvents)
  BY DEF Positions, Of, SuiteEvents, Suites
<1>4. \A k : \A r \in Results(k) : r \in Positions(SuiteEvents) /\ journal'[r] = journal[r]
  BY <1>2, <1>3 DEF Results
<1>5. \A k : k # m => Results(k)' = Results(k)
  BY <1>1, <1>2, <1>3 DEF Results
<1>6. Results(m)' = IF e.type = "VERIFICATION_GATE_RECORDED" THEN Results(m) \cup {n}
                    ELSE Results(m)
  BY <1>1, <1>2, <1>3 DEF Results
<1>7. GatesOf(m)' = IF e.type = "VERIFICATION_GATE_RECORDED"
                    THEN GatesOf(m) \cup {e.node} ELSE GatesOf(m)
  <2>1. CASE e.type = "VERIFICATION_GATE_RECORDED"
    BY <1>2, <1>4, <1>6, <2>1 DEF GatesOf
  <2>2. CASE e.type # "VERIFICATION_GATE_RECORDED"
    BY <1>4, <1>6, <2>2 DEF GatesOf
  <2> QED
    BY <2>1, <2>2
<1>8. \A i \in Suites : IsWhole(i)' <=> IsWhole(i)
  <2> TAKE i \in Suites
  <2> DEFINE k == journal[i].attempt
  <2>1. journal'[i] = journal[i] /\ k # m
    <3>1. i <= LastSuite /\ Cardinality(Suites) \in Nat
      BY NumberFacts
    <3>2. k \in Nat /\ k <= Cardinality(Suites)
      BY <1>3, <3>1 DEF SuitesInv
    <3> QED
      BY <1>2, <1>3, <3>1, <3>2 DEF SuiteNumber
  <2>2. Results(k)' = Results(k) /\ \A q \in Results(k) : journal'[q] = journal[q]
    BY <1>4, <1>5, <2>1
  <2>3. GatesOf(k)' = GatesOf(k)
    BY <2>1, <2>2 DEF GatesOf
  <2>4. AllPassed(k)' <=> AllPassed(k)
    <3>1. {r \in Results(k) : journal[r].node \in Blocking}' =
            {r \in Results(k) : journal[r].node \in Blocking}
      BY <2>1, <2>2
    <3> QED
      BY <2>1, <2>2, <3>1 DEF AllPassed
  <2> QED
    BY <2>1, <2>2, <2>3, <2>4 DEF IsWhole
<1> QED
  BY <1>4, <1>5, <1>6, <1>7, <1>8

\* A gate's event leaves the suites, their number, the schedules and the rest alone.
LEMMA GateEventAdded ==
  ASSUME ServiceInv, NEW e, Adds(e),
         e.type \in {"VERIFICATION_GATE_STARTED", "VERIFICATION_GATE_RECORDED"},
         e.attempt = SuiteNumber,
         e.type = "VERIFICATION_GATE_STARTED" => e.node \in Gates,
         e.type = "VERIFICATION_GATE_RECORDED" => e.passed \in BOOLEAN
  PROVE  /\ JournalInv' /\ Further /\ Continued /\ SuiteNumber' = SuiteNumber
         /\ Suites' = Suites /\ LastSuite' = LastSuite
         /\ (Generated' <=> Generated) /\ (NodeIsOpen' <=> NodeIsOpen)
<1>1. IsJournal(journal) /\ Continued /\ IsJournal(journal') /\ SuitesInv /\ StartsInv
  BY DEF ServiceInv, JournalInv, Adds, Continued
<1>2. PICK n \in Nat : n = Len(journal) + 1
  BY <1>1, NumberFacts
<1>3. /\ Without(HistoryEvents) /\ Without(RepairEvents)
      /\ Without({"NODE_STARTED", "NODE_COMPLETED", "NODE_FAILED"})
      /\ Without({"PLAN_GENERATION_STARTED", "PLAN_GENERATED"})
      /\ Without({"VERIFICATION_REPAIR_SCHEDULED", "NODE_STARTED"})
      /\ Without({"NODE_STARTED"})
  BY <1>1, AddsWithout DEF HistoryEvents, RepairEvents, Silent
<1>4. /\ Visits' = Visits /\ (NodeIsOpen' <=> NodeIsOpen) /\ (Generated' <=> Generated)
      /\ Last({"VERIFICATION_REPAIR_SCHEDULED", "NODE_STARTED"})' =
           Last({"VERIFICATION_REPAIR_SCHEDULED", "NODE_STARTED"})
  BY <1>1, <1>3, NodeStays, PlanStays, WithoutPositions
<1>5. /\ HistoryInv' /\ SchedulesInv' /\ Suites' = Suites /\ Schedules' = Schedules
      /\ LastSuite' = LastSuite /\ (RepairedSince' <=> RepairedSince)
      /\ \A k \in Schedules \cup Suites : journal'[k] = journal[k]
  BY <1>1, <1>3, HistoryStays, SchedulesStay DEF ServiceInv, JournalInv
<1>6. SuiteNumber' = SuiteNumber
  BY <1>5 DEF SuiteNumber
<1>7. /\ journal'[n] = e /\ Positions(SuiteEvents)' = Positions(SuiteEvents) \cup {n}
      /\ \A i \in Positions(SuiteEvents) : i \in Nat /\ i < n /\ journal'[i] = journal[i]
  <2>1. e.type \in SuiteEvents
    BY DEF SuiteEvents
  <2> QED
    BY <1>1, <1>2, <2>1, SuiteEventAdded
<1>8. StartsInv'
  <2>1. Positions(Attempted)' \subseteq Positions(Attempted) \cup {n}
    <3>1. Attempted \cap Silent = {}
      BY DEF Attempted, Silent
    <3> QED
      BY <1>1, <1>2, <3>1, AddsPositions
  <2>2. \A s \in Positions(Attempted) : journal'[s] = journal[s]
    BY <1>1, PositionFacts DEF Continued
  <2>3. \A s \in Positions(Attempted) : StartIsTyped(journal[s])'
    BY <1>1, <1>4, <2>2 DEF StartsInv, StartIsTyped
  <2>4. StartIsTyped(journal[n])'
    BY <1>7 DEF StartIsTyped
  <2> QED
    BY <2>1, <2>3, <2>4 DEF StartsInv
<1>9. SuitesInv'
  <2> DEFINE D == {"VERIFICATION_SUITE_RECORDED", "VERIFICATION_GATE_RECORDED"}
  <2>1. /\ Cardinality(Suites) \in Nat /\ LastSuite \in Nat /\ LastSuite < n
        /\ Suites \subseteq Positions(SuiteEvents)
        /\ LastSuite # 0 => LastSuite \in Suites
        /\ Suites # {} <=> LastSuite # 0
    <3>1. Suites \subseteq Positions(SuiteEvents)
      BY DEF Suites, Positions, Of, SuiteEvents
    <3> QED
      BY <1>1, <1>2, <3>1, NumberFacts
  <2>2. \A i \in Positions(SuiteEvents)' :
          /\ journal'[i].attempt \in Nat
          /\ i <= LastSuite' => journal'[i].attempt <= Cardinality(Suites')
          /\ i > LastSuite' => journal'[i].attempt = SuiteNumber'
    BY <1>1, <1>2, <1>5, <1>6, <1>7, <2>1 DEF SuitesInv, SuiteNumber
  <2>3. Positions(D)' \subseteq Positions(D) \cup {n}
        /\ (e.type = "VERIFICATION_GATE_STARTED" => Positions(D)' = Positions(D))
    <3>1. D \cap Silent = {}
      BY DEF Silent
    <3>2. Positions(D)' = IF e.type \in D THEN Positions(D) \cup {n} ELSE Positions(D)
      <4> HIDE DEF D
      <4> QED
        BY <1>1, <1>2, <3>1, AddsPositions
    <3> QED
      BY <3>2
  <2>4. Positions(D) \subseteq Positions(SuiteEvents)
    BY DEF Positions, Of, SuiteEvents
  <2>5. \A i \in Positions(D)' : journal'[i].passed \in BOOLEAN
    <3>1. \A i \in Positions(D) : journal'[i].passed \in BOOLEAN
      BY <1>1, <1>7, <2>4 DEF SuitesInv
    <3> QED
      BY <1>7, <2>3, <3>1
  <2>6. /\ \A i, k \in Suites' : i < k => journal'[i].attempt < journal'[k].attempt
        /\ Suites' # {} => journal'[LastSuite'].attempt = Cardinality(Suites')
        /\ Suites' # {} /\ journal'[LastSuite'].passed =>
             Last({"VERIFICATION_REPAIR_SCHEDULED", "NODE_STARTED"})' < LastSuite'
    BY <1>1, <1>4, <1>5, <2>1 DEF SuitesInv
  <2> QED
    BY <2>2, <2>5, <2>6 DEF SuitesInv
<1>10. JournalInv'
  BY <1>1, <1>5, <1>8, <1>9 DEF JournalInv
<1>11. Further
  BY <1>4, <1>5 DEF Further
<1> QED
  BY <1>1, <1>4, <1>5, <1>6, <1>10, <1>11

\* What the caller in a suite knows of it.
LEMMA InSuiteFacts ==
  ASSUME ServiceInv, NEW c \in Callers, at[c] \in InSuite
  PROVE  /\ at[c] \in Sections /\ state = "VERIFYING" /\ IsJournal(journal)
         /\ SuitesAreWhole /\ Recorded(c) /\ seen[c].gates \in SUBSET Gates
         /\ SuiteNumber \in Nat /\ SuiteNumber = Cardinality(Suites) + 1
         /\ SuitesInv /\ StateInv /\ ~ NodeIsOpen /\ Generated
         /\ Last(SuiteEvents) \in Nat /\ LastSuite \in Nat
         /\ LastSuite <= Last(SuiteEvents) /\ (LastSuite # 0 => LastSuite \in Suites)
         /\ \A r \in Results(SuiteNumber) : r \in Positions(SuiteEvents) /\ r > LastSuite
<1>1. /\ at[c] \in Sections /\ state = "VERIFYING" /\ IsJournal(journal)
      /\ SuitesAreWhole /\ Recorded(c) /\ SuitesInv /\ StateInv
  BY PlacesAre DEF InSuite, ServiceInv, CallerInv, PlaceOf, ProgressOf, JournalInv
<1>2. ~ NodeIsOpen /\ Generated
  BY <1>1 DEF StateInv
<1>3. seen[c].gates \in SUBSET Gates
  BY SeenFacts DEF ServiceInv, Carriage
<1>4. /\ SuiteNumber \in Nat /\ SuiteNumber = Cardinality(Suites) + 1
      /\ Last(SuiteEvents) \in Nat /\ LastSuite \in Nat
      /\ (LastSuite # 0 => LastSuite \in Suites)
  BY <1>1, NumberFacts, PositionFacts DEF SuiteNumber
<1>5. LastSuite <= Last(SuiteEvents)
  <2>1. Suites \subseteq Positions(SuiteEvents)
    BY DEF Suites, Positions, Of, SuiteEvents
  <2> QED
    BY <1>1, <1>4, <2>1, PositionFacts
<1>6. \A r \in Results(SuiteNumber) : r \in Positions(SuiteEvents) /\ r > LastSuite
  <2> TAKE r \in Results(SuiteNumber)
  <2>1. r \in Positions(SuiteEvents) /\ journal[r].attempt = SuiteNumber
    BY DEF Results, Positions, Of, SuiteEvents
  <2>2. r \in Nat /\ (r <= LastSuite => journal[r].attempt <= Cardinality(Suites))
    BY <1>1, <2>1, PositionFacts DEF SuitesInv
  <2>3. Cardinality(Suites) \in Nat
    BY <1>1, NumberFacts
  <2> QED
    BY <1>4, <2>1, <2>2, <2>3
<1> QED
  BY <1>1, <1>2, <1>3, <1>4, <1>5, <1>6

\* A gate is started that this suite has no result of, the first one left in the order of
\* the policy.
LEMMA StartGateKeeps ==
  ASSUME ServiceInv, NEW c \in Callers, StartGate(c)
  PROVE  ServiceInv'
<1>1. /\ at[c] = "gates" /\ at[c] \in Sections /\ seen[c].gates # {}
      /\ UNCHANGED <<cursor, candidate, outside, bounds>>
      /\ \/ Finish(c, "BLOCKED_PREREQUISITE") /\ UNCHANGED journal
         \/ Deny(c, NextGate(c), SuiteNumber, "attempt")
         \/ Write(GateStart(c)) /\ Go(c, "run") /\ UNCHANGED <<state, seen>>
  BY PlacesAre DEF StartGate
<1>2. CASE Finish(c, "BLOCKED_PREREQUISITE") /\ UNCHANGED journal
  BY <1>1, <1>2, BlockedKeeps
<1>3. CASE Deny(c, NextGate(c), SuiteNumber, "attempt")
  <2>1. PICK g, m : g = NextGate(c) /\ m = SuiteNumber
    OBVIOUS
  <2>2. Deny(c, g, m, "attempt")
    BY <1>3, <2>1
  <2> QED
    BY <1>1, <2>2, DenyStep DEF outside, bounds
<1>4. CASE Write(GateStart(c)) /\ Go(c, "run") /\ UNCHANGED <<state, seen>>
  <2>1. at[c] \in InSuite
    BY <1>1 DEF InSuite
  <2>2. /\ state = "VERIFYING" /\ IsJournal(journal)
        /\ SuitesAreWhole /\ Recorded(c) /\ seen[c].gates \in SUBSET Gates
        /\ SuiteNumber \in Nat /\ SuiteNumber = Cardinality(Suites) + 1
        /\ SuitesInv /\ StateInv /\ ~ NodeIsOpen /\ Generated
        /\ Last(SuiteEvents) \in Nat /\ LastSuite \in Nat
        /\ LastSuite <= Last(SuiteEvents) /\ (LastSuite # 0 => LastSuite \in Suites)
    BY <2>1, InSuiteFacts
  <2>3. PICK g \in Gates : g = NextGate(c) /\ g \in seen[c].gates
    BY <1>1, <2>2, NextGateFacts
  <2>4. PICK m \in Nat : m = SuiteNumber
    BY <2>2
  <2>5. PICK n \in Nat : n = Len(journal) + 1
    BY <2>2, NumberFacts
  <2>6. PICK e : e = GateStart(c)
    OBVIOUS
  <2>7. /\ Adds(e) /\ e.type = "VERIFICATION_GATE_STARTED" /\ e.node = g /\ e.attempt = m
        /\ e.commit = seen[c].commit /\ e.type \in SuiteEvents
    BY <1>4, <2>2, <2>3, <2>4, <2>6, WriteAdds DEF GateStart, SuiteEvents
  <2>8. /\ JournalInv' /\ Further /\ Continued /\ SuiteNumber' = SuiteNumber
        /\ Suites' = Suites /\ LastSuite' = LastSuite
        /\ (Generated' <=> Generated) /\ (NodeIsOpen' <=> NodeIsOpen)
    BY <2>3, <2>4, <2>7, GateEventAdded
  <2>9. /\ journal'[n] = e
        /\ Positions(SuiteEvents)' = Positions(SuiteEvents) \cup {n}
        /\ Last(SuiteEvents)' = n
        /\ \A i \in Positions(SuiteEvents) : i \in Nat /\ i < n /\ journal'[i] = journal[i]
        /\ \A i \in Positions(SuiteEvents) : Continues(i)' <=> Continues(i)
        /\ Preceding(n)' = Last(SuiteEvents)
        /\ Last(SuiteEvents) = 0 \/ Last(SuiteEvents) \in Positions(SuiteEvents)
    BY <2>2, <2>5, <2>7, SuiteEventAdded
  <2>10. /\ Results(m)' = Results(m) /\ GatesOf(m)' = GatesOf(m)
         /\ \A r \in Results(m) : journal'[r] = journal[r]
         /\ \A i \in Suites : IsWhole(i)' <=> IsWhole(i)
    BY <2>2, <2>4, <2>5, <2>7, ResultsAdded
  <2>11. /\ Positions({"VERIFICATION_GATE_STARTED"})' =
              Positions({"VERIFICATION_GATE_STARTED"}) \cup {n}
         /\ Positions(Attempted)' = Positions(Attempted) \cup {n}
         /\ Positions({"VERIFICATION_GATE_STARTED"}) \subseteq Positions(SuiteEvents)
    <3>1. Positions({"VERIFICATION_GATE_STARTED"})' =
            Positions({"VERIFICATION_GATE_STARTED"}) \cup {n}
      BY <2>2, <2>5, <2>7, AddsPositions DEF Silent
    <3>2. Positions(Attempted)' = Positions(Attempted) \cup {n}
      BY <2>2, <2>5, <2>7, AddsPositions DEF Attempted, Silent
    <3>3. Positions({"VERIFICATION_GATE_STARTED"}) \subseteq Positions(SuiteEvents)
      BY DEF Positions, Of, SuiteEvents
    <3> QED
      BY <3>1, <3>2, <3>3
  <2>12. /\ at'[c] = "run" /\ at' \in [Callers -> Places] /\ seen' = seen
         /\ \A d \in Callers : d # c => at'[d] = at[d] /\ seen'[d] = seen[d]
    BY <1>4, GoFacts, PlacesAre DEF ServiceInv
  <2>13. TypeInv'
    BY <1>1, <1>4, <2>12, SeenFacts DEF ServiceInv, TypeInv, TypeOK, outside, bounds
  <2>14. StateInv'
    BY <1>1, <1>4, <2>2, <2>8 DEF StateInv, Early, Gathering
  <2>15. MadeOnce' /\ VerdictIsEarned'
    BY <1>1, <1>4, <2>2, <2>8, EffectsStay DEF ServiceInv, outside, VerdictIsEarned
  <2>16. Uninterrupted' /\ PlaceOf(c)' /\ RequestOf(c)'
    BY <1>4, <2>2, <2>12 DEF Uninterrupted, InSuite, PlaceOf, RequestOf
  <2> DEFINE last == Last(SuiteEvents)
  <2>17. \/ last = LastSuite
         \/ last > LastSuite /\ journal[last].type = "VERIFICATION_GATE_RECORDED"
    BY <1>1, <2>2 DEF Recorded
  <2>18. Continues(n)'
    <3>1. CASE last = 0
      <4>1. m = 1
        BY <2>2, <2>4, <3>1, NumberFacts
      <4> QED
        BY <2>7, <2>9, <3>1, <4>1 DEF Continues
    <3>2. CASE last # 0 /\ last = LastSuite
      <4>1. last \in Suites /\ journal[last].attempt = Cardinality(Suites)
        BY <2>2, <3>2 DEF SuitesInv
      <4>2. journal[last].type = "VERIFICATION_SUITE_RECORDED" /\ journal'[last] = journal[last]
        BY <2>2, <2>9, <3>2, <4>1, PositionFacts DEF Suites
      <4> HIDE DEF last
      <4> QED
        BY <2>2, <2>4, <2>7, <2>9, <3>2, <4>1, <4>2 DEF Continues, last
    <3>3. CASE last # 0 /\ last > LastSuite /\ journal[last].type = "VERIFICATION_GATE_RECORDED"
      <4>1. journal[last].attempt = m /\ journal[last].commit = seen[c].commit
        BY <2>2, <2>4, <2>9, <3>3 DEF SuitesInv, Recorded
      <4>2. journal'[last] = journal[last]
        BY <2>9, <3>3
      <4> HIDE DEF last
      <4> QED
        BY <2>7, <2>9, <3>3, <4>1, <4>2 DEF Continues, last
    <3> QED
      BY <2>2, <2>17, <3>1, <3>2, <3>3
  <2>19. SuitesAreWhole'
    BY <2>2, <2>8, <2>9, <2>10, <2>18 DEF SuitesAreWhole
  <2>20. NextGate(c)' = g
    BY <2>3, <2>12 DEF NextGate
  <2>21. Recorded(c)'
    <3>1. SuiteNumber' = m /\ Last(SuiteEvents)' = n /\ LastSuite' = LastSuite /\ LastSuite < n
      BY <2>2, <2>4, <2>5, <2>8, <2>9, NumberFacts
    <3>2. /\ Results(SuiteNumber)' = Results(m) /\ GatesOf(SuiteNumber)' = GatesOf(m)
      <4>1. Results(SuiteNumber)' = Results(m)
        BY <2>10, <3>1 DEF Results
      <4>2. GatesOf(SuiteNumber)' = GatesOf(m)
        BY <2>10, <4>1 DEF GatesOf
      <4> QED
        BY <4>1, <4>2
    <3>3. /\ m = 1 => GatesOf(m) \cup seen[c].gates = Gates
          /\ GatesOf(m) \cup seen[c].gates # {} /\ GatesOf(m) \cap seen[c].gates = {}
          /\ \A q, r \in Results(m) : q < r => Precedes(journal[q].node, journal[r].node)
          /\ \A r \in Results(m), h \in seen[c].gates : Precedes(journal[r].node, h)
          /\ \A s \in Positions({"VERIFICATION_GATE_STARTED"}) :
               journal[s].attempt = m => journal[s].node \in GatesOf(m)
      BY <1>1, <2>2, <2>4 DEF Recorded
    <3>4. \A s \in Positions({"VERIFICATION_GATE_STARTED"})' :
            journal'[s].attempt = m => journal'[s].node \in GatesOf(m) \/ journal'[s].node = g
      BY <2>7, <2>9, <2>11, <3>3
    <3>5. /\ \A q, r \in Results(m) : q < r => Precedes(journal'[q].node, journal'[r].node)
          /\ \A r \in Results(m), h \in seen[c].gates : Precedes(journal'[r].node, h)
      BY <2>10, <3>3
    <3> QED
      BY <1>1, <2>7, <2>9, <2>12, <2>20, <3>1, <3>2, <3>3, <3>4, <3>5 DEF Recorded
  <2>22. ProgressOf(c)'
    BY <2>12, <2>19, <2>21 DEF ProgressOf
  <2>23. DueOf(c)'
    <3>1. Unrecorded(c)' = {<<g, m>>}
      <4>1. Unrecorded(c)' = {<<NextGate(c)', SuiteNumber'>>}
        BY <2>12 DEF Unrecorded
      <4> QED
        BY <2>4, <2>8, <2>20, <4>1
    <3>2. IsStarted(<<g, m>>)'
      BY <2>7, <2>9, <2>11 DEF IsStarted
    <3>3. IsNew(<<g, m>>)
      <4> SUFFICES ASSUME NEW i \in DOMAIN effects, effects[i] = <<g, m>>
                   PROVE  FALSE
        BY DEF IsNew
      <4>1. PICK s \in Positions(Attempted) : <<journal[s].node, journal[s].attempt>> = effects[i]
        BY DEF ServiceInv, MadeOnce, IsStarted
      <4>2. journal[s].node = g /\ journal[s].attempt = m /\ journal[s].type \in Attempted
            /\ s \in DOMAIN journal
        BY <2>2, <4>1, PositionFacts DEF Positions, Of
      <4>3. StartIsTyped(journal[s])
        BY DEF ServiceInv, JournalInv, StartsInv
      <4>4. journal[s].type = "VERIFICATION_GATE_STARTED"
        <5>1. g # "planning" /\ g # "work"
          BY ServiceIsConfigured
        <5> QED
          BY <4>2, <4>3, <5>1 DEF StartIsTyped, Attempted
      <4>5. s \in Positions({"VERIFICATION_GATE_STARTED"})
        BY <4>2, <4>4 DEF Positions, Of
      <4>6. g \in GatesOf(SuiteNumber) /\ GatesOf(SuiteNumber) \cap seen[c].gates = {}
        BY <1>1, <2>2, <2>4, <4>2, <4>5 DEF Recorded
      <4> QED
        BY <2>3, <4>6
    <3>4. IsNew(<<g, m>>)'
      BY <1>1, <3>3 DEF IsNew, outside
    <3> QED
      BY <3>1, <3>2, <3>4 DEF DueOf, IsNew, IsStarted
  <2> QED
    BY <1>1, <2>8, <2>12, <2>13, <2>14, <2>15, <2>16, <2>22, <2>23, HolderStep
<1> QED
  BY <1>1, <1>2, <1>3, <1>4

\* The gate runs once and its result follows its start.
LEMMA RunGateKeeps ==
  ASSUME ServiceInv, NEW c \in Callers, RunGate(c)
  PROVE  ServiceInv'
<1>1. /\ at[c] = "run" /\ at[c] \in InSuite
      /\ UNCHANGED <<cursor, candidate, promotes, head, tree, stale, clock, bounds>>
  BY DEF RunGate, InSuite
<1>2. /\ at[c] \in Sections /\ state = "VERIFYING" /\ IsJournal(journal)
      /\ SuitesAreWhole /\ Recorded(c) /\ seen[c].gates \in SUBSET Gates
      /\ SuiteNumber \in Nat /\ SuiteNumber = Cardinality(Suites) + 1
      /\ SuitesInv /\ StateInv /\ ~ NodeIsOpen /\ Generated
      /\ Last(SuiteEvents) \in Nat /\ LastSuite \in Nat
      /\ LastSuite <= Last(SuiteEvents)
  BY <1>1, InSuiteFacts
<1>3. PICK g \in Gates : /\ g = NextGate(c) /\ g \in seen[c].gates
                         /\ \A h \in seen[c].gates : h # g => Precedes(g, h)
  <2>1. seen[c].gates # {}
    BY <1>1, <1>2 DEF Recorded
  <2> QED
    BY <1>2, <2>1, NextGateFacts
<1>4. PICK m \in Nat : m = SuiteNumber
  BY <1>2
<1>5. IsNew(<<g, m>>) /\ IsStarted(<<g, m>>) /\ <<g, m>> \in Nodes \X Nat
  <2>1. Unrecorded(c) = {<<NextGate(c), SuiteNumber>>}
    BY <1>1 DEF Unrecorded
  <2>2. IsNew(<<g, m>>) /\ IsStarted(<<g, m>>)
    BY <1>3, <1>4, <2>1 DEF ServiceInv, CallerInv, DueOf
  <2> QED
    BY <2>2, StartedIsTyped
<1>6. ASSUME Continued, effects' = effects \/ effects' = Append(effects, <<g, m>>)
      PROVE  MadeOnce' /\ effects' \in Seq(Nodes \X Nat)
  <2>1. CASE effects' = effects
    BY <1>2, <1>6, <2>1, EffectsStay DEF ServiceInv, TypeInv
  <2>2. CASE effects' = Append(effects, <<g, m>>)
    BY <1>2, <1>5, <1>6, <2>2, EffectMade DEF ServiceInv, TypeInv
  <2> QED
    BY <1>6, <2>1, <2>2
<1>7. ASSUME NEW s \in {"BLOCKED_PREREQUISITE", "FAILED_BUDGET_EXCEEDED"}, Finish(c, s),
             JournalInv', Further, Continued,
             effects' = effects \/ effects' = Append(effects, <<g, m>>)
      PROVE  ServiceInv'
  <2>1. MadeOnce' /\ effects' \in Seq(Nodes \X Nat)
    BY <1>6, <1>7
  <2>2. state' = s /\ Return(c) /\ s \in State \ Alive
    BY <1>7 DEF Finish, MoveTo, State, Blocked, Terminal, Alive, Early
  <2>3. TypeInv'
    BY <1>1, <2>1, <2>2, ReturnFacts DEF ServiceInv, TypeInv, TypeOK, Carriage, bounds
  <2> QED
    BY <1>2, <1>7, <2>1, <2>2, <2>3, StopStep
<1>8. CASE /\ IF StillThere(c) THEN UNCHANGED effects ELSE Affect(NextGate(c), SuiteNumber)
           /\ Finish(c, "BLOCKED_PREREQUISITE") /\ UNCHANGED journal
  <2>1. effects' = effects \/ effects' = Append(effects, <<g, m>>)
    BY <1>3, <1>4, <1>8 DEF Affect
  <2>2. Keeps /\ Continued
    BY <1>2, <1>8, NothingKeeps DEF Keeps
  <2>3. JournalInv' /\ Further
    BY <1>2, <2>2, KeepsJournal, KeepsFurther DEF ServiceInv
  <2> QED
    BY <1>7, <1>8, <2>1, <2>2, <2>3
<1>9. ASSUME NEW passed \in BOOLEAN, NEW d \in Durations, Affect(NextGate(c), SuiteNumber),
             LET j == Append(journal, GateResult(c, passed, d))
             IN  IF IsExceeded(j)
                 THEN /\ journal' = Append(j, Materialized(j, NextGate(c), SuiteNumber))
                      /\ Finish(c, "FAILED_BUDGET_EXCEEDED")
                 ELSE /\ journal' = j
                      /\ Go(c, "gates") /\ UNCHANGED state
                      /\ Carry(c, [seen[c] EXCEPT !.gates = @ \ {NextGate(c)}])
      PROVE  ServiceInv'
  <2>1. PICK e : e = GateResult(c, passed, d)
    OBVIOUS
  <2>2. /\ e.type = "VERIFICATION_GATE_RECORDED" /\ e.node = g /\ e.attempt = m
        /\ e.commit = seen[c].commit /\ e.passed \in BOOLEAN /\ e.type \in SuiteEvents
    BY <1>3, <1>4, <2>1 DEF GateResult, SuiteEvents
  <2> DEFINE j == Append(journal, e)
             x == Materialized(j, NextGate(c), SuiteNumber)
  <2>3. \/ journal' = Append(j, x) /\ Finish(c, "FAILED_BUDGET_EXCEEDED")
        \/ /\ journal' = j /\ Go(c, "gates") /\ UNCHANGED state
           /\ Carry(c, [seen[c] EXCEPT !.gates = @ \ {NextGate(c)}])
    BY <1>9, <2>1
  <2>4. x.type \in Silent
    BY DEF Materialized, Evidence, Silent
  <2> HIDE DEF x
  <2>5. Adds(e)
    <3>1. /\ IsJournal(j) /\ Len(j) = Len(journal) + 1
          /\ DOMAIN j = 1 .. Len(journal) + 1 /\ DOMAIN journal = 1 .. Len(journal)
          /\ Len(journal) \in Nat
          /\ \A i \in 1 .. Len(journal) : j[i] = journal[i]
          /\ j[Len(journal) + 1] = e
      BY <1>2, AppendFacts
    <3> HIDE DEF j
    <3>2. CASE journal' = j
      BY <3>1, <3>2 DEF Adds, Continued
    <3>3. CASE journal' = Append(j, x)
      <4>1. /\ IsJournal(journal') /\ Len(journal') = Len(j) + 1
            /\ DOMAIN journal' = 1 .. Len(j) + 1
            /\ \A i \in 1 .. Len(j) : journal'[i] = j[i]
            /\ journal'[Len(j) + 1] = x
        BY <3>1, <3>3, AppendFacts
      <4> QED
        BY <2>4, <3>1, <4>1 DEF Adds, Continued
    <3> QED
      BY <2>3, <3>2, <3>3
  <2>6. /\ JournalInv' /\ Further /\ Continued /\ SuiteNumber' = SuiteNumber
        /\ Suites' = Suites /\ LastSuite' = LastSuite
        /\ (Generated' <=> Generated) /\ (NodeIsOpen' <=> NodeIsOpen)
    BY <1>4, <2>2, <2>5, GateEventAdded
  <2>7. effects' = Append(effects, <<g, m>>)
    BY <1>3, <1>4, <1>9 DEF Affect
  <2>8. CASE Finish(c, "FAILED_BUDGET_EXCEEDED")
    BY <1>7, <2>6, <2>7, <2>8
  <2>9. CASE /\ Go(c, "gates") /\ UNCHANGED state
             /\ Carry(c, [seen[c] EXCEPT !.gates = @ \ {NextGate(c)}])
    <3>1. PICK n \in Nat : n = Len(journal) + 1
      BY <1>2, NumberFacts
    <3>2. /\ journal'[n] = e
          /\ Positions(SuiteEvents)' = Positions(SuiteEvents) \cup {n}
          /\ Last(SuiteEvents)' = n
          /\ \A i \in Positions(SuiteEvents) : i \in Nat /\ i < n /\ journal'[i] = journal[i]
          /\ \A i \in Positions(SuiteEvents) : Continues(i)' <=> Continues(i)
          /\ Preceding(n)' = Last(SuiteEvents)
          /\ Last(SuiteEvents) = 0 \/ Last(SuiteEvents) \in Positions(SuiteEvents)
      BY <1>2, <2>2, <2>5, <3>1, SuiteEventAdded
    <3>3. /\ Results(m)' = Results(m) \cup {n} /\ GatesOf(m)' = GatesOf(m) \cup {g}
          /\ \A r \in Results(m) : journal'[r] = journal[r]
          /\ \A i \in Suites : IsWhole(i)' <=> IsWhole(i)
      BY <1>2, <1>4, <2>2, <2>5, <3>1, ResultsAdded
    <3>4. Positions({"VERIFICATION_GATE_STARTED"})' = Positions({"VERIFICATION_GATE_STARTED"})
      BY <1>2, <2>2, <2>5, AddsPositions DEF Silent
    <3>5. Positions({"VERIFICATION_GATE_STARTED"}) \subseteq Positions(SuiteEvents)
      BY DEF Positions, Of, SuiteEvents
    <3>6. PICK s \in Carriage : s = [seen[c] EXCEPT !.gates = @ \ {g}]
      <4>1. seen[c] \in Carriage
        BY SeenFacts DEF ServiceInv
      <4> QED
        BY <4>1 DEF Carriage
    <3>7. s.gates = seen[c].gates \ {g} /\ s.commit = seen[c].commit
      <4>1. seen[c] \in Carriage
        BY SeenFacts DEF ServiceInv
      <4> QED
        BY <3>6, <4>1 DEF Carriage
    <3>8. seen' = [seen EXCEPT ![c] = s]
      BY <1>3, <2>9, <3>6 DEF Carry
    <3>9. /\ at'[c] = "gates" /\ at' \in [Callers -> Places]
          /\ \A d1 \in Callers : d1 # c => at'[d1] = at[d1]
      BY <2>9, GoFacts, PlacesAre DEF ServiceInv
    <3>10. /\ seen'[c] = s
           /\ DOMAIN seen' = Callers /\ \A d1 \in Callers : seen'[d1] \in Carriage
           /\ \A d1 \in Callers : d1 # c => seen'[d1] = seen[d1]
      <4>1. TypeInv
        BY DEF ServiceInv
      <4> QED
        BY <3>8, <4>1, CarryFacts
    <3>11. MadeOnce' /\ effects' \in Seq(Nodes \X Nat)
      BY <1>6, <2>6, <2>7
    <3>12. TypeInv'
      BY <1>1, <2>9, <3>9, <3>10, <3>11 DEF ServiceInv, TypeInv, TypeOK, Carriage, bounds
    <3>13. StateInv'
      BY <1>1, <1>2, <2>6, <2>9 DEF StateInv, Early, Gathering
    <3>14. /\ VerdictIsEarned' /\ Uninterrupted' /\ PlaceOf(c)' /\ RequestOf(c)'
      BY <1>2, <2>9, <3>9 DEF VerdictIsEarned, Uninterrupted, InSuite, PlaceOf, RequestOf
    <3>15. DueOf(c)'
      <4>1. Unrecorded(c)' = {}
        BY <3>9 DEF Unrecorded
      <4> QED
        BY <4>1 DEF DueOf
    <3> DEFINE last == Last(SuiteEvents)
    <3>16. /\ last > LastSuite /\ journal[last].type = "VERIFICATION_GATE_STARTED"
           /\ journal[last].node = g /\ journal[last].commit = seen[c].commit
      BY <1>1, <1>2, <1>3 DEF Recorded
    <3>17. last # 0 /\ journal[last].attempt = m /\ journal'[last] = journal[last]
      <4>1. last # 0 /\ last \in Positions(SuiteEvents)
        BY <1>2, <3>2, <3>16
      <4> QED
        BY <1>2, <1>4, <3>2, <3>16, <4>1 DEF SuitesInv
    <3>18. Continues(n)'
      <4> HIDE DEF last
      <4> QED
        BY <2>2, <3>2, <3>16, <3>17 DEF Continues, last
    <3>19. SuitesAreWhole'
      BY <1>2, <2>6, <3>2, <3>3, <3>18 DEF SuitesAreWhole
    <3>20. SuiteNumber' = m /\ LastSuite' = LastSuite /\ LastSuite < n
      BY <1>2, <1>4, <2>6, <3>1, NumberFacts
    <3>21. /\ Results(SuiteNumber)' = Results(m) \cup {n}
           /\ GatesOf(SuiteNumber)' = GatesOf(m) \cup {g}
      <4>1. Results(SuiteNumber)' = Results(m) \cup {n}
        BY <3>3, <3>20 DEF Results
      <4>2. GatesOf(SuiteNumber)' = GatesOf(m) \cup {g}
        BY <2>2, <3>2, <3>3, <4>1 DEF GatesOf
      <4> QED
        BY <4>1, <4>2
    <3>22. /\ m = 1 => GatesOf(m) \cup seen[c].gates = Gates
           /\ GatesOf(m) \cap seen[c].gates = {}
           /\ \A q, r \in Results(m) : q < r => Precedes(journal[q].node, journal[r].node)
           /\ \A r \in Results(m), h \in seen[c].gates : Precedes(journal[r].node, h)
           /\ \A s1 \in Positions({"VERIFICATION_GATE_STARTED"}) :
                journal[s1].attempt = m => journal[s1].node \in GatesOf(m) \/ journal[s1].node = g
      BY <1>2, <1>3, <1>4 DEF Recorded
    <3>23. /\ m = 1 => (GatesOf(m) \cup {g}) \cup s.gates = Gates
           /\ (GatesOf(m) \cup {g}) \cup s.gates # {}
           /\ (GatesOf(m) \cup {g}) \cap s.gates = {}
      BY <1>3, <3>7, <3>22
    <3>24. \A r \in Results(m) : r \in Nat /\ r < n
      <4>1. Results(m) \subseteq Positions(SuiteEvents)
        BY DEF Results, Positions, Of, SuiteEvents
      <4> QED
        BY <3>2, <4>1
    <3>25. \A q, r \in Results(m) \cup {n} : q < r => Precedes(journal'[q].node, journal'[r].node)
      <4>1. ASSUME NEW q \in Results(m), NEW r \in Results(m), q < r
            PROVE  Precedes(journal'[q].node, journal'[r].node)
        BY <3>3, <3>22, <4>1
      <4>2. ASSUME NEW q \in Results(m)
            PROVE  Precedes(journal'[q].node, journal'[n].node)
        BY <1>3, <2>2, <3>2, <3>3, <3>22
      <4> QED
        BY <3>24, <4>1, <4>2
    <3>26. \A r \in Results(m) \cup {n}, h \in s.gates : Precedes(journal'[r].node, h)
      <4>1. ASSUME NEW r \in Results(m), NEW h \in s.gates
            PROVE  Precedes(journal'[r].node, h)
        BY <3>3, <3>7, <3>22
      <4>2. ASSUME NEW h \in s.gates
            PROVE  Precedes(journal'[n].node, h)
        BY <1>3, <2>2, <3>2, <3>7
      <4> QED
        BY <4>1, <4>2
    <3>27. \A s1 \in Positions({"VERIFICATION_GATE_STARTED"})' :
             journal'[s1].attempt = m => journal'[s1].node \in GatesOf(m) \cup {g}
      BY <3>2, <3>4, <3>5, <3>22
    <3>28. Recorded(c)'
      BY <2>2, <3>2, <3>7, <3>9, <3>10, <3>20, <3>21, <3>23, <3>25, <3>26, <3>27 DEF Recorded
    <3>29. ProgressOf(c)'
      BY <3>9, <3>19, <3>28 DEF ProgressOf
    <3> QED
      BY <1>2, <2>6, <3>9, <3>10, <3>11, <3>12, <3>13, <3>14, <3>15, <3>29, HolderStep
  <2> QED
    BY <2>3, <2>8, <2>9
<1> QED
  BY <1>8, <1>9 DEF RunGate

\* The suite that is written is whole: it has run all gates it was to run.
LEMMA RecordSuiteKeeps ==
  ASSUME ServiceInv, NEW c \in Callers, RecordSuite(c)
  PROVE  ServiceInv'
<1>1. /\ at[c] = "gates" /\ at[c] \in InSuite /\ seen[c].gates = {}
      /\ Write([type |-> "VERIFICATION_SUITE_RECORDED", attempt |-> SuiteNumber,
                commit |-> seen[c].commit, passed |-> AllPassed(SuiteNumber)])
      /\ Go(c, "verdict")
      /\ UNCHANGED <<state, cursor, candidate, outside, seen, bounds>>
  BY DEF RecordSuite, InSuite
<1>2. /\ at[c] \in Sections /\ state = "VERIFYING" /\ IsJournal(journal)
      /\ SuitesAreWhole /\ Recorded(c)
      /\ SuiteNumber \in Nat /\ SuiteNumber = Cardinality(Suites) + 1
      /\ SuitesInv /\ StateInv /\ ~ NodeIsOpen /\ Generated
      /\ Last(SuiteEvents) \in Nat /\ LastSuite \in Nat
      /\ \A r \in Results(SuiteNumber) : r \in Positions(SuiteEvents) /\ r > LastSuite
  BY <1>1, InSuiteFacts
<1>3. PICK m \in Nat : m = SuiteNumber
  BY <1>2
<1>4. PICK n \in Nat : n = Len(journal) + 1
  BY <1>2, NumberFacts
<1>5. PICK e : e = [type |-> "VERIFICATION_SUITE_RECORDED", attempt |-> SuiteNumber,
                    commit |-> seen[c].commit, passed |-> AllPassed(SuiteNumber)]
  OBVIOUS
<1>6. /\ Adds(e) /\ e.type = "VERIFICATION_SUITE_RECORDED" /\ e.attempt = m
      /\ e.commit = seen[c].commit /\ e.type \in SuiteEvents
  BY <1>1, <1>2, <1>3, <1>5, WriteAdds DEF SuiteEvents
<1>7. e.passed \in BOOLEAN /\ (e.passed <=> AllPassed(m))
  <2>1. e.passed = AllPassed(m)
    BY <1>3, <1>5
  <2>2. AllPassed(m) \in BOOLEAN
    BY DEF AllPassed
  <2> QED
    BY <2>1, <2>2
<1>8. IsJournal(journal') /\ Continued
  BY <1>6 DEF Adds, Continued
<1>9. /\ journal'[n] = e
      /\ Positions(SuiteEvents)' = Positions(SuiteEvents) \cup {n}
      /\ Last(SuiteEvents)' = n
      /\ \A i \in Positions(SuiteEvents) : i \in Nat /\ i < n /\ journal'[i] = journal[i]
      /\ \A i \in Positions(SuiteEvents) : Continues(i)' <=> Continues(i)
      /\ Preceding(n)' = Last(SuiteEvents)
      /\ Last(SuiteEvents) = 0 \/ Last(SuiteEvents) \in Positions(SuiteEvents)
  BY <1>2, <1>4, <1>6, SuiteEventAdded
<1>10. /\ Results(m)' = Results(m) /\ GatesOf(m)' = GatesOf(m)
       /\ \A r \in Results(m) : journal'[r] = journal[r]
       /\ \A i \in Suites : IsWhole(i)' <=> IsWhole(i)
  BY <1>2, <1>3, <1>4, <1>6, ResultsAdded
<1>11. /\ Suites' = Suites \cup {n} /\ LastSuite' = n
       /\ Cardinality(Suites)' = Cardinality(Suites) + 1
  <2> DEFINE C == {"VERIFICATION_SUITE_RECORDED"}
  <2>1. C \cap Silent = {} /\ e.type \in C
    BY <1>6 DEF Silent
  <2>2. Suites = Positions(C) /\ LastSuite = Last(C) /\ Cardinality(Suites) = Count(C)
    BY DEF Suites, LastSuite, Count
  <2>3. Suites' = Positions(C)' /\ LastSuite' = Last(C)' /\ Cardinality(Suites)' = Count(C)'
    BY DEF Suites, LastSuite, Count
  <2> HIDE DEF C
  <2> QED
    BY <1>2, <1>4, <1>6, <2>1, <2>2, <2>3, AddsPositions
<1>12. /\ Without(HistoryEvents) /\ Without(Attempted)
       /\ Without({"NODE_STARTED", "NODE_COMPLETED", "NODE_FAILED"})
       /\ Without({"PLAN_GENERATION_STARTED", "PLAN_GENERATED"})
       /\ Without({"VERIFICATION_REPAIR_SCHEDULED", "NODE_STARTED"})
       /\ Without({"VERIFICATION_REPAIR_SCHEDULED"})
  BY <1>2, <1>6, AddsWithout DEF HistoryEvents, Attempted, Silent
<1>13. /\ (NodeIsOpen' <=> NodeIsOpen) /\ (Generated' <=> Generated)
       /\ Last({"VERIFICATION_REPAIR_SCHEDULED", "NODE_STARTED"})' =
            Last({"VERIFICATION_REPAIR_SCHEDULED", "NODE_STARTED"})
       /\ Last({"VERIFICATION_REPAIR_SCHEDULED"})' = Last({"VERIFICATION_REPAIR_SCHEDULED"})
       /\ Schedules' = Schedules
  BY <1>2, <1>12, NodeStays, PlanStays, WithoutPositions DEF Schedules
<1>14. HistoryInv' /\ StartsInv'
  BY <1>2, <1>12, HistoryStays, StartsStay DEF ServiceInv, JournalInv
<1>15. \A i \in Schedules \cup Suites : i \in Nat /\ i < n /\ journal'[i] = journal[i]
  <2>1. \A i \in Schedules \cup Suites : i \in Nat /\ i >= 1 /\ i <= Len(journal)
    BY <1>2, PositionFacts DEF Schedules, Suites
  <2>2. DOMAIN journal = 1 .. Len(journal) /\ Len(journal) \in Nat
    BY <1>2, PositionFacts
  <2> QED
    BY <1>4, <1>8, <2>1, <2>2 DEF Continued
<1>16. SchedulesInv'
  <2>1. SchedulesInv
    BY DEF ServiceInv, JournalInv
  <2>2. \A i \in Schedules : SourceOf(i)' = SourceOf(i)
    <3> TAKE i \in Schedules
    <3>1. {k \in Suites' : k < i} = {k \in Suites : k < i}
      BY <1>11, <1>15
    <3> QED
      BY <3>1 DEF SourceOf
  <2>3. \A i \in Schedules : SourceOf(i) \in Suites
    <3> TAKE i \in Schedules
    <3>1. SourceOf(i) # 0
      BY <2>1 DEF SchedulesInv, SchedulesReplay
    <3> QED
      BY <1>2, <1>15, <3>1, SourceFacts
  <2>4. \A i \in Schedules : journal'[i] = journal[i] /\ journal'[SourceOf(i)] = journal[SourceOf(i)]
    BY <1>15, <2>3
  <2>5. \A i \in Schedules :
          /\ SourceOf(i)' # 0 /\ ~ journal'[SourceOf(i)'].passed
          /\ journal'[i].source = journal'[SourceOf(i)'].attempt
          /\ journal'[i].repair = Cardinality({k \in Schedules' : k <= i})
          /\ \A k \in Schedules : journal'[k].deadline = journal'[i].deadline
    <3> TAKE i \in Schedules
    <3>1. /\ SourceOf(i) # 0 /\ ~ journal[SourceOf(i)].passed
          /\ journal[i].source = journal[SourceOf(i)].attempt
          /\ journal[i].repair = Cardinality({k \in Schedules : k <= i})
          /\ \A k \in Schedules : journal[k].deadline = journal[i].deadline
      BY <2>1 DEF SchedulesInv, SchedulesReplay
    <3>2. {k \in Schedules' : k <= i} = {k \in Schedules : k <= i}
      BY <1>13
    <3>3. SourceOf(i)' = SourceOf(i) /\ journal'[SourceOf(i)] = journal[SourceOf(i)]
      BY <2>2, <2>4
    <3>4. \A k \in Schedules : journal'[k].deadline = journal'[i].deadline
      BY <2>4, <3>1
    <3> QED
      BY <2>4, <3>1, <3>2, <3>3, <3>4
  <2>6. SchedulesReplay'
    BY <1>13, <2>5 DEF SchedulesReplay
  <2> QED
    BY <1>13, <2>1, <2>4, <2>6 DEF SchedulesInv
<1>17. Suites \subseteq Positions(SuiteEvents)
  BY DEF Suites, Positions, Of, SuiteEvents
<1>18. SuitesInv'
  <2> DEFINE D == {"VERIFICATION_SUITE_RECORDED", "VERIFICATION_GATE_RECORDED"}
  <2>1. Cardinality(Suites) \in Nat
    BY <1>2, NumberFacts
  <2>2. \A i \in Positions(SuiteEvents) :
          journal[i].attempt \in Nat /\ journal[i].attempt <= Cardinality(Suites) + 1
    <3> TAKE i \in Positions(SuiteEvents)
    <3>1. i \in Nat
      BY <1>9
    <3> QED
      BY <1>2, <2>1, <3>1 DEF SuitesInv
  <2>3. \A i \in Positions(SuiteEvents)' :
          /\ journal'[i].attempt \in Nat
          /\ i <= LastSuite' => journal'[i].attempt <= Cardinality(Suites')
          /\ i > LastSuite' => journal'[i].attempt = SuiteNumber'
    <3>1. ASSUME NEW i \in Positions(SuiteEvents)
          PROVE  /\ journal'[i].attempt \in Nat
                 /\ journal'[i].attempt <= Cardinality(Suites') /\ ~ (i > LastSuite')
      BY <1>9, <1>11, <2>2
    <3>2. journal'[n].attempt \in Nat /\ journal'[n].attempt <= Cardinality(Suites')
          /\ ~ (n > LastSuite')
      BY <1>2, <1>3, <1>6, <1>9, <1>11, <2>1
    <3> QED
      BY <1>9, <3>1, <3>2
  <2>4. \A i, k \in Suites' : i < k => journal'[i].attempt < journal'[k].attempt
    <3>1. \A i \in Suites : journal[i].attempt \in Nat /\ journal[i].attempt <= Cardinality(Suites)
      <4> TAKE i \in Suites
      <4>1. i <= LastSuite
        BY <1>2, NumberFacts
      <4> QED
        BY <1>2, <1>17, <4>1 DEF SuitesInv
    <3>2. \A i \in Suites : journal'[i].attempt < journal'[n].attempt
      BY <1>2, <1>3, <1>6, <1>9, <1>15, <2>1, <3>1
    <3>3. \A i, k \in Suites : i < k => journal'[i].attempt < journal'[k].attempt
      BY <1>2, <1>15 DEF SuitesInv
    <3> QED
      BY <1>11, <1>15, <3>2, <3>3
  <2>5. Positions(D)' = Positions(D) \cup {n} /\ Positions(D) \subseteq Positions(SuiteEvents)
    <3>1. D \cap Silent = {} /\ e.type \in D
      BY <1>6 DEF Silent
    <3>2. Positions(D)' = Positions(D) \cup {n}
      <4> HIDE DEF D
      <4> QED
        BY <1>2, <1>4, <1>6, <3>1, AddsPositions
    <3>3. Positions(D) \subseteq Positions(SuiteEvents)
      BY DEF Positions, Of, SuiteEvents
    <3> QED
      BY <3>2, <3>3
  <2>6. \A i \in Positions(D)' : journal'[i].passed \in BOOLEAN
    <3>1. \A i \in Positions(D) : journal'[i].passed \in BOOLEAN
      BY <1>2, <1>9, <2>5 DEF SuitesInv
    <3> QED
      BY <1>7, <1>9, <2>5, <3>1
  <2>7. journal'[LastSuite'].attempt = Cardinality(Suites')
    BY <1>2, <1>3, <1>6, <1>9, <1>11
  <2>8. Last({"VERIFICATION_REPAIR_SCHEDULED", "NODE_STARTED"})' < LastSuite'
    <3>1. /\ Last({"VERIFICATION_REPAIR_SCHEDULED", "NODE_STARTED"}) \in Nat
          /\ Last({"VERIFICATION_REPAIR_SCHEDULED", "NODE_STARTED"}) <= Len(journal)
          /\ Len(journal) \in Nat
      BY <1>2, PositionFacts
    <3> QED
      BY <1>4, <1>11, <1>13, <3>1
  <2> QED
    BY <2>3, <2>4, <2>6, <2>7, <2>8 DEF SuitesInv
<1>19. JournalInv'
  BY <1>8, <1>14, <1>16, <1>18 DEF JournalInv
<1> DEFINE last == Last(SuiteEvents)
<1>20. Results(m) # {}
  <2>1. GatesOf(m) # {}
    BY <1>1, <1>2, <1>3 DEF Recorded
  <2> QED
    BY <2>1 DEF GatesOf
<1>21. last # 0 /\ last > LastSuite
  <2>1. PICK r \in Results(m) : TRUE
    BY <1>20
  <2>2. r \in Positions(SuiteEvents) /\ r > LastSuite /\ r <= last /\ r \in Nat
    BY <1>2, <1>3, <1>9, <2>1, PositionFacts
  <2> QED
    BY <1>2, <2>2
<1>22. /\ journal[last].type = "VERIFICATION_GATE_RECORDED"
       /\ journal[last].commit = seen[c].commit /\ journal[last].attempt = m
       /\ journal'[last] = journal[last]
  <2>1. last \in Positions(SuiteEvents)
    BY <1>9, <1>21
  <2>2. last # LastSuite
    BY <1>2, <1>21
  <2> QED
    BY <1>1, <1>2, <1>3, <1>9, <1>21, <2>1, <2>2 DEF SuitesInv, Recorded
<1>23. Continues(n)'
  <2> HIDE DEF last
  <2> QED
    BY <1>6, <1>9, <1>21, <1>22 DEF Continues, last
<1>24. IsWhole(n)'
  <2>1. AllPassed(m)' <=> AllPassed(m)
    <3>1. {r \in Results(m) : journal[r].node \in Blocking}' =
            {r \in Results(m) : journal[r].node \in Blocking}
      BY <1>10
    <3> QED
      BY <1>10, <3>1 DEF AllPassed
  <2>2. /\ m = 1 => GatesOf(m) = Gates
        /\ \A q, r \in Results(m) : q < r => Precedes(journal[q].node, journal[r].node)
    BY <1>1, <1>2, <1>3 DEF Recorded
  <2>3. \A q, r \in Results(m) : q < r => Precedes(journal'[q].node, journal'[r].node)
    BY <1>10, <2>2
  <2> QED
    BY <1>6, <1>7, <1>9, <1>10, <1>20, <2>1, <2>2, <2>3 DEF IsWhole
<1>25. SuitesReplay'
  BY <1>2, <1>9, <1>10, <1>11, <1>23, <1>24 DEF SuitesReplay, SuitesAreWhole
<1>26. /\ at'[c] = "verdict" /\ at' \in [Callers -> Places]
       /\ \A d \in Callers : d # c => at'[d] = at[d] /\ seen'[d] = seen[d]
  BY <1>1, GoFacts, PlacesAre DEF ServiceInv
<1>27. TypeInv'
  BY <1>1, <1>26, SeenFacts DEF ServiceInv, TypeInv, TypeOK, outside, bounds
<1>28. StateInv'
  BY <1>1, <1>2, <1>13 DEF StateInv, Early, Gathering
<1>29. MadeOnce' /\ VerdictIsEarned'
  BY <1>1, <1>2, <1>8, EffectsStay DEF ServiceInv, outside, VerdictIsEarned
<1>30. Uninterrupted'
  BY <1>25 DEF Uninterrupted
<1>31. Further
  <2>1. RepairedSince' => RepairedSince
    <3>1. /\ Last({"VERIFICATION_REPAIR_SCHEDULED"}) \in Nat
          /\ Last({"VERIFICATION_REPAIR_SCHEDULED"}) <= Len(journal)
          /\ Len(journal) \in Nat
      BY <1>2, PositionFacts
    <3> QED
      BY <1>4, <1>11, <1>13, <3>1 DEF RepairedSince
  <2> QED
    BY <1>11, <1>13, <1>15, <2>1 DEF Further
<1>32. PlaceOf(c)' /\ RequestOf(c)' /\ ProgressOf(c)'
  BY <1>1, <1>2, <1>11, <1>25, <1>26 DEF PlaceOf, RequestOf, ProgressOf, InSuite
<1>33. DueOf(c)'
  <2>1. Unrecorded(c)' = {}
    BY <1>26 DEF Unrecorded
  <2> QED
    BY <2>1 DEF DueOf
<1> QED
  BY <1>2, <1>19, <1>26, <1>27, <1>28, <1>29, <1>30, <1>31, <1>32, <1>33, HolderStep

\* Every section of the verification.
LEMMA VerificationKeeps ==
  ASSUME ServiceInv, NEW c \in Callers, VerificationSession(c)
  PROVE  ServiceInv'
BY LookAtWorktreeKeeps, BlockKeeps, EnterVerifyKeeps, StartGateKeeps, RunGateKeeps,
   RecordSuiteKeeps, CertifyKeeps, AskRepairKeeps, ScheduleRepairKeeps, RecordScheduleKeeps,
   MoveCursorKeeps DEF VerificationSession

-----------------------------------------------------------------------------
(* The invariant, and what it says.                                        *)

\* Nothing is written and nobody is inside at first.
LEMMA InitIsInv ==
  ASSUME Init
  PROVE  ServiceInv
<1>1. /\ state = "absent" /\ journal = << >> /\ cursor = "work" /\ candidate = 0
      /\ promotes \in BOOLEAN /\ head = 0 /\ tree = "clean" /\ stale = FALSE
      /\ clock = 0 /\ effects = << >> /\ moves = 0 /\ faults = 0
      /\ \A c \in Callers : at[c] = "idle" /\ seen[c] = Nothing
      /\ at \in [Callers -> Places] /\ DOMAIN seen = Callers
  BY PlacesAre DEF Init
<1>2. IsJournal(journal) /\ Len(journal) = 0 /\ DOMAIN journal = {} /\ effects \in Seq(Nodes \X Nat)
  <2>1. journal \in Seq(Nat)
    BY <1>1
  <2> QED
    BY <1>1, <2>1 DEF IsJournal
<1>3. \A types : Positions(types) = {}
  BY <1>2 DEF Positions, Of
<1>4. \A types : Last(types) = 0 /\ Count(types) = 0
  <2> TAKE types
  <2>1. Last(types) \in Nat /\ Last(types) <= Len(journal) /\ Len(journal) = 0
    BY <1>2, PositionFacts
  <2>2. Count(types) = 0
    BY <1>2, <1>3, PositionFacts
  <2> QED
    BY <2>1, <2>2
<1>5. TypeInv
  <2>1. "absent" \in State \cup {"absent"}
    OBVIOUS
  <2>2. /\ state \in State \cup {"absent"} /\ cursor \in {"work", "end"}
        /\ promotes \in BOOLEAN /\ stale \in BOOLEAN /\ tree \in {"clean", "edited", "stray"}
    BY <1>1, <2>1
  <2>3. {head, candidate, clock, moves, faults} \subseteq Nat
    BY <1>1
  <2>4. \A c \in Callers : seen[c] \in Carriage
    BY <1>1, NothingIsCarried
  <2> QED
    BY <1>1, <1>2, <2>2, <2>3, <2>4 DEF TypeInv, TypeOK, Carriage
<1>6. /\ Visits = 0 /\ Ended = 0 /\ Decisions = 0 /\ PlansAsked = 0
      /\ ~ Started /\ ~ Generated /\ ~ NodeIsOpen /\ ~ DecisionPending /\ ~ RepairPending
      /\ Suites = {} /\ Schedules = {} /\ Cardinality(Schedules) = 0
  BY <1>3, <1>4 DEF Visits, Ended, Decisions, PlansAsked, Started, Generated, NodeIsOpen,
     DecisionPending, LastDecision, RepairPending, Suites, Schedules, Count
<1>7. HistoryInv
  <2>1. MaxRetrievals \in Nat /\ MaxIterations \in Nat
    <3>1. /\ {MaxRetrievals, RetryMax, RetryDuration, MaxUpsets} \cup Durations \subseteq Nat
          /\ MaxIterations \in Nat
      BY ServiceIsConfigured
    <3> QED
      BY <3>1
  <2> QED
    BY <1>6, <2>1 DEF HistoryInv
<1>8. StartsInv /\ SuitesInv /\ SchedulesInv
  BY <1>3, <1>6, LimitFacts DEF StartsInv, SuitesInv, SchedulesInv, SchedulesReplay
<1>9. StateInv
  BY <1>1, <1>3, <1>6 DEF StateInv, Early, Gathering
<1>10. LockInv /\ MadeOnce /\ VerdictIsEarned
  BY <1>1 DEF LockInv, MadeOnce, VerdictIsEarned, Sections
<1>11. Uninterrupted
  BY <1>3, <1>4, <1>6 DEF Uninterrupted, SuitesReplay, LastSuite
<1>12. CallerInv
  <2> SUFFICES ASSUME NEW c \in Callers
               PROVE  PlaceOf(c) /\ DueOf(c) /\ RequestOf(c) /\ ProgressOf(c)
    BY DEF CallerInv
  <2>1. Unrecorded(c) = {}
    BY <1>1 DEF Unrecorded
  <2> QED
    BY <1>1, <2>1 DEF PlaceOf, DueOf, RequestOf, ProgressOf, InSuite
<1> QED
  BY <1>2, <1>5, <1>7, <1>8, <1>9, <1>10, <1>11, <1>12 DEF ServiceInv, JournalInv

\* Each step keeps it.
LEMMA NextKeepsInv ==
  ASSUME ServiceInv, [Next]_vars
  PROVE  ServiceInv'
<1>1. ASSUME NEW c \in Callers,
             \/ Start(c) \/ Resume(c) \/ Verify(c) \/ PrepareCandidate(c) \/ Promote(c)
             \/ Session(c) \/ Crash(c)
      PROVE  ServiceInv'
  BY <1>1, StartKeeps, ResumeKeeps, VerifyKeeps, PrepareCandidateKeeps, PromoteKeeps,
     PreparationKeeps, GraphKeeps, VerificationKeeps, CrashKeeps DEF Session
<1>2. CASE Commit
  BY <1>2, CommitKeeps
<1>3. CASE Move
  BY <1>3, MoveKeeps
<1>4. CASE UNCHANGED vars
  <2>1. UNCHANGED <<state, journal, cursor, candidate, promotes, head, tree, stale, clock,
                    effects, at, seen, moves, faults>>
    BY <1>4 DEF vars, stored, outside, bounds
  <2>2. TypeInv'
    BY <2>1 DEF ServiceInv, TypeInv, TypeOK
  <2> QED
    BY <2>1, <2>2, QuietStep
<1> QED
  BY <1>1, <1>2, <1>3, <1>4 DEF Next

\* The invariant holds: for any number of callers, any policy and limits, over all deaths.
THEOREM ServiceInvHolds == Spec => []ServiceInv
<1>1. Init => ServiceInv
  BY InitIsInv
<1>2. ServiceInv /\ [Next]_vars => ServiceInv'
  BY NextKeepsInv
<1> QED
  BY <1>1, <1>2, PTL DEF Spec

\* One caller at a time is in a section, and what the callers write in turns replays, the
\* suites as long as nobody died (LifecycleInv): section by section of
\* execution_lifecycle.py, whoever holds the lock.
THEOREM SectionsAreExclusive == Spec => []LifecycleInv
<1>1. ServiceInv => LifecycleInv
  <2> HAVE ServiceInv
  <2> DEFINE Inside == {c \in Callers : at[c] \in Sections}
  <2>1. Cardinality(Inside) <= 1
    <3>1. CASE Inside = {}
      BY <3>1, FS_EmptySet
    <3>2. CASE Inside # {}
      <4>1. PICK c \in Callers : c \in Inside
        BY <3>2
      <4>2. Inside = {c}
        BY <4>1 DEF ServiceInv, LockInv
      <4> QED
        BY <4>2, FS_Singleton
    <3> QED
      BY <3>1, <3>2
  <2>2. TypeOK /\ SchedulesReplay
    BY DEF ServiceInv, TypeInv, JournalInv, SchedulesInv
  <2>3. state = "VERIFYING" /\ Free /\ faults = 0 => SuitesReplay
    BY PlacesAre DEF ServiceInv, Uninterrupted, Free, Alive, InSuite
  <2> QED
    BY <2>1, <2>2, <2>3 DEF LifecycleInv
<1> QED
  BY <1>1, ServiceInvHolds, PTL

\* The plan is asked for once, the node's agent once in each visit and a gate once in each
\* suite, each after its start was written (EffectsOnce): a caller that dies in the middle
\* leaves a start behind, and nobody starts the same again.
THEOREM EffectsAreMadeOnce == Spec => []EffectsOnce
<1>1. ServiceInv => EffectsOnce
  BY DEF ServiceInv, MadeOnce, IsStarted, JournalInv, HistoryInv, PlansAsked, EffectsOnce
<1> QED
  BY <1>1, ServiceInvHolds, PTL

\* Context attempts, repairs and visits stay in their bounds, repairs share the first
\* deadline and follow different failed suites (BoundsSurvive): all of it is counted in
\* the journal, and a late request of another caller does not hold any more.
THEOREM BoundsAreKept == Spec => []BoundsSurvive
<1>1. ServiceInv => BoundsSurvive
  BY DEF ServiceInv, JournalInv, HistoryInv, SchedulesInv, SchedulesReplay, BoundsSurvive
<1> QED
  BY <1>1, ServiceInvHolds, PTL

\* A completed execution has earned it with its last suite (VerdictIsEarned): whichever of
\* verify, its continuation and promote completed it.
THEOREM CompletionIsEarned == Spec => []VerdictIsEarned
<1>1. ServiceInv => VerdictIsEarned
  BY DEF ServiceInv
<1> QED
  BY <1>1, ServiceInvHolds, PTL
=============================================================================
