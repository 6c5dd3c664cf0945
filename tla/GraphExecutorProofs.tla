------------------------ MODULE GraphExecutorProofs ------------------------
(***************************************************************************)
(* The executor implements Traversal and keeps its account, for every      *)
(* graph, policy and limit, however often it is interrupted and resumed.   *)
(*                                                                         *)
(* The journal alone says where the traversal is: a node that was started  *)
(* more often than it came out is open.  The record is at most one outcome *)
(* behind, and a session, which brings it up to date first, knows how much *)
(* it has called in the visit that it is in.                               *)
(*                                                                         *)
(* The account is a second inductive invariant on top of that one: one     *)
(* reservation is held at most, every call is settled or about to be, what *)
(* is reserved has room, and an excess ends the visit that it is found in  *)
(* or keeps the next from beginning, unless it is the time of a node       *)
(* before there was any call: then the next visit may not notice it.       *)
(***************************************************************************)
EXTENDS GraphExecutor, SequenceTheorems, FiniteSetTheorems, WellFoundedInduction, TLAPS

-----------------------------------------------------------------------------
(* The inductive invariant.                                                *)

\* States of an execution whose graph has not been entered.
Fresh == {"INITIATED", "PLANNING"}

\* The events that move the traversal.
NodeEvents == Outcomes \cup {"NODE_STARTED"}

\* Places of a session between two visits, within one, and there in the tool loop.
Outside == {"loop", "asked", "denied"}
Inside == Steps \ (Outside \cup {"idle"})
BeforeTool == {"node", "model", "replied", "tools", "reserved", "called"}
AfterTool == {"dispatched", "outcome"}
Calling == (BeforeTool \ {"node"}) \cup AfterTool \cup {"overrun"}

Record == [state : State, revision : Nat, node : Places, attempts : [Nodes -> Nat],
           approval : {"NOT_REQUIRED", "PENDING", "APPROVED"}]

Session == [step : Steps, payload : Nat, context : Contexts, turns : Nat, tools : Nat,
            wanted : Int, tried : Nat, handle : Nat, reply : Replies, result : Results]

Effect == [node : Agents, attempt : Nat, kind : {"model", "tool"}, step : Nat]

\* What an event carries.
EventIsTyped(e) ==
  /\ e.node \in Places
  /\ e.type \in NodeEvents =>
       e.node \in Nodes /\ e.attempt \in Nat /\ e.context \in Contexts
  /\ e.type \in Outcomes => e.next \in Places
  /\ e.type = "STATE_TRANSITIONED" => e.to \in State \ Fresh
  /\ e.type \in Outcomes \cup Approvals \cup {"STATE_TRANSITIONED"} => e.revision \in Nat
  /\ e.type \in Approvals => DOMAIN e = {"type", "node", "subject", "revision"}

JournalIsTyped(j) ==
  /\ \E S : j \in Seq(S)
  /\ \A i \in DOMAIN j : EventIsTyped(j[i])

TypeInv ==
  /\ record \in Record
  /\ JournalIsTyped(journal)
  /\ effects \in Seq(Effect)
  /\ session \in Session /\ session.handle <= Len(journal)
  /\ faults \in 0 .. MaxFaults

VisitsIn(j, n) == Cardinality({i \in Of(j, {"NODE_STARTED"}) : j[i].node = n})

\* The journal by itself: a visit more than outcomes where a visit is going on, as many
\* elsewhere, and the last outcome is that of the last attempt.
WalkInv(j) ==
  /\ ExpectedNode(j) \in IF OpenStart(j) THEN Nodes ELSE Places
  /\ ExpectedContext(j) \in Contexts
  /\ \A n \in Nodes :
       VisitsIn(j, n) =
         IF OpenStart(j) /\ ExpectedNode(j) = n THEN Concluded(j, n) + 1 ELSE Concluded(j, n)
  /\ LastOutcome(j) # 0 =>
       j[LastOutcome(j)].attempt = Concluded(j, j[LastOutcome(j)].node)

\* Before its first session the graph was not entered.
FreshInv ==
  record.state \in Fresh =>
    /\ session.step = "idle"
    /\ Of(journal, NodeEvents) = {}
    /\ \A n \in Nodes : record.attempts[n] = 0

\* The record shows where the journal leads.
UpToDate ==
  /\ record.node = ExpectedNode(journal)
  /\ \A n \in Nodes : record.attempts[n] = Concluded(journal, n)

\* A session has brought the record up to date, and knows whether a node is open.
PlaceInv ==
  /\ session.step = "idle" => session = Idle
  /\ session.step # "idle" => UpToDate
  /\ session.step \in Outside => ~ OpenStart(journal)
  /\ session.step \in Inside => OpenStart(journal)

\* The calls of one kind that an attempt of a node has made.
Made(done, node, attempt, kind) ==
  Cardinality({i \in DOMAIN done : /\ done[i].node = node
                                   /\ done[i].attempt = attempt
                                   /\ done[i].kind = kind})

ModelCalls == Made(effects, Node, Attempt, "model")
ToolCalls == Made(effects, Node, Attempt, "tool")

\* A session s with journal j, in a visit that has made so many calls, knows what its
\* reservation is for and how much it has called.
SessionFits(s, j, node, models, tools) ==
  /\ s.step \in Calling => node \in Agents
  /\ s.step \in {"model", "replied", "overrun", "reserved", "called", "dispatched"} =>
       s.handle \in DOMAIN j
  /\ s.step \in {"model", "replied"} => j[s.handle].kind = "model"
  /\ s.step \in {"reserved", "called", "dispatched"} => j[s.handle].kind = "tool"
  /\ s.step = "loop" => s.turns = 0 /\ s.tools = 0
  /\ s.step \in Calling \cup {"node"} => models = s.turns
  /\ s.step \in BeforeTool => tools = s.tools
  /\ s.step \in AfterTool \/ (s.step = "overrun" /\ j[s.handle].kind = "tool") =>
       tools = s.tools + 1

\* Nothing was called beyond the visits; a session knows how much it has called.
EffectInv ==
  /\ \A i \in DOMAIN effects : effects[i].attempt <= VisitsIn(journal, effects[i].node)
  /\ SessionFits(session, journal, Node, ModelCalls, ToolCalls)

GraphInv == TypeInv /\ WalkInv(journal) /\ FreshInv /\ PlaceInv /\ EffectInv

-----------------------------------------------------------------------------
(* Positions in a journal.                                                 *)

\* Append, position by position.
LEMMA AppendFacts ==
  ASSUME NEW S, NEW j \in Seq(S), NEW e \in S
  PROVE  /\ Append(j, e) \in Seq(S) /\ Len(Append(j, e)) = Len(j) + 1
         /\ DOMAIN Append(j, e) = 1 .. Len(j) + 1 /\ DOMAIN j = 1 .. Len(j)
         /\ Len(j) \in Nat
         /\ \A i \in 1 .. Len(j) : Append(j, e)[i] = j[i]
         /\ Append(j, e)[Len(j) + 1] = e
  BY SMT

\* A bounded set of positions has a last one.
LEMMA GreatestPosition ==
  ASSUME NEW S \in SUBSET Nat, NEW n \in Nat, \A s \in S : s <= n, S # {}
  PROVE  \E m \in S : \A k \in S : k <= m
<1> DEFINE T == {n - s : s \in S}
<1>1. T \in SUBSET Nat /\ T # {}
  <2>1. \A s \in S : n - s \in Nat
    <3>1. \A s \in S : s \in Nat /\ s <= n
      OBVIOUS
    <3> QED
      BY <3>1
  <2> QED
    BY <2>1
<1>2. PICK x \in T : \A y \in T : ~ (<<y, x>> \in OpToRel(<, Nat))
  BY <1>1, NatLessThanWellFounded, WFMin
<1>3. \A y \in T : ~ (y < x)
  BY <1>1, <1>2 DEF OpToRel
<1>4. PICK m \in S : x = n - m
  OBVIOUS
<1>5. ASSUME NEW k \in S PROVE k <= m
  <2>1. n - k \in T /\ ~ (n - k < n - m)
    BY <1>3, <1>4
  <2> QED
    BY <2>1
<1> QED
  BY <1>5

\* Max of positions is the last of them.
LEMMA MaxIsLast ==
  ASSUME NEW n \in Nat, NEW S \in SUBSET (0 .. n), S # {}
  PROVE  Max(S) \in S /\ \A k \in S : k <= Max(S)
<1>1. S \in SUBSET Nat /\ \A s \in S : s <= n
  OBVIOUS
<1>2. \E m \in S : \A k \in S : k <= m
  BY <1>1, GreatestPosition
<1>3. \E m \in S : \A k \in S : m >= k
  BY <1>1, <1>2
<1>4. Max(S) \in S /\ \A k \in S : Max(S) >= k
  BY <1>3 DEF Max
<1> QED
  BY <1>1, <1>4

\* The last outcome is one, or there is none, and no outcome comes after it.
LEMMA LastOutcomeIs ==
  ASSUME NEW S, NEW j \in Seq(S)
  PROVE  /\ LastOutcome(j) \in 0 .. Len(j)
         /\ LastOutcome(j) = 0 \/ LastOutcome(j) \in Of(j, Outcomes)
         /\ \A k \in Of(j, Outcomes) : k <= LastOutcome(j)
<1>1. Of(j, Outcomes) \cup {0} \in SUBSET (0 .. Len(j)) /\ Len(j) \in Nat
  BY DEF Of
<1> QED
  BY <1>1, MaxIsLast DEF LastOutcome

\* There is only one such position.
LEMMA LastOutcomeOnly ==
  ASSUME NEW S, NEW j \in Seq(S), NEW m \in Nat,
         m = 0 \/ m \in Of(j, Outcomes), \A k \in Of(j, Outcomes) : k <= m
  PROVE  LastOutcome(j) = m
<1>1. /\ LastOutcome(j) \in Nat
      /\ LastOutcome(j) = 0 \/ LastOutcome(j) \in Of(j, Outcomes)
      /\ \A k \in Of(j, Outcomes) : k <= LastOutcome(j)
  BY LastOutcomeIs
<1>2. \A k \in Of(j, Outcomes) : k \in Nat /\ k >= 1
  BY DEF Of
<1> QED
  BY <1>1, <1>2

-----------------------------------------------------------------------------
(* What an event that is appended changes.                                 *)

\* The positions of one type.
LEMMA OfGrows ==
  ASSUME NEW S, NEW j \in Seq(S), NEW e \in S, NEW types
  PROVE  /\ Of(Append(j, e), types) =
              IF e.type \in types THEN Of(j, types) \cup {Len(j) + 1} ELSE Of(j, types)
         /\ Of(j, types) \subseteq 1 .. Len(j)
         /\ IsFiniteSet(Of(j, types))
<1>1. Of(j, types) \subseteq 1 .. Len(j)
  BY DEF Of
<1>2. IsFiniteSet(1 .. Len(j))
  BY FS_Interval
<1>3. IsFiniteSet(Of(j, types))
  BY <1>1, <1>2, FS_Subset
<1>4. Of(Append(j, e), types) =
        IF e.type \in types THEN Of(j, types) \cup {Len(j) + 1} ELSE Of(j, types)
  <2> DEFINE k == Append(j, e)
  <2>1. /\ DOMAIN k = 1 .. Len(j) + 1 /\ DOMAIN j = 1 .. Len(j) /\ Len(j) \in Nat
        /\ \A i \in 1 .. Len(j) : k[i] = j[i]
        /\ k[Len(j) + 1] = e
    BY AppendFacts
  <2> HIDE DEF k
  <2>2. \A i : i \in DOMAIN k <=> i \in DOMAIN j \/ i = Len(j) + 1
    BY <2>1
  <2>3. CASE e.type \in types
    <3>1. \A i : i \in Of(k, types) <=> i \in Of(j, types) \/ i = Len(j) + 1
      BY <2>1, <2>2, <2>3 DEF Of
    <3> QED
      BY <2>3, <3>1 DEF k
  <2>4. CASE e.type \notin types
    <3>1. \A i : i \in Of(k, types) <=> i \in Of(j, types)
      BY <2>1, <2>2, <2>4 DEF Of
    <3> QED
      BY <2>4, <3>1 DEF k
  <2> QED
    BY <2>3, <2>4 DEF k
<1> QED
  BY <1>1, <1>3, <1>4

Picked(j, types, n) == {i \in Of(j, types) : j[i].node = n}

\* How many events of a type a node has.
LEMMA CountGrows ==
  ASSUME NEW S, NEW j \in Seq(S), NEW e \in S, NEW types, NEW n
  PROVE  /\ Cardinality(Picked(j, types, n)) \in Nat
         /\ Cardinality(Picked(Append(j, e), types, n)) =
              IF e.type \in types /\ e.node = n THEN Cardinality(Picked(j, types, n)) + 1
              ELSE Cardinality(Picked(j, types, n))
<1> DEFINE k == Append(j, e)
<1>1. /\ Len(j) \in Nat /\ k[Len(j) + 1] = e
      /\ \A i \in 1 .. Len(j) : k[i] = j[i]
  BY AppendFacts
<1>2. /\ Of(k, types) =
           IF e.type \in types THEN Of(j, types) \cup {Len(j) + 1} ELSE Of(j, types)
      /\ Of(j, types) \subseteq 1 .. Len(j)
      /\ IsFiniteSet(Of(j, types))
  BY OfGrows
<1>3. IsFiniteSet(Picked(j, types, n)) /\ Len(j) + 1 \notin Picked(j, types, n)
  <2>1. Picked(j, types, n) \subseteq Of(j, types)
    BY DEF Picked
  <2>2. IsFiniteSet(Picked(j, types, n))
    BY <1>2, <2>1, FS_Subset
  <2> QED
    BY <1>1, <1>2, <2>1, <2>2
<1>4. Picked(k, types, n) =
        IF e.type \in types /\ e.node = n THEN Picked(j, types, n) \cup {Len(j) + 1}
        ELSE Picked(j, types, n)
  <2> HIDE DEF k
  <2>1. \A i \in Of(j, types) : k[i] = j[i]
    BY <1>1, <1>2
  <2>2. CASE e.type \in types /\ e.node = n
    BY <1>1, <1>2, <2>1, <2>2, Zenon DEF Picked
  <2>3. CASE ~ (e.type \in types /\ e.node = n)
    <3>1. \A i : i \in Of(k, types) /\ k[i].node = n => i \in Of(j, types)
      BY <1>1, <1>2, <2>3
    <3>2. \A i : i \in Of(j, types) => i \in Of(k, types)
      BY <1>2
    <3> QED
      BY <2>1, <2>3, <3>1, <3>2, Zenon DEF Picked
  <2> QED
    BY <2>2, <2>3
<1>5. Cardinality(Picked(j, types, n)) \in Nat
  BY <1>3, FS_CardinalityType
<1>6. Cardinality(Picked(j, types, n) \cup {Len(j) + 1}) = Cardinality(Picked(j, types, n)) + 1
  BY <1>3, FS_AddElement
<1> QED
  BY <1>4, <1>5, <1>6

\* Concluded and Visits count events of a type.
LEMMA CountsArePicked ==
  ASSUME NEW j, NEW n
  PROVE  /\ Concluded(j, n) = Cardinality(Picked(j, Outcomes, n))
         /\ VisitsIn(j, n) = Cardinality(Picked(j, {"NODE_STARTED"}, n))
BY DEF Concluded, VisitsIn, Picked

\* Where the traversal is, in a journal with one event more.
LEMMA WalkGrows ==
  ASSUME NEW S, NEW j \in Seq(S), NEW e \in S
  PROVE  /\ LastOutcome(Append(j, e)) =
              IF e.type \in Outcomes THEN Len(j) + 1 ELSE LastOutcome(j)
         /\ OpenStart(Append(j, e)) <=>
              e.type = "NODE_STARTED" \/ (e.type \notin Outcomes /\ OpenStart(j))
         /\ ExpectedNode(Append(j, e)) =
              IF e.type \in Outcomes THEN e.next ELSE ExpectedNode(j)
         /\ ExpectedContext(Append(j, e)) =
              IF e.type \in Outcomes THEN e.context ELSE ExpectedContext(j)
<1> DEFINE k == Append(j, e)
<1>1. /\ k \in Seq(S) /\ Len(j) \in Nat /\ k[Len(j) + 1] = e
      /\ \A i \in 1 .. Len(j) : k[i] = j[i]
  BY AppendFacts
<1>2. \A types :
        /\ Of(k, types) =
             IF e.type \in types THEN Of(j, types) \cup {Len(j) + 1} ELSE Of(j, types)
        /\ Of(j, types) \subseteq 1 .. Len(j)
  BY OfGrows
<1>3. /\ LastOutcome(j) \in 0 .. Len(j)
      /\ LastOutcome(j) = 0 \/ LastOutcome(j) \in Of(j, Outcomes)
      /\ \A i \in Of(j, Outcomes) : i <= LastOutcome(j)
  BY LastOutcomeIs
<1> HIDE DEF k
<1>4. LastOutcome(k) = IF e.type \in Outcomes THEN Len(j) + 1 ELSE LastOutcome(j)
  <2>1. CASE e.type \in Outcomes
    <3>1. Of(k, Outcomes) = Of(j, Outcomes) \cup {Len(j) + 1}
      BY <1>2, <2>1
    <3>2. \A i \in Of(k, Outcomes) : i <= Len(j) + 1
      BY <1>1, <1>2, <3>1
    <3> QED
      BY <1>1, <2>1, <3>1, <3>2, LastOutcomeOnly
  <2>2. CASE e.type \notin Outcomes
    <3>1. Of(k, Outcomes) = Of(j, Outcomes)
      BY <1>2, <2>2
    <3> QED
      BY <1>1, <1>3, <2>2, <3>1, LastOutcomeOnly
  <2> QED
    BY <2>1, <2>2
<1>5. OpenStart(k) <=> e.type = "NODE_STARTED" \/ (e.type \notin Outcomes /\ OpenStart(j))
  <2>1. CASE e.type \in Outcomes
    <3>1. e.type # "NODE_STARTED" /\ Of(k, {"NODE_STARTED"}) = Of(j, {"NODE_STARTED"})
      BY <1>2, <2>1 DEF Outcomes
    <3>2. \A i \in Of(k, {"NODE_STARTED"}) : ~ (i > LastOutcome(k))
      BY <1>1, <1>2, <1>4, <2>1, <3>1
    <3> QED
      BY <2>1, <3>1, <3>2 DEF OpenStart, Since
  <2>2. CASE e.type = "NODE_STARTED"
    <3>1. Len(j) + 1 \in Of(k, {"NODE_STARTED"}) /\ LastOutcome(k) = LastOutcome(j)
      BY <1>2, <1>4, <2>2 DEF Outcomes
    <3>2. Len(j) + 1 > LastOutcome(k)
      BY <1>1, <1>3, <3>1
    <3> QED
      BY <2>2, <3>1, <3>2 DEF OpenStart, Since
  <2>3. CASE e.type \notin Outcomes /\ e.type # "NODE_STARTED"
    <3>1. Of(k, {"NODE_STARTED"}) = Of(j, {"NODE_STARTED"}) /\ LastOutcome(k) = LastOutcome(j)
      BY <1>2, <1>4, <2>3
    <3> QED
      BY <2>3, <3>1 DEF OpenStart, Since
  <2> QED
    BY <2>1, <2>2, <2>3
<1>6. CASE e.type \in Outcomes
  <2>1. LastOutcome(k) = Len(j) + 1 /\ LastOutcome(k) # 0 /\ k[LastOutcome(k)] = e
    BY <1>1, <1>4, <1>6
  <2> QED
    BY <1>4, <1>5, <1>6, <2>1 DEF ExpectedNode, ExpectedContext, k
<1>7. CASE e.type \notin Outcomes
  <2>1. LastOutcome(k) = LastOutcome(j)
    BY <1>4, <1>7
  <2>2. LastOutcome(j) # 0 => k[LastOutcome(j)] = j[LastOutcome(j)]
    BY <1>1, <1>3
  <2> QED
    BY <1>4, <1>5, <1>7, <2>1, <2>2 DEF ExpectedNode, ExpectedContext, k
<1> QED
  BY <1>6, <1>7

-----------------------------------------------------------------------------
(* A journal that goes on without moving the traversal.                    *)

Extends(j, k) ==
  /\ JournalIsTyped(k)
  /\ Len(j) \in Nat /\ Len(k) \in Nat /\ Len(j) <= Len(k)
  /\ \A i \in DOMAIN j : i \in DOMAIN k /\ k[i] = j[i]
  /\ Of(k, NodeEvents) = Of(j, NodeEvents)
  /\ LastOutcome(k) = LastOutcome(j)
  /\ OpenStart(k) = OpenStart(j)
  /\ ExpectedNode(k) = ExpectedNode(j)
  /\ ExpectedContext(k) = ExpectedContext(j)
  /\ \A n \in Nodes : Concluded(k, n) = Concluded(j, n) /\ VisitsIn(k, n) = VisitsIn(j, n)

\* A journal that stays.
LEMMA StaysExtends ==
  ASSUME NEW j, JournalIsTyped(j)
  PROVE  Extends(j, j)
<1>1. Len(j) \in Nat
  BY DEF JournalIsTyped
<1> QED
  BY <1>1 DEF Extends

\* An appended event that is neither a start nor an outcome.
LEMMA AppendExtends ==
  ASSUME NEW j, JournalIsTyped(j), NEW e, EventIsTyped(e), e.type \notin NodeEvents
  PROVE  Extends(j, Append(j, e)) /\ Len(Append(j, e)) = Len(j) + 1
                                  /\ Append(j, e)[Len(j) + 1] = e
<1> DEFINE k == Append(j, e)
<1>1. PICK S0 : j \in Seq(S0)
  BY DEF JournalIsTyped
<1> DEFINE S == S0 \cup {e}
<1>2. j \in Seq(S) /\ e \in S
  BY <1>1, SeqMonotonic
<1> HIDE DEF S
<1>3. /\ k \in Seq(S) /\ Len(k) = Len(j) + 1
      /\ DOMAIN k = 1 .. Len(j) + 1 /\ DOMAIN j = 1 .. Len(j) /\ Len(j) \in Nat
      /\ \A i \in 1 .. Len(j) : k[i] = j[i]
      /\ k[Len(j) + 1] = e
  BY <1>2, AppendFacts
<1>4. /\ LastOutcome(k) = LastOutcome(j) /\ OpenStart(k) = OpenStart(j)
      /\ ExpectedNode(k) = ExpectedNode(j) /\ ExpectedContext(k) = ExpectedContext(j)
  <2>1. e.type \notin Outcomes /\ e.type # "NODE_STARTED"
    BY DEF NodeEvents
  <2>2. OpenStart(k) <=> OpenStart(j)
    BY <1>2, <2>1, WalkGrows
  <2>3. OpenStart(k) \in BOOLEAN /\ OpenStart(j) \in BOOLEAN
    BY DEF OpenStart
  <2> QED
    BY <1>2, <2>1, <2>2, <2>3, WalkGrows
<1>5. ASSUME NEW n \in Nodes
      PROVE  Concluded(k, n) = Concluded(j, n) /\ VisitsIn(k, n) = VisitsIn(j, n)
  <2>1. e.type \notin Outcomes /\ e.type \notin {"NODE_STARTED"}
    BY DEF NodeEvents
  <2> QED
    BY <1>2, <2>1, CountGrows, CountsArePicked
<1>6. Of(k, NodeEvents) = Of(j, NodeEvents)
  BY <1>2, OfGrows
<1> HIDE DEF k
<1>7. JournalIsTyped(k)
  <2>1. \A i \in DOMAIN k : EventIsTyped(k[i])
    <3> SUFFICES ASSUME NEW i \in DOMAIN k PROVE EventIsTyped(k[i])
      OBVIOUS
    <3>1. i \in 1 .. Len(j) \/ i = Len(j) + 1
      BY <1>3
    <3> QED
      BY <1>3, <3>1 DEF JournalIsTyped
  <2> QED
    BY <1>3, <2>1 DEF JournalIsTyped
<1>8. Len(k) \in Nat /\ Len(j) <= Len(k) /\ \A i \in DOMAIN j : i \in DOMAIN k /\ k[i] = j[i]
  BY <1>3
<1> QED
  BY <1>3, <1>4, <1>5, <1>6, <1>7, <1>8 DEF Extends, k

\* One event after the other.
LEMMA ExtendsTwice ==
  ASSUME NEW j, NEW k, NEW l, Extends(j, k), Extends(k, l)
  PROVE  Extends(j, l)
BY DEF Extends

\* What the journal says of the traversal stays true.
LEMMA ExtendsKeepsWalk ==
  ASSUME NEW j, NEW k, JournalIsTyped(j), WalkInv(j), Extends(j, k)
  PROVE  WalkInv(k)
<1>1. PICK S : j \in Seq(S)
  BY DEF JournalIsTyped
<1>2. LastOutcome(j) # 0 => LastOutcome(j) \in DOMAIN j /\ j[LastOutcome(j)].node \in Nodes
  <2>1. LastOutcome(j) # 0 => LastOutcome(j) \in Of(j, Outcomes)
    BY <1>1, LastOutcomeIs
  <2> QED
    BY <2>1 DEF Of, JournalIsTyped, EventIsTyped, NodeEvents
<1>3. LastOutcome(k) # 0 =>
        k[LastOutcome(k)].attempt = Concluded(k, k[LastOutcome(k)].node)
  BY <1>2 DEF Extends, WalkInv
<1> QED
  BY <1>3 DEF Extends, WalkInv

\* A step that Traversal does not see.
Quiet == Extends(journal, journal') /\ effects' = effects

\* A quiet step is a stutter of the traversal.
LEMMA QuietStutters == Quiet => UNCHANGED Walk!walk
<1> SUFFICES ASSUME Quiet PROVE UNCHANGED Walk!walk
  OBVIOUS
<1>1. \A n \in Nodes : Visits(n)' = Visits(n)
  BY DEF Quiet, Extends, Visits, VisitsIn
<1>2. [n \in Nodes |-> Visits(n)]' = [n \in Nodes |-> Visits(n)]
  BY <1>1
<1> QED
  BY <1>2 DEF Quiet, Extends, Walk!walk

-----------------------------------------------------------------------------
(* Steps that do not move the traversal.                                   *)

\* The record may follow the journal as long as it does not come back to a fresh state.
RecordFollows(r) ==
  /\ r \in Record
  /\ r.state \in Fresh => record.state \in Fresh /\ r.attempts = record.attempts

\* The calls made are by agents.
LEMMA EffectFacts ==
  ASSUME TypeInv
  PROVE  /\ Len(effects) \in Nat /\ DOMAIN effects = 1 .. Len(effects)
         /\ \A i \in DOMAIN effects : effects[i] \in Effect /\ effects[i].node \in Nodes
<1>1. effects \in Seq(Effect)
  BY DEF TypeInv
<1>2. DOMAIN effects = 1 .. Len(effects) /\ Len(effects) \in Nat
  BY <1>1, LenProperties
<1>3. \A i \in DOMAIN effects : effects[i] \in Effect
  BY <1>1, <1>2, ElementOfSeq
<1>4. \A e \in Effect : e.node \in Nodes
  BY GraphIsCompiled DEF Effect
<1> QED
  BY <1>2, <1>3, <1>4

\* The session ends.
LEMMA EndKeeps ==
  ASSUME GraphInv, Quiet, session' = Idle, RecordFollows(record'), faults' \in 0 .. MaxFaults
  PROVE  GraphInv'
<1>1. JournalIsTyped(journal') /\ WalkInv(journal')
  BY ExtendsKeepsWalk DEF GraphInv, TypeInv, Quiet, Extends
<1>2. Idle \in Session /\ Idle.handle = 0 /\ Idle.step = "idle"
  BY DEF Idle, At, None, Session, Contexts, Steps, Replies, Results
<1>3. TypeInv'
  BY <1>1, <1>2 DEF GraphInv, TypeInv, Quiet, Extends, RecordFollows
<1>4. FreshInv'
  BY <1>2 DEF GraphInv, FreshInv, Quiet, Extends, RecordFollows
<1>5. PlaceInv'
  BY <1>2 DEF PlaceInv, Outside, Inside
<1>6. EffectInv'
  <2>1. \A i \in DOMAIN effects : effects[i].node \in Nodes
    BY EffectFacts DEF GraphInv
  <2>2. \A i \in DOMAIN effects' : effects'[i].attempt <= VisitsIn(journal', effects'[i].node)
    BY <2>1 DEF GraphInv, EffectInv, Quiet, Extends
  <2>3. \A node, models, tools : SessionFits(Idle, journal', node, models, tools)
    BY <1>2 DEF SessionFits, Calling, BeforeTool, AfterTool
  <2> QED
    BY <2>2, <2>3 DEF EffectInv
<1> QED
  BY <1>1, <1>3, <1>4, <1>5, <1>6 DEF GraphInv

\* The session goes on, outside or inside the same visit.
LEMMA StayKeeps ==
  ASSUME GraphInv, Quiet, session.step # "idle",
         record' \in Record, record'.node = record.node, record'.attempts = record.attempts,
         record'.state \notin Fresh, faults' \in 0 .. MaxFaults,
         session' \in Session, session'.handle <= Len(journal'), session'.step # "idle",
         session'.step \in Outside <=> session.step \in Outside,
         SessionFits(session', journal', Node, ModelCalls, ToolCalls)
  PROVE  GraphInv'
<1>1. JournalIsTyped(journal') /\ WalkInv(journal')
  BY ExtendsKeepsWalk DEF GraphInv, TypeInv, Quiet, Extends
<1>2. TypeInv'
  BY <1>1 DEF GraphInv, TypeInv, Quiet, Extends
<1>3. FreshInv'
  BY DEF FreshInv
<1>4. PlaceInv'
  <2>1. UpToDate'
    BY DEF GraphInv, PlaceInv, UpToDate, Quiet, Extends
  <2>2. session.step \in Outside \cup Inside
    BY DEF GraphInv, TypeInv, Session, Inside
  <2> QED
    BY <2>1, <2>2 DEF GraphInv, PlaceInv, Quiet, Extends, Inside
<1>5. EffectInv'
  <2>1. \A i \in DOMAIN effects : effects[i].node \in Nodes
    BY EffectFacts DEF GraphInv
  <2>2. \A i \in DOMAIN effects' : effects'[i].attempt <= VisitsIn(journal', effects'[i].node)
    BY <2>1 DEF GraphInv, EffectInv, Quiet, Extends
  <2>3. Node' = Node /\ ModelCalls' = ModelCalls /\ ToolCalls' = ToolCalls
    BY DEF Node, Attempt, ModelCalls, ToolCalls, Quiet
  <2> QED
    BY <2>2, <2>3 DEF EffectInv
<1> QED
  BY <1>1, <1>2, <1>3, <1>4, <1>5 DEF GraphInv

\* A session takes the traversal up where the journal leads.
LEMMA BeginKeeps ==
  ASSUME GraphInv, Quiet, NEW payload \in Nat, NEW context \in Contexts,
         session' = At("loop", payload, context), ~ OpenStart(journal),
         record' \in Record, record'.state \notin Fresh, UpToDate', faults' \in 0 .. MaxFaults
  PROVE  GraphInv'
<1>1. JournalIsTyped(journal') /\ WalkInv(journal')
  BY ExtendsKeepsWalk DEF GraphInv, TypeInv, Quiet, Extends
<1>2. /\ session' \in Session /\ session'.handle = 0 /\ session'.step = "loop"
      /\ session'.turns = 0 /\ session'.tools = 0
  BY DEF At, Session, Steps, Replies, Results
<1>3. TypeInv'
  BY <1>1, <1>2 DEF GraphInv, TypeInv, Quiet, Extends
<1>4. FreshInv'
  BY DEF FreshInv
<1>5. PlaceInv'
  BY <1>2 DEF PlaceInv, Quiet, Extends, Outside, Inside
<1>6. EffectInv'
  <2>1. \A i \in DOMAIN effects : effects[i].node \in Nodes
    BY EffectFacts DEF GraphInv
  <2>2. \A i \in DOMAIN effects' : effects'[i].attempt <= VisitsIn(journal', effects'[i].node)
    BY <2>1 DEF GraphInv, EffectInv, Quiet, Extends
  <2>3. \A node, models, tools : SessionFits(session', journal', node, models, tools)
    BY <1>2 DEF SessionFits, Calling, BeforeTool, AfterTool
  <2> QED
    BY <2>2, <2>3 DEF EffectInv
<1> QED
  BY <1>1, <1>3, <1>4, <1>5, <1>6 DEF GraphInv

\* An event that is appended, whatever becomes of the record.
LEMMA WriteIsQuiet ==
  ASSUME GraphInv, NEW e, journal' = Append(journal, e), effects' = effects,
         EventIsTyped(e), e.type \notin NodeEvents
  PROVE  /\ Quiet /\ Len(journal') = Len(journal) + 1 /\ journal'[Len(journal) + 1] = e
         /\ Len(journal) + 1 \in DOMAIN journal'
<1>1. JournalIsTyped(journal)
  BY DEF GraphInv, TypeInv
<1>2. Quiet /\ Len(journal') = Len(journal) + 1 /\ journal'[Len(journal) + 1] = e
  BY <1>1, AppendExtends DEF Quiet
<1>3. DOMAIN journal' = 1 .. Len(journal') /\ Len(journal) \in Nat
  BY <1>2 DEF Quiet, Extends, JournalIsTyped
<1> QED
  BY <1>2, <1>3

\* A journal that stays.
LEMMA NothingIsQuiet ==
  ASSUME GraphInv, journal' = journal, effects' = effects
  PROVE  Quiet
BY StaysExtends DEF Quiet, GraphInv, TypeInv

\* An event is written ahead of the record, and the session may die in between.
LEMMA WriteAheadKeeps ==
  ASSUME GraphInv, NEW e, NEW r, WriteAhead(e, r, Idle),
         EventIsTyped(e), e.type \notin NodeEvents, RecordFollows(r)
  PROVE  GraphInv' /\ Quiet
<1>1. Quiet
  BY WriteIsQuiet DEF WriteAhead
<1>2. RecordFollows(record') /\ faults' \in 0 .. MaxFaults /\ session' = Idle
  BY LoopIsBounded DEF WriteAhead, RecordFollows, GraphInv, TypeInv
<1> QED
  BY <1>1, <1>2, EndKeeps

\* A transition into a state that is not fresh, after which the session ends.
LEMMA TransitionIsTyped ==
  ASSUME GraphInv, NEW to \in State \ Fresh, NEW node \in Places, NEW attempt
  PROVE  /\ EventIsTyped(Transitioned(to, node, attempt))
         /\ Transitioned(to, node, attempt).type \notin NodeEvents
         /\ [record EXCEPT !.state = to, !.revision = @ + 1] \in Record
         /\ [record EXCEPT !.state = to, !.revision = @ + 1].state = to
         /\ [record EXCEPT !.state = to, !.revision = @ + 1].node = record.node
         /\ [record EXCEPT !.state = to, !.revision = @ + 1].attempts = record.attempts
<1>1. record \in Record /\ record.revision + 1 \in Nat
  BY DEF GraphInv, TypeInv, Record
<1>2. EventIsTyped(Transitioned(to, node, attempt))
  BY <1>1 DEF EventIsTyped, Transitioned, NodeEvents, Outcomes, Approvals
<1>3. Transitioned(to, node, attempt).type \notin NodeEvents
  BY DEF Transitioned, NodeEvents, Outcomes
<1>4. [record EXCEPT !.state = to, !.revision = @ + 1] \in Record
  BY <1>1 DEF Record
<1> QED
  BY <1>1, <1>2, <1>3, <1>4 DEF Record

\* A transition that is written ahead and saved, to a state after the first ones.
LEMMA TransitionKeeps ==
  ASSUME GraphInv, NEW to \in State \ Fresh, NEW node \in Places, NEW attempt,
         TransitionTo(to, node, attempt, Idle)
  PROVE  GraphInv' /\ Quiet
<1> DEFINE r == [record EXCEPT !.state = to, !.revision = @ + 1]
<1>1. WriteAhead(Transitioned(to, node, attempt), r, Idle)
  BY DEF TransitionTo
<1>2. RecordFollows(r)
  BY TransitionIsTyped DEF RecordFollows
<1> QED
  BY <1>1, <1>2, TransitionIsTyped, WriteAheadKeeps

\* The session's place is where the record is; it is a node but for the terminals.
LEMMA SessionFacts ==
  ASSUME GraphInv, session.step # "idle"
  PROVE  /\ UpToDate /\ Node \in Places /\ record.state \notin Fresh
         /\ session.step \in Inside => Node \in Nodes
         /\ Node \in Nodes => Attempt = Concluded(journal, Node) + 1 /\ Attempt \in Nat
         /\ session \in Session
<1>1. UpToDate /\ record.state \notin Fresh /\ record \in Record /\ session \in Session
  BY DEF GraphInv, PlaceInv, FreshInv, TypeInv
<1>2. Node \in Places
  BY <1>1 DEF Node, Record
<1>3. session.step \in Inside => Node \in Nodes
  BY <1>1 DEF GraphInv, PlaceInv, WalkInv, UpToDate, Node
<1>4. Node \in Nodes => Attempt = Concluded(journal, Node) + 1 /\ Attempt \in Nat
  BY <1>1 DEF UpToDate, Attempt, Node, Record
<1> QED
  BY <1>1, <1>2, <1>3, <1>4

-----------------------------------------------------------------------------
(* Sessions begin, and commands of the lifecycle in between.               *)

\* recover of the state machine.
LEMMA RecoverStateKeeps == GraphInv /\ RecoverState => GraphInv' /\ Quiet
<1> SUFFICES ASSUME GraphInv, RecoverState PROVE GraphInv' /\ Quiet
  OBVIOUS
<1>1. Quiet
  BY NothingIsQuiet DEF RecoverState
<1>2. PICK i \in PendingTransition :
        record' = [record EXCEPT !.state = journal[i].to, !.revision = @ + 1]
  BY DEF RecoverState
<1>3. journal[i].to \in State \ Fresh
  BY DEF PendingTransition, Of, GraphInv, TypeInv, JournalIsTyped, EventIsTyped
<1>4. record \in Record /\ record.revision + 1 \in Nat
  BY DEF GraphInv, TypeInv, Record
<1>5. RecordFollows(record')
  BY <1>2, <1>3, <1>4 DEF Record, RecordFollows
<1>6. session' = Idle /\ faults' \in 0 .. MaxFaults
  BY DEF RecoverState, GraphInv, PlaceInv, TypeInv
<1> QED
  BY <1>1, <1>5, <1>6, EndKeeps

\* What the record shows of an approval.
LEMMA ShownFollows ==
  ASSUME GraphInv
  PROVE  /\ RecordFollows(ApprovalShown)
         /\ ApprovalShown.node = record.node /\ ApprovalShown.attempts = record.attempts
         /\ ApprovalShown.state = record.state
<1>1. record \in Record /\ record.revision + 1 \in Nat
  BY DEF GraphInv, TypeInv, Record
<1>2. Status(LatestOf(Approvals)) \in {"NOT_REQUIRED", "PENDING", "APPROVED"}
  BY DEF Status
<1> QED
  BY <1>1, <1>2 DEF Record, RecordFollows, ApprovalShown

\* The recovery of an approval brings the record up to date and writes no event.
LEMMA RecoverApprovalKeeps == GraphInv /\ RecoverApproval => GraphInv' /\ Quiet
<1> SUFFICES ASSUME GraphInv, RecoverApproval PROVE GraphInv' /\ Quiet
  OBVIOUS
<1>1. Quiet
  BY NothingIsQuiet DEF RecoverApproval
<1>2. session' = Idle /\ faults' \in 0 .. MaxFaults
  BY DEF RecoverApproval, GraphInv, PlaceInv, TypeInv
<1>3. record' = ApprovalShown
  BY DEF RecoverApproval
<1> QED
  BY <1>1, <1>2, <1>3, ShownFollows, EndKeeps

\* A grant repeats the request that is waiting.
LEMMA GrantIsTyped ==
  ASSUME GraphInv, Approve
  PROVE  \E e, r : /\ WriteAhead(e, r, Idle)
                   /\ EventIsTyped(e) /\ e.type = "EXECUTION_APPROVED"
                   /\ RecordFollows(r)
<1>1. PICK S : journal \in Seq(S)
  BY DEF GraphInv, TypeInv, JournalIsTyped
<1>2. Len(journal) \in Nat /\ \A types : Of(journal, types) \in SUBSET (1 .. Len(journal))
  BY <1>1 DEF Of
<1> DEFINE committed == Of(journal, Approvals) \ PendingApproval
           requests == Of(journal, {"APPROVAL_REQUESTED"})
<1>3. requests # {}
  <2>1. committed # {} /\ Status(journal[Max(committed)]) = "PENDING"
    BY DEF Approve, Recovered, ApprovalHistoryHolds
  <2>2. committed \in SUBSET (0 .. Len(journal))
    BY <1>2
  <2>3. Max(committed) \in committed
    BY <1>2, <2>1, <2>2, MaxIsLast
  <2>4. journal[Max(committed)].type = "APPROVAL_REQUESTED"
    BY <2>1 DEF Status
  <2> HIDE DEF committed
  <2>5. committed \subseteq DOMAIN journal
    BY DEF committed, Of
  <2> QED
    BY <2>3, <2>4, <2>5 DEF Of
<1> DEFINE request == LatestOf({"APPROVAL_REQUESTED"})
<1>4. EventIsTyped(request) /\ request.type = "APPROVAL_REQUESTED"
  <2>1. requests \in SUBSET (0 .. Len(journal))
    BY <1>2
  <2>2. Max(requests) \in requests
    BY <1>2, <1>3, <2>1, MaxIsLast
  <2> HIDE DEF requests
  <2>3. \A i \in requests : EventIsTyped(journal[i]) /\ journal[i].type = "APPROVAL_REQUESTED"
    BY DEF requests, Of, GraphInv, TypeInv, JournalIsTyped
  <2>4. request = journal[Max(requests)]
    BY DEF requests, LatestOf
  <2> QED
    BY <2>2, <2>3, <2>4
<1> DEFINE event == [request EXCEPT !.type = "EXECUTION_APPROVED",
                                    !.revision = record.revision + 1]
           r == [record EXCEPT !.revision = @ + 1, !.approval = "APPROVED"]
<1>5. WriteAhead(event, r, Idle)
  BY DEF Approve
<1>6. record \in Record /\ record.revision + 1 \in Nat
  BY DEF GraphInv, TypeInv, Record
<1>7. RecordFollows(r)
  BY <1>6 DEF RecordFollows, Record
<1> HIDE DEF request
<1>8. /\ DOMAIN request = {"type", "node", "subject", "revision"}
      /\ request.node \in Places
  BY <1>4 DEF EventIsTyped, Approvals
<1>9. /\ DOMAIN event = {"type", "node", "subject", "revision"}
      /\ event.type = "EXECUTION_APPROVED" /\ event.node = request.node
      /\ event.revision = record.revision + 1
  BY <1>8
<1> HIDE DEF event
<1>10. EventIsTyped(event)
  BY <1>6, <1>8, <1>9 DEF EventIsTyped, NodeEvents, Outcomes, Approvals
<1> HIDE DEF r
<1> QED
  BY <1>5, <1>7, <1>9, <1>10

\* An approver writes a grant and no node event.
LEMMA ApproveKeeps == GraphInv /\ Approve => GraphInv' /\ Quiet
<1> SUFFICES ASSUME GraphInv, Approve PROVE GraphInv' /\ Quiet
  OBVIOUS
<1>1. PICK e, r : /\ WriteAhead(e, r, Idle)
                  /\ EventIsTyped(e) /\ e.type = "EXECUTION_APPROVED"
                  /\ RecordFollows(r)
  BY GrantIsTyped
<1>2. e.type \notin NodeEvents
  BY <1>1 DEF NodeEvents, Outcomes
<1> QED
  BY <1>1, <1>2, WriteAheadKeeps

\* The states the executor moves into are none that a graph starts from.
LEMMA LaterStates ==
  {"EXECUTING", "PAUSED_AWAITING_APPROVAL", "VERIFYING", "FAILED", "FAILED_BUDGET_EXCEEDED",
   "FAILED_RETRY_EXHAUSTED"} \subseteq State \ Fresh
BY DEF State, Blocked, Terminal, Fresh

\* The session of resume that prepares moves the state only.
LEMMA PrepareResumeKeeps == GraphInv /\ PrepareResume => GraphInv' /\ Quiet
<1> SUFFICES ASSUME GraphInv, PrepareResume PROVE GraphInv' /\ Quiet
  OBVIOUS
<1>1. record.node \in Places
  BY DEF GraphInv, TypeInv, Record
<1>2. PICK to \in {"PAUSED_AWAITING_APPROVAL", "EXECUTING"} :
        TransitionTo(to, record.node, record.attempts[record.node] + 1, Idle)
  BY DEF PrepareResume
<1> QED
  BY <1>1, <1>2, LaterStates, TransitionKeeps

\* execute finds a journal without a visit, so that it begins where that leads.
LEMMA ExecuteKeeps == GraphInv /\ Execute => GraphInv' /\ Quiet
<1> SUFFICES ASSUME GraphInv, Execute PROVE GraphInv' /\ Quiet
  OBVIOUS
<1> DEFINE e == Transitioned("EXECUTING", Entry, record.attempts[Entry] + 1)
           r == [record EXCEPT !.state = "EXECUTING", !.revision = @ + 1]
<1>1. WriteAhead(e, r, At("loop", 0, None))
  BY DEF Execute, TransitionTo
<1>2. "EXECUTING" \in State \ Fresh /\ Entry \in Places
  BY LaterStates, GraphIsCompiled DEF Places
<1>3. /\ EventIsTyped(e) /\ e.type \notin NodeEvents
      /\ r \in Record /\ r.state = "EXECUTING" /\ r.node = record.node
      /\ r.attempts = record.attempts
  BY <1>2, TransitionIsTyped
<1> HIDE DEF e, r
<1>4. Quiet
  BY <1>1, <1>3, WriteIsQuiet DEF WriteAhead
<1>5. CASE record' = r /\ session' = At("loop", 0, None) /\ UNCHANGED faults
  <2>1. Of(journal, NodeEvents) = {}
    BY DEF GraphInv, FreshInv, Execute, Fresh
  <2>2. PICK S : journal \in Seq(S)
    BY DEF GraphInv, TypeInv, JournalIsTyped
  <2>3. Of(journal, Outcomes) = {} /\ Of(journal, {"NODE_STARTED"}) = {}
    BY <2>1 DEF Of, NodeEvents
  <2>4. LastOutcome(journal) = 0
    BY <2>2, <2>3, LastOutcomeOnly
  <2>5. ~ OpenStart(journal) /\ ExpectedNode(journal) = Entry
    BY <2>3, <2>4 DEF OpenStart, Since, ExpectedNode
  <2>6. \A n \in Nodes : Concluded(journal, n) = 0
    <3>1. \A n \in Nodes : {i \in Of(journal, Outcomes) : journal[i].node = n} = {}
      BY <2>3
    <3> QED
      BY <3>1, FS_EmptySet DEF Concluded
  <2>7. \A n \in Nodes : record.attempts[n] = 0
    BY DEF GraphInv, FreshInv, Execute, Fresh
  <2>8. UpToDate'
    BY <1>3, <1>4, <1>5, <2>5, <2>6, <2>7 DEF UpToDate, Quiet, Extends, Execute
  <2>9. record' \in Record /\ record'.state \notin Fresh /\ faults' \in 0 .. MaxFaults
    BY <1>2, <1>3, <1>5 DEF GraphInv, TypeInv
  <2>10. None \in Contexts
    BY DEF None, Contexts
  <2> QED
    BY <1>4, <1>5, <2>5, <2>8, <2>9, <2>10, BeginKeeps
<1>6. CASE faults < MaxFaults /\ faults' = faults + 1 /\ session' = Idle /\ UNCHANGED record
  <2>1. RecordFollows(record')
    BY <1>6 DEF RecordFollows, GraphInv, TypeInv
  <2>2. faults' \in 0 .. MaxFaults
    BY <1>6, LoopIsBounded DEF GraphInv, TypeInv
  <2> QED
    BY <1>4, <1>6, <2>1, <2>2, EndKeeps
<1> QED
  BY <1>1, <1>4, <1>5, <1>6 DEF WriteAhead

\* resume brings the record to where the journal leads: the outcome that it lacks is the
\* last one, in the attempt that the journal counts.
LEMMA ResumeKeeps == GraphInv /\ Resume => GraphInv' /\ Quiet
<1> SUFFICES ASSUME GraphInv, Resume PROVE GraphInv' /\ Quiet
  OBVIOUS
<1> DEFINE last == LastOutcome(journal)
<1>1. Quiet
  BY NothingIsQuiet DEF Resume
<1>2. PICK S : journal \in Seq(S)
  BY DEF GraphInv, TypeInv, JournalIsTyped
<1>3. /\ last \in Nat
      /\ last # 0 => last \in DOMAIN journal /\ journal[last].type \in Outcomes
  BY <1>2, LastOutcomeIs DEF Of
<1> HIDE DEF last
<1>4. record \in Record /\ record.state = "EXECUTING" /\ SnapshotAgrees(journal)
  BY DEF Resume, Replays, GraphInv, TypeInv
<1>5. record' \in Record /\ record'.state = "EXECUTING" /\ UpToDate'
  <2>1. CASE IsPending(journal)
    <3>1. last # 0 /\ record' = NextRecord(journal[last])
      BY <2>1 DEF Resume, IsPending, last
    <3> DEFINE e == journal[last]
    <3>2. /\ e.node \in Nodes /\ e.attempt \in Nat /\ e.next \in Places
          /\ e.revision \in Nat
      BY <1>3, <3>1 DEF GraphInv, TypeInv, JournalIsTyped, EventIsTyped, NodeEvents
    <3>3. e.attempt = Concluded(journal, e.node) /\ ExpectedNode(journal) = e.next
      BY <3>1 DEF GraphInv, WalkInv, ExpectedNode, last
    <3>4. \A n \in Nodes \ {e.node} : record.attempts[n] = Concluded(journal, n)
      BY <1>4 DEF SnapshotAgrees, last
    <3> HIDE DEF e
    <3>5. /\ record' \in Record /\ record'.state = "EXECUTING" /\ record'.node = e.next
          /\ record'.attempts = [record.attempts EXCEPT ![e.node] = e.attempt]
      BY <1>4, <3>1, <3>2 DEF NextRecord, Record, e
    <3>6. \A n \in Nodes : record'.attempts[n] = Concluded(journal, n)
      BY <1>4, <3>2, <3>3, <3>4, <3>5 DEF Record
    <3> QED
      BY <1>1, <3>3, <3>5, <3>6 DEF UpToDate, Quiet, Extends
  <2>2. CASE ~ IsPending(journal)
    <3>1. record' = record
      BY <2>2 DEF Resume
    <3>2. UpToDate
      BY <1>4, <2>2 DEF SnapshotAgrees, UpToDate
    <3> QED
      BY <1>1, <1>4, <3>1, <3>2 DEF UpToDate, Quiet, Extends
  <2> QED
    BY <2>1, <2>2
<1>6. /\ session' = At("loop", last, ExpectedContext(journal)) /\ ~ OpenStart(journal)
      /\ faults' \in 0 .. MaxFaults
  BY DEF Resume, last, GraphInv, TypeInv
<1>7. ExpectedContext(journal) \in Contexts /\ "EXECUTING" \notin Fresh
  BY DEF GraphInv, WalkInv, Fresh
<1> QED
  BY <1>1, <1>3, <1>5, <1>6, <1>7, BeginKeeps

-----------------------------------------------------------------------------
(* Between two visits.                                                     *)

\* A refused visit ends the session.
LEMMA RefuseVisitKeeps == GraphInv /\ RefuseVisit => GraphInv' /\ Quiet
<1> SUFFICES ASSUME GraphInv, RefuseVisit PROVE GraphInv' /\ Quiet
  OBVIOUS
<1>1. Quiet
  BY NothingIsQuiet DEF RefuseVisit
<1>2. RecordFollows(record') /\ faults' \in 0 .. MaxFaults /\ session' = Idle
  BY DEF RefuseVisit, RecordFollows, GraphInv, TypeInv
<1> QED
  BY <1>1, <1>2, EndKeeps

\* Exhausted retries end the traversal where it stands.
LEMMA ExhaustRetriesKeeps == GraphInv /\ ExhaustRetries => GraphInv' /\ Quiet
<1> SUFFICES ASSUME GraphInv, ExhaustRetries PROVE GraphInv' /\ Quiet
  OBVIOUS
<1>1. TransitionTo("FAILED_RETRY_EXHAUSTED", Node, Attempt - 1, Idle) /\ Node \in Places
  BY SessionFacts DEF ExhaustRetries, InLoop
<1> QED
  BY <1>1, LaterStates, TransitionKeeps

\* The pause moves the state only.
LEMMA PauseForApprovalKeeps == GraphInv /\ PauseForApproval => GraphInv' /\ Quiet
<1> SUFFICES ASSUME GraphInv, PauseForApproval PROVE GraphInv' /\ Quiet
  OBVIOUS
<1>1. TransitionTo("PAUSED_AWAITING_APPROVAL", Node, Attempt, Idle) /\ Node \in Places
  BY SessionFacts DEF PauseForApproval
<1> QED
  BY <1>1, LaterStates, TransitionKeeps

\* An excess ends the traversal where it stands.
LEMMA ExceedBudgetKeeps == GraphInv /\ ExceedBudget => GraphInv' /\ Quiet
<1> SUFFICES ASSUME GraphInv, ExceedBudget PROVE GraphInv' /\ Quiet
  OBVIOUS
<1>1. TransitionTo("FAILED_BUDGET_EXCEEDED", Node, Attempt, Idle)
  BY DEF ExceedBudget
<1>2. session.step # "idle"
  BY DEF ExceedBudget
<1>3. Node \in Places
  BY <1>2, SessionFacts
<1> QED
  BY <1>1, <1>3, LaterStates, TransitionKeeps

\* A terminal ends the traversal where it stands.
LEMMA ResolveTerminalKeeps == GraphInv /\ ResolveTerminal => GraphInv' /\ Quiet
<1> SUFFICES ASSUME GraphInv, ResolveTerminal PROVE GraphInv' /\ Quiet
  OBVIOUS
<1>1. PICK to \in {"VERIFYING", "FAILED"} : TransitionTo(to, Node, 0, Idle)
  BY DEF ResolveTerminal
<1>2. Node \in Places
  BY DEF ResolveTerminal, Places
<1> QED
  BY <1>1, <1>2, LaterStates, TransitionKeeps

\* A session that calls nothing any more: nothing to say of its calls.
LEMMA RestFits ==
  ASSUME NEW s, s.step \in {"asked", "denied", "result", "raised"}, NEW j, NEW node, NEW models, NEW tools
  PROVE  SessionFits(s, j, node, models, tools)
BY DEF SessionFits, Calling, BeforeTool, AfterTool

\* A request is no node event, and its session stays outside of a visit.
LEMMA RequestApprovalKeeps == GraphInv /\ RequestApproval => GraphInv' /\ Quiet
<1> SUFFICES ASSUME GraphInv, RequestApproval PROVE GraphInv' /\ Quiet
  OBVIOUS
<1>1. session.step = "loop" /\ Node \in Nodes
  BY DEF RequestApproval, Visiting, InLoop
<1>2. UpToDate /\ record.state \notin Fresh /\ session \in Session
  BY <1>1, SessionFacts
<1>3. record \in Record /\ record.revision + 1 \in Nat
  BY DEF GraphInv, TypeInv, Record
<1> DEFINE e == [type |-> "APPROVAL_REQUESTED", node |-> Node,
                 subject |-> Subject(Node, session.payload), revision |-> record.revision + 1]
           r == [record EXCEPT !.revision = @ + 1, !.approval = "PENDING"]
<1>4. EventIsTyped(e) /\ e.type \notin NodeEvents
  BY <1>1, <1>3 DEF EventIsTyped, NodeEvents, Outcomes, Approvals, Places
<1>5. /\ r \in Record /\ r.node = record.node /\ r.attempts = record.attempts
      /\ r.state = record.state
  BY <1>3 DEF Record
<1> HIDE DEF e, r
<1>6. CASE session' = Idle /\ UNCHANGED <<record, journal, effects, faults>>
  <2>1. Quiet
    BY <1>6, NothingIsQuiet
  <2>2. RecordFollows(record') /\ faults' \in 0 .. MaxFaults
    BY <1>6 DEF RecordFollows, GraphInv, TypeInv
  <2> QED
    BY <1>6, <2>1, <2>2, EndKeeps
<1>7. CASE record' = ApprovalShown /\ session' = Idle /\ UNCHANGED <<journal, effects, faults>>
  <2>1. Quiet
    BY <1>7, NothingIsQuiet
  <2>2. RecordFollows(record') /\ faults' \in 0 .. MaxFaults
    BY <1>7, ShownFollows DEF GraphInv, TypeInv
  <2> QED
    BY <1>7, <2>1, <2>2, EndKeeps
<1>8. CASE WriteAhead(e, r, [session EXCEPT !.step = "asked"])
  <2>1. Quiet /\ Len(journal') = Len(journal) + 1
    BY <1>4, <1>8, WriteIsQuiet DEF WriteAhead
  <2>2. CASE record' = r /\ session' = [session EXCEPT !.step = "asked"] /\ UNCHANGED faults
    <3>1. /\ session' \in Session /\ session'.step = "asked"
          /\ session'.handle = session.handle
      BY <1>2, <2>2 DEF Session, Steps
    <3>2. session'.handle <= Len(journal')
      BY <1>2, <2>1, <3>1 DEF GraphInv, TypeInv, Quiet, Extends, Session
    <3>3. /\ record' \in Record /\ record'.node = record.node
          /\ record'.attempts = record.attempts /\ record'.state \notin Fresh
      BY <1>2, <1>5, <2>2
    <3>4. SessionFits(session', journal', Node, ModelCalls, ToolCalls)
      BY <3>1, RestFits
    <3>5. faults' \in 0 .. MaxFaults
      BY <2>2 DEF GraphInv, TypeInv
    <3>6. session.step # "idle" /\ session'.step # "idle"
          /\ session.step \in Outside /\ session'.step \in Outside
      BY <1>1, <3>1 DEF Outside
    <3> QED
      BY <2>1, <3>1, <3>2, <3>3, <3>4, <3>5, <3>6, StayKeeps
  <2>3. CASE faults < MaxFaults /\ faults' = faults + 1 /\ session' = Idle /\ UNCHANGED record
    <3>1. RecordFollows(record') /\ faults' \in 0 .. MaxFaults
      BY <2>3, LoopIsBounded DEF RecordFollows, GraphInv, TypeInv
    <3> QED
      BY <2>1, <2>3, <3>1, EndKeeps
  <2> QED
    BY <1>8, <2>1, <2>2, <2>3 DEF WriteAhead
<1> QED
  BY <1>6, <1>7, <1>8 DEF RequestApproval, e, r

\* Steps within a session that leave the record: what is left to show is what the session
\* knows of its calls.
LEMMA WithinKeeps ==
  ASSUME GraphInv, Quiet, session.step # "idle", UNCHANGED <<record, faults>>,
         session' \in Session, session'.handle <= Len(journal'), session'.step # "idle",
         session'.step \in Outside <=> session.step \in Outside,
         SessionFits(session', journal', Node, ModelCalls, ToolCalls)
  PROVE  GraphInv'
<1>1. /\ record' \in Record /\ record'.node = record.node
      /\ record'.attempts = record.attempts /\ record'.state \notin Fresh
  BY SessionFacts DEF GraphInv, TypeInv
<1>2. faults' \in 0 .. MaxFaults
  BY DEF GraphInv, TypeInv
<1> QED
  BY <1>1, <1>2, StayKeeps

\* Evidence of a denial or an overrun is an event that does not move the traversal.
LEMMA EvidenceIsTyped ==
  ASSUME NEW node \in Places, NEW attempt, NEW kind, NEW reservation, NEW scope, NEW dimensions
  PROVE  /\ EventIsTyped(Evidence(node, attempt, kind, reservation, scope, dimensions))
         /\ Evidence(node, attempt, kind, reservation, scope, dimensions).type \notin NodeEvents
BY DEF Evidence, EventIsTyped, NodeEvents, Outcomes, Approvals

\* A denied attempt writes its evidence and starts nothing.
LEMMA DenyAttemptKeeps == GraphInv /\ DenyAttempt => GraphInv' /\ Quiet
<1> SUFFICES ASSUME GraphInv, DenyAttempt PROVE GraphInv' /\ Quiet
  OBVIOUS
<1>1. session.step = "loop" /\ Node \in Nodes
  BY DEF DenyAttempt, Visiting, InLoop
<1>2. session \in Session /\ Node \in Places
  BY <1>1, SessionFacts
<1> DEFINE e == Denial(journal, Node, Attempt, "attempt")
<1>3. EventIsTyped(e) /\ e.type \notin NodeEvents
  BY <1>2, EvidenceIsTyped DEF Denial
<1> HIDE DEF e
<1>4. journal' = Append(journal, e) /\ UNCHANGED <<record, effects, faults>>
  BY DEF DenyAttempt, Write, e
<1>5. Quiet /\ Len(journal') = Len(journal) + 1
  BY <1>3, <1>4, WriteIsQuiet
<1>6. /\ session' \in Session /\ session'.step = "denied" /\ session'.handle = session.handle
  BY <1>2 DEF DenyAttempt, Go, Session, Steps
<1>7. session'.handle <= Len(journal')
  BY <1>2, <1>5, <1>6 DEF GraphInv, TypeInv, Quiet, Extends, Session
<1>8. SessionFits(session', journal', Node, ModelCalls, ToolCalls)
  BY <1>6, RestFits
<1>9. /\ session.step # "idle" /\ session'.step # "idle"
      /\ session.step \in Outside /\ session'.step \in Outside
  BY <1>1, <1>6 DEF Outside
<1> QED
  BY <1>4, <1>5, <1>6, <1>7, <1>8, <1>9, WithinKeeps

-----------------------------------------------------------------------------
(* Within a visit, up to the calls.                                        *)

\* What a session knows of its calls, in a longer journal.
LEMMA FitsStays ==
  ASSUME GraphInv, Quiet, session.step # "idle"
  PROVE  SessionFits(session, journal', Node, ModelCalls, ToolCalls)
<1>1. SessionFits(session, journal, Node, ModelCalls, ToolCalls)
  BY DEF GraphInv, EffectInv
<1>2. \A i \in DOMAIN journal : i \in DOMAIN journal' /\ journal'[i] = journal[i]
  BY DEF Quiet, Extends
<1>3. session.step = "overrun" => session.handle \in DOMAIN journal
  BY <1>1 DEF SessionFits
<1>4. session.step = "overrun" /\ journal'[session.handle].kind = "tool" =>
        journal[session.handle].kind = "tool"
  BY <1>2, <1>3
<1> QED
  BY <1>1, <1>2, <1>4 DEF SessionFits

\* A visit that has nothing more to call.
LEMMA ConcludeKeeps ==
  ASSUME GraphInv, Quiet, session.step \in Inside, UNCHANGED <<record, faults>>,
         session' \in Session, session'.step \in {"result", "raised"},
         session'.handle = session.handle
  PROVE  GraphInv'
<1>1. session'.handle <= Len(journal')
  BY DEF GraphInv, TypeInv, Quiet, Extends, Session
<1>2. /\ session.step # "idle" /\ session'.step # "idle"
      /\ session.step \notin Outside /\ session'.step \notin Outside
  BY DEF Outside, Inside
<1>3. SessionFits(session', journal', Node, ModelCalls, ToolCalls)
  BY RestFits
<1> QED
  BY <1>1, <1>2, <1>3, WithinKeeps

\* The places within a visit.
LEMMA InsideSteps ==
  /\ {"node", "model", "replied", "overrun", "tools", "reserved", "called", "dispatched",
      "outcome", "raised", "result"} = Inside
  /\ Calling = {"model", "replied", "overrun", "tools", "reserved", "called", "dispatched",
                "outcome"}
  /\ "idle" \notin Inside
BY DEF Inside, Outside, Steps, Calling, BeforeTool, AfterTool

\* A node that calls nothing comes to its result within its visit.
LEMMA RunPolicyKeeps == GraphInv /\ (RunPolicy \/ PassGate) => GraphInv' /\ Quiet
<1> SUFFICES ASSUME GraphInv, RunPolicy \/ PassGate PROVE GraphInv' /\ Quiet
  OBVIOUS
<1>1. /\ session.step = "node" /\ UNCHANGED <<record, journal, effects, faults>>
      /\ \E r \in Results : session' = [session EXCEPT !.step = "result", !.result = r]
  BY DEF RunPolicy, PassGate, Results
<1>2. Quiet
  BY <1>1, NothingIsQuiet
<1>3. session \in Session /\ session.step \in Inside
  BY <1>1, InsideSteps DEF GraphInv, TypeInv
<1>4. /\ session' \in Session /\ session'.step = "result"
      /\ session'.handle = session.handle
  BY <1>1, <1>3 DEF Session, Steps
<1> QED
  BY <1>1, <1>2, <1>3, <1>4, ConcludeKeeps

\* The loop ends in a failure.
LEMMA FailKeeps ==
  ASSUME GraphInv, Quiet, session.step \in Inside, UNCHANGED <<record, faults>>, Fail
  PROVE  GraphInv'
<1>1. session \in Session
  BY DEF GraphInv, TypeInv
<1>2. /\ session' \in Session /\ session'.step = "result"
      /\ session'.handle = session.handle
  BY <1>1 DEF Fail, Session, Steps, Results
<1> QED
  BY <1>2, ConcludeKeeps

\* A denied call writes its evidence, and its session stays within the visit.
LEMMA DenyCallKeeps ==
  ASSUME GraphInv, session.step \in Inside, NEW kind, DenyCall(kind)
  PROVE  GraphInv' /\ Quiet
<1> DEFINE e == Denial(journal, Node, Attempt, kind)
<1>1. Node \in Places
  BY SessionFacts, InsideSteps
<1>2. EventIsTyped(e) /\ e.type \notin NodeEvents
  BY <1>1, EvidenceIsTyped DEF Denial
<1> HIDE DEF e
<1>3. journal' = Append(journal, e) /\ UNCHANGED <<record, effects, faults>> /\ Fail
  BY DEF DenyCall, Write, e
<1>4. Quiet
  BY <1>2, <1>3, WriteIsQuiet
<1> QED
  BY <1>3, <1>4, FailKeeps

\* A call is reserved; the session remembers the reservation.
LEMMA ReserveCallKeeps ==
  ASSUME GraphInv, NEW kind \in {"model", "tool"}, NEW step,
         \/ kind = "model" /\ step = "model" /\ session.step = "node" /\ Node \in Agents
         \/ kind = "tool" /\ step = "reserved" /\ session.step = "tools",
         ReserveCall(kind, step)
  PROVE  GraphInv' /\ Quiet
<1> DEFINE e == Reserved(Node, Attempt, kind)
<1>1. session.step \in Inside /\ session.step # "idle"
  BY InsideSteps
<1>2. session \in Session /\ Node \in Nodes
  BY <1>1, SessionFacts
<1>3. EventIsTyped(e) /\ e.type \notin NodeEvents /\ e.kind = kind
  BY <1>2 DEF Reserved, EventIsTyped, NodeEvents, Outcomes, Approvals, Places
<1> HIDE DEF e
<1>4. /\ journal' = Append(journal, e) /\ UNCHANGED <<record, effects, faults>>
      /\ session' = [session EXCEPT !.step = step, !.handle = Len(journal) + 1]
  BY DEF ReserveCall, Write, e
<1>5. /\ Quiet /\ Len(journal') = Len(journal) + 1 /\ journal'[Len(journal) + 1] = e
      /\ Len(journal) + 1 \in DOMAIN journal'
  BY <1>3, <1>4, WriteIsQuiet
<1>6. Len(journal) \in Nat /\ Len(journal') \in Nat
  BY <1>5 DEF Quiet, Extends
<1>7. /\ session' \in Session /\ session'.step = step /\ session'.handle = Len(journal) + 1
      /\ session'.turns = session.turns /\ session'.tools = session.tools
  <2>1. step \in Steps /\ Len(journal) + 1 \in Nat
    BY <1>6 DEF Steps
  <2> QED
    BY <1>2, <1>4, <2>1 DEF Session
<1>8. SessionFits(session, journal, Node, ModelCalls, ToolCalls)
  BY DEF GraphInv, EffectInv
<1>9. SessionFits(session', journal', Node, ModelCalls, ToolCalls)
  BY <1>3, <1>5, <1>7, <1>8 DEF SessionFits, Calling, BeforeTool, AfterTool
<1>10. /\ session.step \notin Outside /\ session'.step \notin Outside
       /\ session'.step # "idle" /\ session'.handle <= Len(journal')
  BY <1>5, <1>6, <1>7 DEF Outside
<1> QED
  BY <1>1, <1>4, <1>5, <1>7, <1>9, <1>10, WithinKeeps

\* A reservation for the model is no call yet.
LEMMA ReserveModelKeeps == GraphInv /\ ReserveModel => GraphInv' /\ Quiet
<1> SUFFICES ASSUME GraphInv, ReserveModel PROVE GraphInv' /\ Quiet
  OBVIOUS
<1>1. CASE DenyCall("model")
  BY <1>1, InsideSteps, DenyCallKeeps DEF ReserveModel
<1>2. CASE ReserveCall("model", "model")
  BY <1>2, ReserveCallKeeps DEF ReserveModel
<1> QED
  BY <1>1, <1>2 DEF ReserveModel

\* A reservation for a tool is no call yet.
LEMMA ReserveToolKeeps == GraphInv /\ ReserveTool => GraphInv' /\ Quiet
<1> SUFFICES ASSUME GraphInv, ReserveTool PROVE GraphInv' /\ Quiet
  OBVIOUS
<1>1. CASE DenyCall("tool")
  BY <1>1, InsideSteps, DenyCallKeeps DEF ReserveTool
<1>2. CASE ReserveCall("tool", "reserved")
  BY <1>2, ReserveCallKeeps DEF ReserveTool
<1> QED
  BY <1>1, <1>2 DEF ReserveTool

\* A commit or a release is an event of the node that reserved.
LEMMA BudgetEventIsTyped ==
  ASSUME GraphInv, session.step \notin {"idle", "asked", "denied"},
         session.handle \in DOMAIN journal
  PROVE  /\ \A succeeded, d :
              LET e == Committed(journal, session.handle, succeeded, d)
              IN  EventIsTyped(e) /\ e.type \notin NodeEvents
         /\ LET e == Released(journal, session.handle)
            IN  EventIsTyped(e) /\ e.type \notin NodeEvents
         /\ LET e == Overrun(journal, session.handle)
            IN  EventIsTyped(e) /\ e.type \notin NodeEvents
<1>1. journal[session.handle].node \in Places
  BY DEF GraphInv, TypeInv, JournalIsTyped, EventIsTyped
<1> DEFINE held == journal[session.handle]
<1> HIDE DEF held
<1>2. held.node \in Places
  BY <1>1 DEF held
<1>3. ASSUME NEW succeeded, NEW d
      PROVE  LET e == Committed(journal, session.handle, succeeded, d)
             IN  EventIsTyped(e) /\ e.type \notin NodeEvents
  BY <1>1 DEF Committed, EventIsTyped, NodeEvents, Outcomes, Approvals
<1>4. LET e == Released(journal, session.handle)
      IN  EventIsTyped(e) /\ e.type \notin NodeEvents
  BY <1>1 DEF Released, EventIsTyped, NodeEvents, Outcomes, Approvals
<1>5. LET e == Overrun(journal, session.handle)
      IN  EventIsTyped(e) /\ e.type \notin NodeEvents
  BY <1>1, EvidenceIsTyped DEF Overrun
<1> QED
  BY <1>3, <1>4, <1>5

\* What becomes of an answer.
LEMMA InterpretKeeps ==
  ASSUME GraphInv, Quiet, session.step = "replied", UNCHANGED <<record, faults>>, Interpret
  PROVE  GraphInv'
<1>1. session.step \in Inside /\ session.step # "idle"
  BY InsideSteps
<1>2. session \in Session /\ session.handle <= Len(journal)
  BY DEF GraphInv, TypeInv
<1>3. SessionFits(session, journal', Node, ModelCalls, ToolCalls)
  BY <1>1, FitsStays
<1>4. CASE Fail
  BY <1>1, <1>4, FailKeeps
<1>5. ASSUME NEW r \in Results,
             session' = [session EXCEPT !.step = "result", !.result = r]
      PROVE  GraphInv'
  <2>1. /\ session' \in Session /\ session'.step = "result"
        /\ session'.handle = session.handle
    BY <1>2, <1>5 DEF Session, Steps
  <2> QED
    BY <1>1, <2>1, ConcludeKeeps
<1>6. ASSUME NEW step \in {"node", "tools"}, NEW tried \in Nat,
             session' = [session EXCEPT !.step = step, !.tried = tried]
      PROVE  GraphInv'
  <2>1. /\ session' \in Session /\ session'.step = step /\ session'.handle = session.handle
        /\ session'.turns = session.turns /\ session'.tools = session.tools
    <3>1. step \in Steps
      BY DEF Steps
    <3> QED
      BY <1>2, <1>6, <3>1 DEF Session
  <2>2. SessionFits(session', journal', Node, ModelCalls, ToolCalls)
    BY <1>3, <2>1 DEF SessionFits, Calling, BeforeTool, AfterTool
  <2>3. /\ session.step \notin Outside /\ session'.step \notin Outside
        /\ session'.step # "idle"
    BY <2>1 DEF Outside
  <2>4. session'.handle <= Len(journal')
    BY <1>2, <2>1 DEF Quiet, Extends, Session
  <2> QED
    BY <1>1, <2>1, <2>2, <2>3, <2>4, WithinKeeps
<1>7. session.tried + 1 \in Nat /\ 0 \in Nat
  BY <1>2 DEF Session
<1>8. session.reply \in Replies
  BY <1>2 DEF Session
<1> QED
  BY <1>4, <1>5, <1>6, <1>7, <1>8 DEF Interpret, Replies

\* The visit goes on to a place that asks no more of its calls than the place before.
LEMMA GoKeeps ==
  ASSUME GraphInv, Quiet, session.step \in Inside, UNCHANGED <<record, faults>>,
         NEW step \in Inside, Go(step),
         \/ step = "called" /\ session.step = "reserved"
         \/ step = "overrun" /\ session.step \in {"replied", "dispatched"}
         \/ step = "outcome" /\ session.step = "dispatched"
         \/ step = "outcome" /\ session.step = "overrun"
                             /\ journal[session.handle].kind = "tool"
         \/ step = "raised"
  PROVE  GraphInv'
<1>1. session \in Session /\ session.handle <= Len(journal)
  BY DEF GraphInv, TypeInv
<1>2. session.step # "idle"
  BY InsideSteps
<1>3. SessionFits(session, journal', Node, ModelCalls, ToolCalls)
  BY <1>2, FitsStays
<1>4. /\ session' \in Session /\ session'.step = step /\ session'.handle = session.handle
      /\ session'.turns = session.turns /\ session'.tools = session.tools
  <2>1. step \in Steps
    BY DEF Inside
  <2> QED
    BY <1>1, <2>1 DEF Go, Session
<1>5. session.step = "overrun" /\ journal[session.handle].kind = "tool" =>
        journal'[session.handle].kind = "tool"
  <2>1. session.step = "overrun" => session.handle \in DOMAIN journal
    BY DEF GraphInv, EffectInv, SessionFits
  <2> QED
    BY <2>1 DEF Quiet, Extends
<1>6. SessionFits(session', journal', Node, ModelCalls, ToolCalls)
  BY <1>3, <1>4, <1>5 DEF SessionFits, Calling, BeforeTool, AfterTool
<1>7. /\ session.step \notin Outside /\ session'.step \notin Outside
      /\ session'.step # "idle"
  BY <1>4 DEF Inside
<1>8. session'.handle <= Len(journal')
  BY <1>1, <1>4 DEF Quiet, Extends, Session
<1> QED
  BY <1>2, <1>4, <1>6, <1>7, <1>8, WithinKeeps

\* The handle of a call that is going on is a reservation in the journal.
LEMMA HandleIsThere ==
  ASSUME GraphInv, session.step \in {"model", "replied", "overrun", "reserved", "called",
                                     "dispatched"}
  PROVE  session.handle \in DOMAIN journal
BY DEF GraphInv, EffectInv, SessionFits

\* The reply is settled or its provider given up, and the visit goes on.
LEMMA CommitModelKeeps == GraphInv /\ CommitModel => GraphInv' /\ Quiet
<1> SUFFICES ASSUME GraphInv, CommitModel PROVE GraphInv' /\ Quiet
  OBVIOUS
<1>1. session.step = "replied" /\ session.step \in Inside /\ "overrun" \in Inside
  BY InsideSteps DEF CommitModel
<1>2. PICK d \in Durations :
        Write(Committed(journal, session.handle, session.reply \in {"content", "calls"}, d))
  BY DEF CommitModel
<1> DEFINE e == Committed(journal, session.handle, session.reply \in {"content", "calls"}, d)
<1>3. EventIsTyped(e) /\ e.type \notin NodeEvents
  BY <1>1, HandleIsThere, BudgetEventIsTyped
<1> HIDE DEF e
<1>4. journal' = Append(journal, e) /\ UNCHANGED <<record, effects, faults>>
  BY <1>2 DEF Write, e
<1>5. Quiet
  BY <1>3, <1>4, WriteIsQuiet
<1>6. Go("overrun") \/ Interpret
  BY DEF CommitModel
<1> QED
  BY <1>1, <1>4, <1>5, <1>6, GoKeeps, InterpretKeeps

\* The evidence of an overrun, if there is any, is no node event.
LEMMA RecordOverrunKeeps == GraphInv /\ RecordOverrun => GraphInv' /\ Quiet
<1> SUFFICES ASSUME GraphInv, RecordOverrun PROVE GraphInv' /\ Quiet
  OBVIOUS
<1>1. session.step = "overrun" /\ session.step \in Inside /\ "outcome" \in Inside
  BY InsideSteps DEF RecordOverrun
<1> DEFINE e == Overrun(journal, session.handle)
<1>2. EventIsTyped(e) /\ e.type \notin NodeEvents
  BY <1>1, HandleIsThere, BudgetEventIsTyped
<1> HIDE DEF e
<1>3. /\ journal' = Append(journal, e) \/ journal' = journal
      /\ UNCHANGED <<record, effects, faults>>
  BY DEF RecordOverrun, Write, e
<1>4. Quiet
  BY <1>2, <1>3, WriteIsQuiet, NothingIsQuiet
<1>5. \/ journal[session.handle].kind = "tool" /\ Go("outcome")
      \/ Fail
      \/ session' = Idle
  BY DEF RecordOverrun
<1>6. CASE session' = Idle
  <2>1. RecordFollows(record') /\ faults' \in 0 .. MaxFaults
    BY <1>3 DEF RecordFollows, GraphInv, TypeInv
  <2> QED
    BY <1>4, <1>6, <2>1, EndKeeps
<1> QED
  BY <1>1, <1>3, <1>4, <1>5, <1>6, GoKeeps, FailKeeps

\* The write-ahead of a dispatch, and the outcome of one.
LEMMA ToolEventIsTyped ==
  ASSUME Node \in Nodes, NEW type \in {"TOOL_CALLED", "TOOL_COMPLETED", "TOOL_FAILED"}
  PROVE  EventIsTyped(ToolEvent(type)) /\ ToolEvent(type).type \notin NodeEvents
BY DEF ToolEvent, EventIsTyped, NodeEvents, Outcomes, Approvals, Places

\* The write-ahead of a tool call is no call yet.
LEMMA RecordCallKeeps == GraphInv /\ RecordCall => GraphInv' /\ Quiet
<1> SUFFICES ASSUME GraphInv, RecordCall PROVE GraphInv' /\ Quiet
  OBVIOUS
<1>1. session.step = "reserved" /\ session.step \in Inside /\ "called" \in Inside
  BY InsideSteps DEF RecordCall
<1>2. Node \in Nodes
  BY <1>1, SessionFacts
<1> DEFINE e == ToolEvent("TOOL_CALLED")
<1>3. EventIsTyped(e) /\ e.type \notin NodeEvents
  BY <1>2, ToolEventIsTyped
<1> HIDE DEF e
<1>4. journal' = Append(journal, e) /\ UNCHANGED <<record, effects, faults>> /\ Go("called")
  BY DEF RecordCall, Write, e
<1>5. Quiet
  BY <1>3, <1>4, WriteIsQuiet
<1> QED
  BY <1>1, <1>4, <1>5, GoKeeps

\* The result of a tool is settled and the visit goes on.
LEMMA CommitToolKeeps == GraphInv /\ CommitTool => GraphInv' /\ Quiet
<1> SUFFICES ASSUME GraphInv, CommitTool PROVE GraphInv' /\ Quiet
  OBVIOUS
<1>1. /\ session.step = "dispatched" /\ session.step \in Inside
      /\ "overrun" \in Inside /\ "outcome" \in Inside
  BY InsideSteps DEF CommitTool
<1>2. PICK d \in Durations :
        Write(Committed(journal, session.handle, session.result = "completed", d))
  BY DEF CommitTool
<1> DEFINE e == Committed(journal, session.handle, session.result = "completed", d)
<1>3. EventIsTyped(e) /\ e.type \notin NodeEvents
  BY <1>1, HandleIsThere, BudgetEventIsTyped
<1> HIDE DEF e
<1>4. journal' = Append(journal, e) /\ UNCHANGED <<record, effects, faults>>
  BY <1>2 DEF Write, e
<1>5. Quiet
  BY <1>3, <1>4, WriteIsQuiet
<1>6. Go("overrun") \/ Go("outcome")
  BY DEF CommitTool
<1> QED
  BY <1>1, <1>4, <1>5, <1>6, GoKeeps

\* A write-ahead that failed releases its reservation and ends the session.
LEMMA RecordCallFailsKeeps == GraphInv /\ RecordCallFails => GraphInv' /\ Quiet
<1> SUFFICES ASSUME GraphInv, RecordCallFails PROVE GraphInv' /\ Quiet
  OBVIOUS
<1>1. session.step = "reserved" /\ session.step \in Inside
  BY InsideSteps DEF RecordCallFails
<1>2. Node \in Nodes
  BY <1>1, SessionFacts
<1> DEFINE call == ToolEvent("TOOL_CALLED")
           release == Released(journal, session.handle)
<1>3. EventIsTyped(call) /\ call.type \notin NodeEvents
  BY <1>2, ToolEventIsTyped
<1>4. EventIsTyped(release) /\ release.type \notin NodeEvents
  BY <1>1, HandleIsThere, BudgetEventIsTyped
<1>5. PICK landed \in {<< >>, <<call>>} : journal' = journal \o landed \o <<release>>
  BY DEF RecordCallFails
<1> HIDE DEF call, release
<1>6. JournalIsTyped(journal)
  BY DEF GraphInv, TypeInv
<1> DEFINE k == journal \o landed
<1>7. Extends(journal, k)
  <2>1. PICK S0 : journal \in Seq(S0)
    BY <1>6 DEF JournalIsTyped
  <2>2. CASE landed = << >>
    <3>1. k = journal
      BY <2>1, <2>2, ConcatEmptySeq
    <3> QED
      BY <1>6, <3>1, StaysExtends
  <2>3. CASE landed = <<call>>
    <3>1. journal \in Seq(S0 \cup {call}) /\ call \in S0 \cup {call}
      BY <2>1, SeqMonotonic
    <3>2. k = Append(journal, call)
      BY <2>3, <3>1, AppendIsConcat
    <3> QED
      BY <1>3, <1>6, <3>2, AppendExtends
  <2> QED
    BY <1>5, <2>2, <2>3
<1> HIDE DEF k
<1>8. JournalIsTyped(k)
  BY <1>7 DEF Extends
<1>9. journal' = Append(k, release)
  <2>1. PICK S0 : k \in Seq(S0)
    BY <1>8 DEF JournalIsTyped
  <2>2. k \in Seq(S0 \cup {release}) /\ release \in S0 \cup {release}
    BY <2>1, SeqMonotonic
  <2>3. journal' = k \o <<release>>
    BY <1>5 DEF k
  <2> QED
    BY <2>2, <2>3, AppendIsConcat
<1>10. Extends(k, journal')
  BY <1>4, <1>8, <1>9, AppendExtends
<1>11. Quiet
  BY <1>7, <1>10, ExtendsTwice DEF Quiet, RecordCallFails
<1>12. session \in Session /\ session.handle <= Len(journal)
  BY DEF GraphInv, TypeInv
<1>13. /\ session' \in Session /\ session'.step = "raised"
       /\ session'.handle = session.handle
  BY <1>12 DEF RecordCallFails, Go, Session, Steps
<1>14. SessionFits(session', journal', Node, ModelCalls, ToolCalls)
  BY <1>13, RestFits
<1>15. session'.handle <= Len(journal')
  BY <1>11, <1>12, <1>13 DEF Quiet, Extends, Session
<1>16. /\ session.step \notin Outside /\ session'.step \notin Outside
       /\ session.step # "idle" /\ session'.step # "idle"
  BY <1>1, <1>13 DEF Outside
<1>17. /\ record' \in Record /\ record'.node = record.node
       /\ record'.attempts = record.attempts /\ record'.state \notin Fresh
  BY <1>16, SessionFacts DEF RecordCallFails, GraphInv, TypeInv
<1>18. faults' \in 0 .. MaxFaults
  BY LoopIsBounded DEF RecordCallFails, GraphInv, TypeInv
<1> QED
  BY <1>11, <1>13, <1>14, <1>15, <1>16, <1>17, <1>18, StayKeeps

\* The record of a tool's result keeps the session within its visit.
LEMMA RecordOutcomeKeeps == GraphInv /\ RecordOutcome => GraphInv' /\ Quiet
<1> SUFFICES ASSUME GraphInv, RecordOutcome PROVE GraphInv' /\ Quiet
  OBVIOUS
<1>1. session.step = "outcome" /\ session.step \in Inside /\ session.step # "idle"
  BY InsideSteps DEF RecordOutcome
<1>2. Node \in Nodes
  BY <1>1, SessionFacts
<1>3. PICK type \in {"TOOL_COMPLETED", "TOOL_FAILED"} : Write(ToolEvent(type))
  BY DEF RecordOutcome
<1> DEFINE e == ToolEvent(type)
<1>4. EventIsTyped(e) /\ e.type \notin NodeEvents
  BY <1>2, ToolEventIsTyped
<1> HIDE DEF e
<1>5. journal' = Append(journal, e) /\ UNCHANGED <<record, effects, faults>>
  BY <1>3 DEF Write, e
<1>6. Quiet
  BY <1>4, <1>5, WriteIsQuiet
<1>7. CASE Fail
  BY <1>1, <1>5, <1>6, <1>7, FailKeeps
<1>8. ASSUME NEW step \in {"tools", "node"},
             session' = [session EXCEPT !.step = step, !.tools = @ + 1, !.wanted = @ - 1]
      PROVE  GraphInv'
  <2>1. session \in Session /\ session.handle <= Len(journal)
    BY DEF GraphInv, TypeInv
  <2>2. /\ session' \in Session /\ session'.step = step /\ session'.handle = session.handle
        /\ session'.turns = session.turns /\ session'.tools = session.tools + 1
    <3>1. /\ step \in Steps /\ session.tools + 1 \in Nat /\ session.wanted - 1 \in Int
      BY <2>1 DEF Steps, Session
    <3> QED
      BY <1>8, <2>1, <3>1 DEF Session
  <2>3. SessionFits(session, journal', Node, ModelCalls, ToolCalls)
    BY <1>1, <1>6, FitsStays
  <2>4. SessionFits(session', journal', Node, ModelCalls, ToolCalls)
    BY <1>1, <2>2, <2>3 DEF SessionFits, Calling, BeforeTool, AfterTool
  <2>5. /\ session.step \notin Outside /\ session'.step \notin Outside
        /\ session'.step # "idle"
    BY <1>1, <2>2 DEF Outside
  <2>6. session'.handle <= Len(journal')
    BY <1>6, <2>1, <2>2 DEF Quiet, Extends, Session
  <2> QED
    BY <1>1, <1>5, <1>6, <2>2, <2>4, <2>5, <2>6, WithinKeeps
<1> QED
  BY <1>6, <1>7, <1>8 DEF RecordOutcome

\* A session that raises or dies leaves journal and calls as they are.
LEMMA RaiseKeeps == GraphInv /\ (Raise \/ Abort) => GraphInv' /\ Quiet
<1> SUFFICES ASSUME GraphInv, Raise \/ Abort PROVE GraphInv' /\ Quiet
  OBVIOUS
<1>1. Quiet
  BY NothingIsQuiet DEF Raise, Abort
<1>2. RecordFollows(record') /\ faults' \in 0 .. MaxFaults /\ session' = Idle
  BY LoopIsBounded DEF Raise, Abort, RecordFollows, GraphInv, TypeInv
<1> QED
  BY <1>1, <1>2, EndKeeps

-----------------------------------------------------------------------------
(* The steps of Traversal.                                                 *)

\* The calls of an attempt, with one more.
LEMMA MadeGrows ==
  ASSUME TypeInv, NEW e \in Effect, NEW node, NEW attempt, NEW kind
  PROVE  /\ Made(effects, node, attempt, kind) \in Nat
         /\ Made(Append(effects, e), node, attempt, kind) =
              IF e.node = node /\ e.attempt = attempt /\ e.kind = kind
              THEN Made(effects, node, attempt, kind) + 1
              ELSE Made(effects, node, attempt, kind)
<1> DEFINE done == Append(effects, e)
           Ours(d) == {i \in DOMAIN d : /\ d[i].node = node
                                        /\ d[i].attempt = attempt
                                        /\ d[i].kind = kind}
<1>1. /\ Len(effects) \in Nat /\ DOMAIN effects = 1 .. Len(effects)
      /\ DOMAIN done = 1 .. Len(effects) + 1
      /\ \A i \in 1 .. Len(effects) : done[i] = effects[i]
      /\ done[Len(effects) + 1] = e
  BY AppendFacts DEF TypeInv
<1> HIDE DEF done
<1>2. IsFiniteSet(Ours(effects)) /\ Len(effects) + 1 \notin Ours(effects)
  <2>1. Ours(effects) \subseteq 1 .. Len(effects)
    BY <1>1
  <2>2. IsFiniteSet(1 .. Len(effects))
    BY <1>1, FS_Interval
  <2> QED
    BY <1>1, <2>1, <2>2, FS_Subset
<1>3. Cardinality(Ours(effects)) \in Nat
  BY <1>2, FS_CardinalityType
<1>4. CASE e.node = node /\ e.attempt = attempt /\ e.kind = kind
  <2>1. \A i : i \in Ours(done) <=> i \in Ours(effects) \/ i = Len(effects) + 1
    BY <1>1, <1>4
  <2>2. Ours(done) = Ours(effects) \cup {Len(effects) + 1}
    BY <2>1
  <2>3. Cardinality(Ours(done)) = Cardinality(Ours(effects)) + 1
    BY <1>2, <2>2, FS_AddElement
  <2> QED
    BY <1>3, <1>4, <2>3 DEF Made, done
<1>5. CASE ~ (e.node = node /\ e.attempt = attempt /\ e.kind = kind)
  <2>1. \A i : i \in Ours(done) <=> i \in Ours(effects)
    BY <1>1, <1>5
  <2>2. Ours(done) = Ours(effects)
    BY <2>1
  <2> QED
    BY <1>3, <1>5, <2>2 DEF Made, done
<1> QED
  BY <1>4, <1>5

\* Traversal counts as everybody does.
LEMMA WalkCounts == \A S : Walk!Cardinality(S) = Cardinality(S)
BY DEF Walk!Cardinality, Cardinality

\* Within a visit the record's next attempt is the one that goes on.
LEMMA AttemptIsOpen ==
  ASSUME GraphInv, session.step \in Inside
  PROVE  /\ OpenStart(journal) /\ ExpectedNode(journal) = Node /\ Node \in Nodes
         /\ Attempt = VisitsIn(journal, Node) /\ Attempt \in Nat
<1>1. /\ UpToDate /\ Node \in Nodes
      /\ Attempt = Concluded(journal, Node) + 1 /\ Attempt \in Nat
  BY SessionFacts, InsideSteps
<1>2. OpenStart(journal) /\ ExpectedNode(journal) = Node
  BY <1>1 DEF GraphInv, PlaceInv, UpToDate, Node
<1> QED
  BY <1>1, <1>2 DEF GraphInv, WalkInv

\* A call is the next one of its kind in the visit that is going on.
LEMMA PerformKeeps ==
  ASSUME GraphInv, session.step \in Inside, Node \in Agents,
         NEW kind \in {"model", "tool"}, NEW step \in Nat, NEW place,
         step = (IF kind = "model" THEN ModelCalls ELSE ToolCalls) + 1,
         Perform(kind, place), place = step,
         session' \in Session, session'.handle = session.handle, session'.step \in Inside,
         SessionFits(session', journal', Node,
                     IF kind = "model" THEN ModelCalls + 1 ELSE ModelCalls,
                     IF kind = "tool" THEN ToolCalls + 1 ELSE ToolCalls)
  PROVE  GraphInv' /\ Walk!Call
<1> DEFINE e == [node |-> Node, attempt |-> Attempt, kind |-> kind, step |-> step]
<1>1. /\ OpenStart(journal) /\ ExpectedNode(journal) = Node /\ Node \in Nodes
      /\ Attempt = VisitsIn(journal, Node) /\ Attempt \in Nat
  BY AttemptIsOpen
<1>2. effects' = Append(effects, e) /\ UNCHANGED <<record, journal, faults>>
  BY DEF Perform
<1>3. e \in Effect
  BY <1>1 DEF Effect
<1>4. /\ e.node = Node /\ e.attempt = Attempt /\ e.kind = kind
  OBVIOUS
<1>5. \A node, attempt, k :
        Made(effects', node, attempt, k) =
          IF node = Node /\ attempt = Attempt /\ k = kind
          THEN Made(effects, node, attempt, k) + 1 ELSE Made(effects, node, attempt, k)
  BY <1>2, <1>3, <1>4, MadeGrows DEF GraphInv
<1> HIDE DEF e
<1>6. TypeInv'
  <2>1. effects' \in Seq(Effect)
    BY <1>2, <1>3, AppendProperties DEF GraphInv, TypeInv
  <2> QED
    BY <1>2, <2>1 DEF GraphInv, TypeInv
<1>7. WalkInv(journal') /\ Node' = Node /\ Attempt' = Attempt
  BY <1>2 DEF GraphInv, Node, Attempt
<1>8. FreshInv'
  BY <1>2, SessionFacts, InsideSteps DEF FreshInv
<1>9. PlaceInv'
  BY <1>1, <1>2, InsideSteps DEF GraphInv, PlaceInv, UpToDate, Inside
<1>10. EffectInv'
  <2>1. ModelCalls' = IF kind = "model" THEN ModelCalls + 1 ELSE ModelCalls
    BY <1>5, <1>7 DEF ModelCalls
  <2>2. ToolCalls' = IF kind = "tool" THEN ToolCalls + 1 ELSE ToolCalls
    BY <1>5, <1>7 DEF ToolCalls
  <2>3. \A i \in DOMAIN effects' : effects'[i].attempt <= VisitsIn(journal', effects'[i].node)
    <3>1. /\ Len(effects) \in Nat /\ DOMAIN effects = 1 .. Len(effects)
          /\ DOMAIN effects' = 1 .. Len(effects) + 1
          /\ \A i \in 1 .. Len(effects) : effects'[i] = effects[i]
          /\ effects'[Len(effects) + 1] = e
      BY <1>2, <1>3, AppendFacts DEF GraphInv, TypeInv
    <3> SUFFICES ASSUME NEW i \in DOMAIN effects'
                 PROVE  effects'[i].attempt <= VisitsIn(journal', effects'[i].node)
      OBVIOUS
    <3>2. CASE i = Len(effects) + 1
      BY <1>1, <1>2, <1>4, <3>1, <3>2
    <3>3. CASE i \in DOMAIN effects
      BY <1>2, <3>1, <3>3 DEF GraphInv, EffectInv
    <3> QED
      BY <3>1, <3>2, <3>3
  <2> QED
    BY <1>7, <2>1, <2>2, <2>3 DEF EffectInv
<1>11. Walk!Call
  <2>1. Visits(Node) = Attempt /\ [n \in Nodes |-> Visits(n)][Node] = Attempt
    BY <1>1 DEF Visits, VisitsIn
  <2>2. Cardinality(Walk!CallsOf(kind)) = IF kind = "model" THEN ModelCalls ELSE ToolCalls
    BY <1>1, <2>1 DEF Walk!CallsOf, ModelCalls, ToolCalls, Made
  <2>3. e = [node |-> ExpectedNode(journal),
             attempt |-> [n \in Nodes |-> Visits(n)][ExpectedNode(journal)],
             kind |-> kind, step |-> Cardinality(Walk!CallsOf(kind)) + 1]
    BY <1>1, <2>1, <2>2 DEF e
  <2>4. effects' = Append(effects, [node |-> ExpectedNode(journal),
             attempt |-> [n \in Nodes |-> Visits(n)][ExpectedNode(journal)],
             kind |-> kind, step |-> Cardinality(Walk!CallsOf(kind)) + 1])
    BY <1>2, <2>3
  <2>5. [n \in Nodes |-> Visits(n)]' = [n \in Nodes |-> Visits(n)]
    BY <1>2 DEF Visits
  <2>6. /\ ExpectedNode(journal)' = ExpectedNode(journal)
        /\ OpenStart(journal)' = OpenStart(journal)
    BY <1>2
  <2>7. UNCHANGED <<ExpectedNode(journal), OpenStart(journal), [n \in Nodes |-> Visits(n)]>>
    BY <2>5, <2>6
  <2> QED
    BY <1>1, <2>4, <2>7, WalkCounts, Zenon DEF Walk!Call
<1> QED
  BY <1>6, <1>7, <1>8, <1>9, <1>10, <1>11 DEF GraphInv

\* A call of the model is the next of its attempt.
LEMMA CallModelKeeps == GraphInv /\ CallModel => GraphInv' /\ Walk!Call
<1> SUFFICES ASSUME GraphInv, CallModel PROVE GraphInv' /\ Walk!Call
  OBVIOUS
<1>1. session.step = "model" /\ session.step \in Inside /\ session.step # "idle"
  BY InsideSteps DEF CallModel
<1>2. SessionFits(session, journal, Node, ModelCalls, ToolCalls) /\ session \in Session
  BY DEF GraphInv, EffectInv, TypeInv
<1>3. /\ Node \in Agents /\ session.turns \in Nat /\ ModelCalls = session.turns
      /\ ToolCalls = session.tools /\ session.handle \in DOMAIN journal
      /\ journal[session.handle].kind = "model"
  BY <1>1, <1>2 DEF SessionFits, Calling, BeforeTool, AfterTool, Session
<1>4. PICK reply \in Replies, n \in 1 .. MaxToolSteps :
        session' = [session EXCEPT !.step = "replied", !.turns = @ + 1,
                                   !.reply = reply, !.wanted = n]
  BY DEF CallModel
<1>5. /\ session' \in Session /\ session'.step = "replied"
      /\ session'.handle = session.handle /\ session'.turns = session.turns + 1
      /\ session'.tools = session.tools
  <2>1. n \in Int /\ session.turns + 1 \in Nat /\ "replied" \in Steps
    BY <1>3 DEF Steps
  <2> QED
    BY <1>2, <1>4, <2>1 DEF Session
<1>6. Perform("model", session.turns + 1) /\ journal' = journal
  BY DEF CallModel, Perform
<1>7. SessionFits(session', journal', Node, ModelCalls + 1, ToolCalls)
  BY <1>3, <1>5, <1>6 DEF SessionFits, Calling, BeforeTool, AfterTool
<1>8. session'.step \in Inside /\ session.turns + 1 \in Nat
  BY <1>3, <1>5, InsideSteps
<1> QED
  BY <1>1, <1>3, <1>5, <1>6, <1>7, <1>8, PerformKeeps

\* A call of a tool is the next of its attempt.
LEMMA DispatchToolKeeps == GraphInv /\ DispatchTool => GraphInv' /\ Walk!Call
<1> SUFFICES ASSUME GraphInv, DispatchTool PROVE GraphInv' /\ Walk!Call
  OBVIOUS
<1>1. session.step = "called" /\ session.step \in Inside /\ session.step # "idle"
  BY InsideSteps DEF DispatchTool
<1>2. SessionFits(session, journal, Node, ModelCalls, ToolCalls) /\ session \in Session
  BY DEF GraphInv, EffectInv, TypeInv
<1>3. /\ Node \in Agents /\ session.tools \in Nat /\ ModelCalls = session.turns
      /\ ToolCalls = session.tools /\ session.handle \in DOMAIN journal
      /\ journal[session.handle].kind = "tool"
  BY <1>1, <1>2 DEF SessionFits, Calling, BeforeTool, AfterTool, Session
<1>4. PICK r \in {"completed", "failed"} :
        session' = [session EXCEPT !.step = "dispatched", !.result = r]
  BY DEF DispatchTool
<1>5. /\ session' \in Session /\ session'.step = "dispatched"
      /\ session'.handle = session.handle /\ session'.turns = session.turns
      /\ session'.tools = session.tools
  <2>1. r \in Results /\ "dispatched" \in Steps
    BY DEF Results, Steps
  <2> QED
    BY <1>2, <1>4, <2>1 DEF Session
<1>6. Perform("tool", session.tools + 1) /\ journal' = journal
  BY DEF DispatchTool, Perform
<1>7. SessionFits(session', journal', Node, ModelCalls, ToolCalls + 1)
  BY <1>3, <1>5, <1>6 DEF SessionFits, Calling, BeforeTool, AfterTool
<1>8. session'.step \in Inside /\ session.tools + 1 \in Nat
  BY <1>3, <1>5, InsideSteps
<1> QED
  BY <1>1, <1>3, <1>5, <1>6, <1>7, <1>8, PerformKeeps

\* Within a journal that is appended to, positions keep what they hold.
LEMMA AppendKeeps ==
  ASSUME GraphInv, NEW e, EventIsTyped(e), journal' = Append(journal, e)
  PROVE  /\ JournalIsTyped(journal') /\ Len(journal) \in Nat
         /\ Len(journal') = Len(journal) + 1 /\ journal'[Len(journal) + 1] = e
         /\ \E S : journal \in Seq(S) /\ e \in S
<1>1. PICK S0 : journal \in Seq(S0)
  BY DEF GraphInv, TypeInv, JournalIsTyped
<1> DEFINE S == S0 \cup {e}
<1>2. journal \in Seq(S) /\ e \in S
  BY <1>1, SeqMonotonic
<1> HIDE DEF S
<1>3. /\ journal' \in Seq(S) /\ Len(journal') = Len(journal) + 1
      /\ DOMAIN journal' = 1 .. Len(journal) + 1 /\ DOMAIN journal = 1 .. Len(journal)
      /\ Len(journal) \in Nat
      /\ \A i \in 1 .. Len(journal) : journal'[i] = journal[i]
      /\ journal'[Len(journal) + 1] = e
  BY <1>2, AppendFacts
<1>4. \A i \in DOMAIN journal' : EventIsTyped(journal'[i])
  <2> SUFFICES ASSUME NEW i \in DOMAIN journal' PROVE EventIsTyped(journal'[i])
    OBVIOUS
  <2>1. i \in 1 .. Len(journal) \/ i = Len(journal) + 1
    BY <1>3
  <2> QED
    BY <1>3, <2>1 DEF GraphInv, TypeInv, JournalIsTyped
<1> QED
  BY <1>2, <1>3, <1>4 DEF JournalIsTyped

\* A start is the next attempt of the node where the traversal is.
LEMMA StartNodeKeeps == GraphInv /\ StartNode => GraphInv' /\ Walk!Visit
<1> SUFFICES ASSUME GraphInv, StartNode PROVE GraphInv' /\ Walk!Visit
  OBVIOUS
<1>1. /\ session.step = "loop" /\ Node \in Nodes /\ MayVisit /\ ~ Exhausted
      /\ Go("node")
  BY DEF StartNode, Visiting, InLoop
<1>2. /\ UpToDate /\ record.state \notin Fresh /\ session \in Session
      /\ Attempt = Concluded(journal, Node) + 1 /\ Attempt \in Nat
  BY <1>1, SessionFacts
<1>3. ~ OpenStart(journal) /\ ExpectedNode(journal) = Node
  BY <1>1, <1>2 DEF GraphInv, PlaceInv, Outside, UpToDate, Node
<1> DEFINE e == [type |-> "NODE_STARTED", node |-> Node, attempt |-> Attempt,
                 input |-> session.payload, context |-> session.context]
<1>4. /\ EventIsTyped(e) /\ e.type = "NODE_STARTED" /\ e.node = Node
      /\ e.type \notin Outcomes
  BY <1>1, <1>2 DEF EventIsTyped, NodeEvents, Outcomes, Approvals, Places, Session
<1>5. journal' = Append(journal, e) /\ UNCHANGED <<record, effects, faults>>
  BY DEF StartNode, Write
<1> HIDE DEF e
<1>6. /\ JournalIsTyped(journal') /\ Len(journal) \in Nat
      /\ Len(journal') = Len(journal) + 1
  BY <1>4, <1>5, AppendKeeps
<1>7. PICK S : journal \in Seq(S) /\ e \in S
  BY <1>4, <1>5, AppendKeeps
<1>8. /\ LastOutcome(journal') = LastOutcome(journal) /\ OpenStart(journal')
      /\ ExpectedNode(journal') = Node /\ ExpectedContext(journal') = ExpectedContext(journal)
  BY <1>3, <1>4, <1>5, <1>7, WalkGrows
<1>9. \A n \in Nodes :
        /\ Concluded(journal, n) \in Nat /\ VisitsIn(journal, n) = Concluded(journal, n)
        /\ Concluded(journal', n) = Concluded(journal, n)
        /\ VisitsIn(journal', n) = IF n = Node THEN VisitsIn(journal, n) + 1
                                   ELSE VisitsIn(journal, n)
  <2> SUFFICES ASSUME NEW n \in Nodes
               PROVE  /\ Concluded(journal, n) \in Nat
                      /\ VisitsIn(journal, n) = Concluded(journal, n)
                      /\ Concluded(journal', n) = Concluded(journal, n)
                      /\ VisitsIn(journal', n) = IF n = Node THEN VisitsIn(journal, n) + 1
                                                 ELSE VisitsIn(journal, n)
    OBVIOUS
  <2>1. VisitsIn(journal, n) = Concluded(journal, n)
    BY <1>3 DEF GraphInv, WalkInv
  <2>2. Concluded(journal, n) \in Nat /\ Concluded(journal', n) = Concluded(journal, n)
    BY <1>4, <1>5, <1>7, CountGrows, CountsArePicked
  <2>3. VisitsIn(journal', n) = IF n = Node THEN VisitsIn(journal, n) + 1
                                ELSE VisitsIn(journal, n)
    <3>1. e.type \in {"NODE_STARTED"}
      BY <1>4
    <3> QED
      BY <1>4, <1>5, <1>7, <3>1, CountGrows, CountsArePicked
  <2> QED
    BY <2>1, <2>2, <2>3
<1>10. /\ session' \in Session /\ session'.step = "node" /\ session'.handle = session.handle
       /\ session'.turns = session.turns /\ session'.tools = session.tools
  BY <1>1, <1>2 DEF Go, Session, Steps
<1>11. TypeInv'
  <2>1. session'.handle <= Len(journal')
    BY <1>2, <1>6, <1>10 DEF GraphInv, TypeInv, Session
  <2> QED
    BY <1>5, <1>6, <1>10, <2>1 DEF GraphInv, TypeInv
<1>12. WalkInv(journal')
  <2>1. LastOutcome(journal') # 0 =>
          journal'[LastOutcome(journal')].attempt
            = Concluded(journal', journal'[LastOutcome(journal')].node)
    <3> SUFFICES ASSUME LastOutcome(journal) # 0
                 PROVE  journal'[LastOutcome(journal)].attempt
                          = Concluded(journal', journal'[LastOutcome(journal)].node)
      BY <1>8
    <3>1. LastOutcome(journal) \in Of(journal, Outcomes)
      BY <1>7, LastOutcomeIs
    <3>2. /\ LastOutcome(journal) \in DOMAIN journal
          /\ journal[LastOutcome(journal)].node \in Nodes
      BY <3>1 DEF Of, GraphInv, TypeInv, JournalIsTyped, EventIsTyped, NodeEvents
    <3>3. journal'[LastOutcome(journal)] = journal[LastOutcome(journal)]
      BY <1>5, <1>7, <3>2, AppendFacts
    <3>4. journal[LastOutcome(journal)].attempt
            = Concluded(journal, journal[LastOutcome(journal)].node)
      BY DEF GraphInv, WalkInv
    <3> QED
      BY <1>9, <3>2, <3>3, <3>4
  <2>2. ExpectedContext(journal') \in Contexts
    BY <1>8 DEF GraphInv, WalkInv
  <2> QED
    BY <1>1, <1>8, <1>9, <2>1, <2>2 DEF WalkInv
<1>13. FreshInv'
  BY <1>2, <1>5 DEF FreshInv
<1>14. PlaceInv'
  BY <1>2, <1>5, <1>8, <1>9, <1>10 DEF PlaceInv, UpToDate, Node, Outside
<1>15. EffectInv'
  <2>1. \A i \in DOMAIN effects : effects[i] \in Effect /\ effects[i].node \in Nodes
    BY EffectFacts DEF GraphInv
  <2>2. \A i \in DOMAIN effects' : effects'[i].attempt <= VisitsIn(journal', effects'[i].node)
    <3> SUFFICES ASSUME NEW i \in DOMAIN effects
                 PROVE  effects[i].attempt <= VisitsIn(journal', effects[i].node)
      BY <1>5
    <3>1. effects[i].attempt \in Nat /\ effects[i].node \in Nodes
      BY <2>1 DEF Effect
    <3>2. effects[i].attempt <= VisitsIn(journal, effects[i].node)
      BY DEF GraphInv, EffectInv
    <3> QED
      BY <1>9, <3>1, <3>2
  <2>3. \A i \in DOMAIN effects : effects[i].node = Node => effects[i].attempt # Attempt
    <3> SUFFICES ASSUME NEW i \in DOMAIN effects, effects[i].node = Node
                 PROVE  effects[i].attempt # Attempt
      OBVIOUS
    <3>1. effects[i].attempt \in Nat /\ effects[i].attempt <= VisitsIn(journal, Node)
      BY <2>1 DEF Effect, GraphInv, EffectInv
    <3> QED
      BY <1>1, <1>2, <1>9, <3>1
  <2>4. ModelCalls = 0 /\ ToolCalls = 0
    <3>1. \A kind : {i \in DOMAIN effects : /\ effects[i].node = Node
                                            /\ effects[i].attempt = Attempt
                                            /\ effects[i].kind = kind} = {}
      BY <2>3
    <3> QED
      BY <3>1, FS_EmptySet DEF ModelCalls, ToolCalls, Made
  <2>5. Node' = Node /\ ModelCalls' = ModelCalls /\ ToolCalls' = ToolCalls
    BY <1>5 DEF Node, Attempt, ModelCalls, ToolCalls
  <2>6. session.turns = 0 /\ session.tools = 0
    BY <1>1 DEF GraphInv, EffectInv, SessionFits
  <2>7. SessionFits(session', journal', Node, ModelCalls, ToolCalls)
    BY <1>10, <2>4, <2>6 DEF SessionFits, Calling, BeforeTool, AfterTool
  <2> QED
    BY <2>2, <2>5, <2>7 DEF EffectInv
<1>16. Walk!Visit
  <2>1. \A n \in Nodes : /\ Visits(n) = VisitsIn(journal, n)
                         /\ Visits(n)' = VisitsIn(journal', n)
    BY DEF Visits, VisitsIn
  <2>2. Visits(Node) = 0 \/ Visits(Node) < MaxIterations[Node]
    <3>1. Visits(Node) = record.attempts[Node] /\ Visits(Node) \in Nat
      BY <1>1, <1>2, <1>9, <2>1 DEF UpToDate
    <3>2. Attempt = Visits(Node) + 1 /\ MaxIterations[Node] \in Nat
      BY <1>1, <3>1, GraphIsCompiled DEF Attempt
    <3> QED
      BY <1>1, <3>1, <3>2 DEF MayVisit, Exhausted, Policy
  <2>3. [n \in Nodes |-> Visits(n)]'
          = [[n \in Nodes |-> Visits(n)] EXCEPT ![Node] = @ + 1]
    BY <1>1, <1>9, <2>1
  <2>4. ExpectedNode(journal)' = ExpectedNode(journal) /\ OpenStart(journal)' = TRUE
    BY <1>3, <1>8 DEF OpenStart
  <2>5. [n \in Nodes |-> Visits(n)][Node] = Visits(Node)
    BY <1>1
  <2> QED
    BY <1>1, <1>3, <1>5, <2>2, <2>3, <2>4, <2>5 DEF Walk!Visit
<1> QED
  BY <1>11, <1>12, <1>13, <1>14, <1>15, <1>16 DEF GraphInv

\* The context for what follows an outcome is one.
LEMMA NextContextIsTyped ==
  ASSUME NEW attempts \in [Nodes -> Nat], NEW node \in Nodes, NEW attempt \in Nat,
         NEW next \in Places, NEW result \in Results, NEW context \in Contexts
  PROVE  NextContext(attempts, node, attempt, next, result, context) \in Contexts
<1>1. next \in Nodes => NextAttempt(attempts, node, attempt, next) \in Nat
  BY DEF NextAttempt
<1>2. None \in Contexts
  BY DEF None, Contexts
<1>3. CASE result = "retryable" /\ next \in Nodes
  <2>1. NextContext(attempts, node, attempt, next, result, context)
          = [origin |-> node, attempt |-> NextAttempt(attempts, node, attempt, next)]
    BY <1>3 DEF NextContext
  <2> QED
    BY <1>1, <1>3, <2>1 DEF Contexts
<1>4. CASE ~ (result = "retryable" /\ next \in Nodes)
  <2>1. CASE result = "completed" /\ context # None /\ context.origin # node /\ next \in Nodes
    <3>1. NextContext(attempts, node, attempt, next, result, context)
            = [context EXCEPT !.attempt = NextAttempt(attempts, node, attempt, next)]
      BY <1>4, <2>1 DEF NextContext
    <3> QED
      BY <1>1, <2>1, <3>1 DEF Contexts
  <2>2. CASE ~ (/\ result = "completed" /\ context # None
                /\ context.origin # node /\ next \in Nodes)
    <3>1. NextContext(attempts, node, attempt, next, result, context) = None
      BY <1>4, <2>2 DEF NextContext
    <3> QED
      BY <1>2, <3>1
  <2> QED
    BY <2>1, <2>2
<1> QED
  BY <1>3, <1>4

\* An outcome closes the visit and leads along an edge, also if the record does not come
\* to show it.
LEMMA FinishNodeKeeps == GraphInv /\ FinishNode => GraphInv' /\ Walk!Leave
<1> SUFFICES ASSUME GraphInv, FinishNode PROVE GraphInv' /\ Walk!Leave
  OBVIOUS
<1>1. PICK output \in Answers, duration \in Time : WriteOutcome(output, duration)
  BY DEF FinishNode
<1>2. session.step = "result" /\ session.step \in Inside /\ session.step # "idle"
  BY InsideSteps DEF FinishNode
<1>3. /\ OpenStart(journal) /\ ExpectedNode(journal) = Node /\ Node \in Nodes
      /\ Attempt = VisitsIn(journal, Node) /\ Attempt \in Nat
  BY <1>2, AttemptIsOpen
<1>4. /\ UpToDate /\ record.state \notin Fresh /\ session \in Session
      /\ Attempt = Concluded(journal, Node) + 1
  BY <1>2, <1>3, SessionFacts
<1>5. record \in Record /\ record.revision + 1 \in Nat
  BY DEF GraphInv, TypeInv, Record
<1> DEFINE next == Edge(Node, session.result)
           context == NextContext(record.attempts, Node, Attempt, next,
                                  session.result, session.context)
           e == [type |-> IF session.result = "completed" THEN "NODE_COMPLETED"
                          ELSE "NODE_FAILED",
                 node |-> Node, attempt |-> Attempt, input |-> session.payload,
                 output |-> output, next |-> next, result |-> session.result,
                 context |-> context, duration |-> duration,
                 revision |-> record.revision + 1]
<1>6. WriteAhead(e, NextRecord(e), At("loop", Len(journal) + 1, context))
  BY <1>1 DEF WriteOutcome
<1>7. next \in {OnSuccess[Node], OnFailure[Node]} /\ next \in Places
  BY <1>3, GraphIsCompiled DEF Edge
<1>8. context \in Contexts
  <2>1. record.attempts \in [Nodes -> Nat]
    BY <1>5 DEF Record
  <2>2. session.result \in Results /\ session.context \in Contexts
    BY <1>4 DEF Session
  <2> HIDE DEF next
  <2> QED
    BY <1>3, <1>7, <2>1, <2>2, NextContextIsTyped
<1> HIDE DEF next, context
<1>9. /\ e.type \in Outcomes /\ e.type # "NODE_STARTED" /\ e.node = Node
      /\ e.attempt = Attempt /\ e.next = next /\ e.context = context
      /\ e.revision = record.revision + 1
  BY DEF Outcomes
<1> HIDE DEF e
<1>10. EventIsTyped(e)
  <2>1. e.type \notin Approvals /\ e.type # "STATE_TRANSITIONED"
    BY <1>9 DEF Outcomes, Approvals
  <2> QED
    BY <1>3, <1>5, <1>7, <1>8, <1>9, <2>1 DEF EventIsTyped, Places
<1>11. journal' = Append(journal, e) /\ effects' = effects
  BY <1>6 DEF WriteAhead
<1>12. /\ JournalIsTyped(journal') /\ Len(journal) \in Nat
       /\ Len(journal') = Len(journal) + 1 /\ journal'[Len(journal) + 1] = e
  BY <1>10, <1>11, AppendKeeps
<1>13. PICK S : journal \in Seq(S) /\ e \in S
  BY <1>10, <1>11, AppendKeeps
<1>14. /\ LastOutcome(journal') = Len(journal) + 1 /\ ~ OpenStart(journal')
       /\ ExpectedNode(journal') = next /\ ExpectedContext(journal') = context
  BY <1>9, <1>11, <1>13, WalkGrows
<1>15. \A n \in Nodes :
         /\ Concluded(journal, n) \in Nat
         /\ Concluded(journal', n) = IF n = Node THEN Concluded(journal, n) + 1
                                     ELSE Concluded(journal, n)
         /\ VisitsIn(journal', n) = VisitsIn(journal, n)
         /\ VisitsIn(journal', n) = Concluded(journal', n)
  <2> SUFFICES ASSUME NEW n \in Nodes
               PROVE  /\ Concluded(journal, n) \in Nat
                      /\ Concluded(journal', n) = IF n = Node THEN Concluded(journal, n) + 1
                                                  ELSE Concluded(journal, n)
                      /\ VisitsIn(journal', n) = VisitsIn(journal, n)
                      /\ VisitsIn(journal', n) = Concluded(journal', n)
    OBVIOUS
  <2>1. VisitsIn(journal, n) = IF n = Node THEN Concluded(journal, n) + 1
                               ELSE Concluded(journal, n)
    BY <1>3 DEF GraphInv, WalkInv
  <2>2. /\ Concluded(journal, n) \in Nat
        /\ Concluded(journal', n) = IF n = Node THEN Concluded(journal, n) + 1
                                    ELSE Concluded(journal, n)
    BY <1>9, <1>11, <1>13, CountGrows, CountsArePicked
  <2>3. VisitsIn(journal', n) = VisitsIn(journal, n)
    <3>1. e.type \notin {"NODE_STARTED"}
      BY <1>9
    <3> QED
      BY <1>11, <1>13, <3>1, CountGrows, CountsArePicked
  <2> QED
    BY <2>1, <2>2, <2>3
<1>16. WalkInv(journal')
  <2>1. journal'[LastOutcome(journal')].attempt
          = Concluded(journal', journal'[LastOutcome(journal')].node)
    BY <1>3, <1>4, <1>9, <1>12, <1>14, <1>15
  <2> QED
    BY <1>7, <1>8, <1>14, <1>15, <2>1 DEF WalkInv
<1>17. \A i \in DOMAIN effects' : effects'[i].attempt <= VisitsIn(journal', effects'[i].node)
  <2>1. \A i \in DOMAIN effects : effects[i].node \in Nodes
    BY EffectFacts DEF GraphInv
  <2> QED
    BY <1>11, <1>15, <2>1 DEF GraphInv, EffectInv
<1>18. Walk!Leave
  <2>1. \A n \in Nodes : /\ Visits(n) = VisitsIn(journal, n)
                         /\ Visits(n)' = VisitsIn(journal', n)
    BY DEF Visits, VisitsIn
  <2>2. [n \in Nodes |-> Visits(n)]' = [n \in Nodes |-> Visits(n)]
    BY <1>15, <2>1
  <2>3. ExpectedNode(journal)' = next /\ OpenStart(journal)' = FALSE
    BY <1>14 DEF OpenStart
  <2> QED
    BY <1>3, <1>7, <1>11, <2>2, <2>3 DEF Walk!Leave
<1>19. CASE /\ record' = NextRecord(e)
            /\ session' = At("loop", Len(journal) + 1, context)
            /\ UNCHANGED faults
  <2>1. /\ record' \in Record /\ record'.state = record.state /\ record'.node = next
        /\ record'.attempts = [record.attempts EXCEPT ![Node] = Attempt]
    BY <1>3, <1>5, <1>7, <1>9, <1>19 DEF NextRecord, Record
  <2>2. /\ session' \in Session /\ session'.handle = 0 /\ session'.step = "loop"
        /\ session'.turns = 0 /\ session'.tools = 0
    BY <1>8, <1>12, <1>19 DEF At, Session, Steps, Replies, Results
  <2>3. TypeInv'
    BY <1>11, <1>12, <1>19, <2>1, <2>2 DEF GraphInv, TypeInv
  <2>4. FreshInv'
    BY <1>4, <2>1 DEF FreshInv
  <2>5. UpToDate'
    <3>1. \A n \in Nodes : record'.attempts[n] = Concluded(journal', n)
      BY <1>3, <1>4, <1>5, <1>15, <2>1 DEF UpToDate, Record
    <3> QED
      BY <1>14, <2>1, <3>1 DEF UpToDate
  <2>6. PlaceInv'
    BY <1>14, <2>2, <2>5 DEF PlaceInv, Inside, Outside
  <2>7. \A node, models, tools : SessionFits(session', journal', node, models, tools)
    BY <2>2 DEF SessionFits, Calling, BeforeTool, AfterTool
  <2>8. EffectInv'
    BY <1>17, <2>7 DEF EffectInv
  <2> QED
    BY <1>16, <1>18, <2>3, <2>4, <2>6, <2>8 DEF GraphInv
<1>20. CASE faults < MaxFaults /\ faults' = faults + 1 /\ session' = Idle /\ UNCHANGED record
  <2>1. Idle \in Session /\ Idle.handle = 0 /\ Idle.step = "idle"
    BY DEF Idle, At, None, Session, Contexts, Steps, Replies, Results
  <2>2. TypeInv'
    BY <1>11, <1>12, <1>20, <2>1, LoopIsBounded DEF GraphInv, TypeInv
  <2>3. FreshInv'
    BY <1>4, <1>20 DEF FreshInv
  <2>4. PlaceInv'
    BY <1>20, <2>1 DEF PlaceInv, Inside, Outside
  <2>5. \A node, models, tools : SessionFits(session', journal', node, models, tools)
    BY <1>20, <2>1 DEF SessionFits, Calling, BeforeTool, AfterTool
  <2>6. EffectInv'
    BY <1>17, <2>5 DEF EffectInv
  <2> QED
    BY <1>16, <1>18, <2>2, <2>3, <2>4, <2>6 DEF GraphInv
<1> QED
  BY <1>6, <1>19, <1>20 DEF WriteAhead

-----------------------------------------------------------------------------
(* The theorem.                                                            *)

\* The steps, one by one.
LEMMA GraphSteps ==
  ASSUME GraphInv, Next
  PROVE  GraphInv' /\ (Quiet \/ Walk!WalkNext)
<1> USE DEF Walk!WalkNext
<1>1. CASE Approve \/ RecordCallFails \/ Abort
  BY <1>1, ApproveKeeps, RecordCallFailsKeeps, RaiseKeeps
<1>2. CASE RecoverState \/ RecoverApproval \/ Execute \/ PrepareResume \/ Resume
  BY <1>2, RecoverStateKeeps, RecoverApprovalKeeps, ExecuteKeeps, PrepareResumeKeeps,
     ResumeKeeps
<1>3. CASE RefuseVisit \/ ExhaustRetries \/ RequestApproval \/ PauseForApproval
           \/ DenyAttempt \/ ExceedBudget \/ ResolveTerminal
  BY <1>3, RefuseVisitKeeps, ExhaustRetriesKeeps, RequestApprovalKeeps,
     PauseForApprovalKeeps, DenyAttemptKeeps, ExceedBudgetKeeps, ResolveTerminalKeeps
<1>4. CASE RunPolicy \/ PassGate \/ ReserveModel \/ CommitModel \/ RecordOverrun
           \/ ReserveTool \/ RecordCall \/ CommitTool \/ RecordOutcome \/ Raise
  BY <1>4, RunPolicyKeeps, ReserveModelKeeps, CommitModelKeeps, RecordOverrunKeeps,
     ReserveToolKeeps, RecordCallKeeps, CommitToolKeeps, RecordOutcomeKeeps, RaiseKeeps
<1>5. CASE StartNode \/ CallModel \/ DispatchTool \/ FinishNode
  BY <1>5, StartNodeKeeps, CallModelKeeps, DispatchToolKeeps, FinishNodeKeeps
<1> QED
  BY <1>1, <1>2, <1>3, <1>4, <1>5 DEF Next, Proceed, Traverse

\* The first state satisfies the invariant and starts a traversal.
LEMMA GraphBegins == Init => GraphInv /\ Walk!WalkInit
<1> SUFFICES ASSUME Init PROVE GraphInv /\ Walk!WalkInit
  OBVIOUS
<1>1. /\ journal = << >> /\ effects = << >> /\ session = Idle /\ faults = 0
      /\ record = [state |-> "INITIATED", revision |-> 0, node |-> Entry,
                   attempts |-> [n \in Nodes |-> 0], approval |-> "NOT_REQUIRED"]
  BY DEF Init
<1>2. /\ journal \in Seq({}) /\ Len(journal) = 0
      /\ \A types : Of(journal, types) = {}
  BY <1>1 DEF Of
<1>3. LastOutcome(journal) = 0
  <2>1. /\ journal \in Seq({}) /\ 0 \in Nat
        /\ \A k \in Of(journal, Outcomes) : k <= 0
    BY <1>2
  <2> HIDE DEF Outcomes
  <2> QED
    BY <2>1, LastOutcomeOnly
<1>4. /\ ~ OpenStart(journal) /\ ExpectedNode(journal) = Entry
      /\ ExpectedContext(journal) = None
  BY <1>2, <1>3 DEF OpenStart, Since, ExpectedNode, ExpectedContext
<1>5. \A n : Concluded(journal, n) = 0 /\ VisitsIn(journal, n) = 0
  <2>1. \A n, types : {i \in Of(journal, types) : journal[i].node = n} = {}
    BY <1>2
  <2> QED
    BY <2>1, FS_EmptySet DEF Concluded, VisitsIn
<1>6. Idle \in Session /\ Idle.handle = 0 /\ Idle.step = "idle" /\ None \in Contexts
  BY DEF Idle, At, None, Session, Contexts, Steps, Replies, Results
<1>7. TypeInv
  <2>1. record \in Record
    BY <1>1, GraphIsCompiled DEF Record, State, Places
  <2>2. JournalIsTyped(journal)
    BY <1>1, <1>2 DEF JournalIsTyped
  <2>3. effects \in Seq(Effect)
    BY <1>1
  <2> QED
    BY <1>1, <1>2, <1>6, <2>1, <2>2, <2>3, LoopIsBounded DEF TypeInv
<1>8. WalkInv(journal)
  BY <1>3, <1>4, <1>5, <1>6, GraphIsCompiled DEF WalkInv, Places
<1>9. FreshInv /\ PlaceInv
  BY <1>1, <1>2, <1>6 DEF FreshInv, PlaceInv, Outside, Inside
<1>10. EffectInv
  <2>1. \A node, models, tools : SessionFits(Idle, journal, node, models, tools)
    BY <1>6 DEF SessionFits, Calling, BeforeTool, AfterTool
  <2> QED
    BY <1>1, <2>1 DEF EffectInv
<1>11. Walk!WalkInit
  <2>1. [n \in Nodes |-> Visits(n)] = [n \in Nodes |-> 0]
    BY <1>5 DEF Visits, VisitsIn
  <2>2. OpenStart(journal) = FALSE
    BY <1>4 DEF OpenStart
  <2> QED
    BY <1>1, <1>4, <2>1, <2>2 DEF Walk!WalkInit
<1> QED
  BY <1>7, <1>8, <1>9, <1>10, <1>11 DEF GraphInv

\* A step that leaves the state as it is.
LEMMA GraphStutters ==
  ASSUME GraphInv, UNCHANGED vars PROVE GraphInv' /\ UNCHANGED Walk!walk
<1>1. UNCHANGED <<record, journal, effects, session, faults>>
  BY DEF vars
<1>2. UNCHANGED Walk!walk
  BY <1>1, NothingIsQuiet, QuietStutters
<1>3. GraphInv'
  BY <1>1 DEF GraphInv, TypeInv, FreshInv, PlaceInv, UpToDate, EffectInv, ModelCalls,
              ToolCalls, Node, Attempt
<1> QED
  BY <1>2, <1>3

\* However a traversal is interrupted, resumed, denied or paused, its journal and the calls
\* that were made walk the graph: no attempt is run twice, no call repeated, no edge skipped,
\* and no visit that was broken off is ever left.
THEOREM ExecutorImplementsTraversal == Spec => ImplementsTraversal
<1>1. Init => GraphInv /\ Walk!WalkInit
  BY GraphBegins
<1>2. GraphInv /\ [Next]_vars => GraphInv' /\ [Walk!WalkNext]_(Walk!walk)
  <2> SUFFICES ASSUME GraphInv, [Next]_vars
               PROVE  GraphInv' /\ [Walk!WalkNext]_(Walk!walk)
    OBVIOUS
  <2>1. CASE Next
    BY <2>1, GraphSteps, QuietStutters
  <2>2. CASE UNCHANGED vars
    BY <2>2, GraphStutters
  <2> QED
    BY <2>1, <2>2
<1> QED
  BY <1>1, <1>2, PTL DEF Spec, ImplementsTraversal, Walk!WalkSpec

-----------------------------------------------------------------------------
(* The account: what the journal says was consumed, reserved and called.   *)

\* Events that move the account, and those that do not.
LedgerEvents == {"NODE_STARTED"} \cup BudgetEvents \cup Outcomes
OtherEvents == Approvals \cup {"STATE_TRANSITIONED", "TOOL_CALLED", "TOOL_COMPLETED",
                               "TOOL_FAILED"}

Kinds == {"model", "tool"}

\* What an event that moves the account carries, at position n + 1.
EntryIsTyped(e, n) ==
  /\ e.type \in LedgerEvents \cup OtherEvents
  /\ e.type \in {"BUDGET_RESERVED", "BUDGET_COMMITTED"} => e.kind \in Kinds
  /\ e.type = "BUDGET_COMMITTED" =>
       /\ e.actual \in [Dimensions -> Nat]
       /\ e.actual["attempts"] = 0
       /\ e.actual["tool_calls"] = IF e.kind = "tool" THEN 1 ELSE 0
  /\ e.type \in {"BUDGET_COMMITTED", "BUDGET_RELEASED"} => e.reservation \in 1 .. n
  /\ e.type \in Outcomes => e.duration \in Nat

LedgerIsTyped(j) == \A i \in DOMAIN j : EntryIsTyped(j[i], i - 1)

\* Events of some types that count for a scope, and those of a kind.
Charged(j, types, s) == {i \in Of(j, types) : Within(j[i], s)}
OfKind(j, types, kind) == {i \in Of(j, types) : j[i].kind = kind}

\* What an event adds to what a scope has used of a dimension, but for the outcome of a node.
Charge(e, s, d) ==
  IF ~ Within(e, s) THEN 0
  ELSE IF e.type = "BUDGET_COMMITTED" THEN e.actual[d]
  ELSE IF e.type = "NODE_STARTED" /\ d = "attempts" THEN 1
  ELSE 0
-----------------------------------------------------------------------------
(* The inductive invariant of the account.                                 *)

\* Places of a session that has reserved, and those it reaches only without an excess.
Holding == {"model", "replied", "reserved", "called", "dispatched"}
Clean == Holding \cup {"node", "tools"}

\* One reservation is held at most, by the session or, if it died, by the open node.
HoldInv ==
  /\ session.step \in Holding =>
       /\ Active(journal) = {session.handle}
       /\ journal[session.handle].node = Node
       /\ journal[session.handle].kind =
            IF session.step \in {"model", "replied"} THEN "model" ELSE "tool"
  /\ session.step \notin Holding \cup {"idle"} => Active(journal) = {}
  /\ \A i \in Active(journal) : i > LastOutcome(journal) /\ OpenStart(journal)
  /\ \A i, k \in Active(journal) : i = k

\* A call that was made and not settled yet.
Unsettled(kind) ==
  IF session.step = (IF kind = "model" THEN "replied" ELSE "dispatched") THEN 1 ELSE 0

MadeOf(kind) == Cardinality({i \in DOMAIN effects : effects[i].kind = kind})
Known(j, kind) == Cardinality(OfKind(j, {"BUDGET_COMMITTED"}, kind))
Unknown(j, kind) == Cardinality({i \in Active(j) : j[i].kind = kind})

WrittenAhead(j, node, attempt, step) ==
  \E k \in Of(j, {"TOOL_CALLED"}) :
    j[k].node = node /\ j[k].attempt = attempt /\ j[k].step = step

\* Every call is settled, or the one that the session is about to settle, or was lost with
\* its session.
CountInv ==
  /\ \A kind \in Kinds :
       /\ MadeOf(kind) \in Known(journal, kind) .. Known(journal, kind) + Unknown(journal, kind)
       /\ session.step # "idle" => MadeOf(kind) = Known(journal, kind) + Unsettled(kind)
  /\ \A i \in DOMAIN effects :
       effects[i].kind = "tool" =>
         WrittenAhead(journal, effects[i].node, effects[i].attempt, effects[i].step)
  /\ session.step = "called" => WrittenAhead(journal, Node, Attempt, session.tools + 1)

\* There is room for what is reserved, in the scopes of the node where it is.
HasRoom(j, node, kind) ==
  \A s \in {"execution", node}, d \in Dimensions :
    Usage(j, s)[d] + Estimate(kind)[d] <= Limit[s][d]

RoomInv ==
  /\ LimitsHold
  /\ session.step \in Holding =>
       HasRoom(journal, Node, IF session.step \in {"model", "replied"} THEN "model" ELSE "tool")

\* An excess that came with the last outcome, before any event of the budget.
ExcessIsNew(j) == Of(j, BudgetEvents) = {} /\ ~ IsExceeded(Before(j, LastOutcome(j)))

\* ExcessUnnoticed, of a journal and the node that the session is at.
Unnoticed(j, node) ==
  /\ ~ IsExceeded(Before(j, LastOutcome(j)))
  /\ Of(j, {"BUDGET_COMMITTED", "BUDGET_EXCEEDED"}) = {}
  /\ \A s \in {"execution", node}, d \in Dimensions : ~ (Usage(j, s)[d] > Limit[s][d])

\* An excess ends the visit that it is found in, or keeps the next from beginning; but one that
\* came with an outcome, before there was any event of the budget, may not be noticed.
ExcessInv ==
  /\ session.step \in Clean /\ IsExceeded(journal) => Unnoticed(journal, Node)
  /\ IsExceeded(journal) /\ ~ OpenStart(journal) =>
       \/ ExcessIsNew(journal)
       \/ /\ ExpectedNode(journal) \in Nodes
          /\ ~ Fits(journal, ExpectedNode(journal), "attempt")

LedgerInv == LedgerIsTyped(journal) /\ HoldInv /\ CountInv /\ RoomInv /\ ExcessInv
-----------------------------------------------------------------------------
(* Sums.                                                                   *)

\* As many units as the bar of one summand is long.
LEMMA BarIsFinite ==
  ASSUME NEW x, NEW n \in Nat
  PROVE  IsFiniteSet({x} \X (1 .. n)) /\ Cardinality({x} \X (1 .. n)) = n
<1>1. IsFiniteSet({x}) /\ Cardinality({x}) = 1
  BY FS_Singleton
<1>2. IsFiniteSet(1 .. n) /\ Cardinality(1 .. n) = n
  BY FS_Interval
<1> DEFINE T == 1 .. n
<1> HIDE DEF T
<1>3. IsFiniteSet({x} \X T) /\ Cardinality({x} \X T) = Cardinality({x}) * Cardinality(T)
  BY <1>1, <1>2, FS_Product DEF T
<1>4. Cardinality({x} \X T) = 1 * n
  BY <1>1, <1>2, <1>3 DEF T
<1> QED
  BY <1>3, <1>4 DEF T

\* A finite sum of naturals is a natural.
LEMMA TotalIsNat ==
  ASSUME NEW f, IsFiniteSet(DOMAIN f), \A i \in DOMAIN f : f[i] \in Nat
  PROVE  IsFiniteSet(Units(f)) /\ Total(f) = Cardinality(Units(f)) /\ Total(f) \in Nat
<1> DEFINE bar(i) == {i} \X (1 .. f[i])
           bars == {bar(i) : i \in DOMAIN f}
           assign == [i \in DOMAIN f |-> bar(i)]
<1>1. IsFiniteSet(bars)
  <2> HIDE DEF bar
  <2>1. assign \in Surjection(DOMAIN f, bars)
    BY DEF Surjection
  <2> HIDE DEF bars, assign
  <2> QED
    BY <2>1, FS_Surjection
<1>2. \A T \in bars : IsFiniteSet(T)
  BY BarIsFinite
<1>3. IsFiniteSet(UNION bars)
  <2> HIDE DEF bars
  <2> QED
    BY <1>1, <1>2, FS_UNION
<1>4. Units(f) = UNION bars
  BY DEF Units
<1>5. Total(f) = Cardinality(Units(f))
  BY DEF Total
<1> HIDE DEF bars
<1> QED
  BY <1>3, <1>4, <1>5, FS_CardinalityType

\* One summand more.
LEMMA TotalAdds ==
  ASSUME NEW f, NEW g, NEW x, x \notin DOMAIN f, DOMAIN g = DOMAIN f \cup {x},
         IsFiniteSet(DOMAIN f), \A i \in DOMAIN f : f[i] \in Nat /\ g[i] = f[i],
         g[x] \in Nat
  PROVE  Total(g) = Total(f) + g[x]
<1> DEFINE bar == {x} \X (1 .. g[x])
<1>1. IsFiniteSet(Units(f)) /\ Total(f) = Cardinality(Units(f)) /\ Total(f) \in Nat
  BY TotalIsNat
<1>2. Total(g) = Cardinality(Units(g))
  BY DEF Total
<1>3. IsFiniteSet(bar) /\ Cardinality(bar) = g[x]
  BY BarIsFinite
<1>4. Units(f) \cap bar = {}
  BY DEF Units
<1>5. Units(g) = Units(f) \cup bar
  BY DEF Units
<1> HIDE DEF bar
<1>6. Cardinality(Units(f) \cap bar) = 0
  BY <1>4, FS_EmptySet
<1>7. Cardinality(Units(f) \cup bar)
        = Cardinality(Units(f)) + Cardinality(bar) - Cardinality(Units(f) \cap bar)
  BY <1>1, <1>3, FS_Union
<1> QED
  BY <1>1, <1>2, <1>3, <1>5, <1>6, <1>7

\* The sum of no terms.
LEMMA TotalOfNothing ==
  ASSUME NEW f, DOMAIN f = {}
  PROVE  Total(f) = 0
<1>1. Units(f) = {}
  BY DEF Units
<1>2. Total(f) = Cardinality(Units(f))
  BY DEF Total
<1> QED
  BY <1>1, <1>2, FS_EmptySet
-----------------------------------------------------------------------------
(* What an event adds to the account.                                      *)

\* The positions that count for a scope.
LEMMA ChargedGrows ==
  ASSUME NEW S, NEW j \in Seq(S), NEW e \in S, NEW types, NEW s
  PROVE  /\ IsFiniteSet(Charged(j, types, s)) /\ Charged(j, types, s) \subseteq 1 .. Len(j)
         /\ Charged(Append(j, e), types, s) =
              IF e.type \in types /\ Within(e, s) THEN Charged(j, types, s) \cup {Len(j) + 1}
              ELSE Charged(j, types, s)
<1> DEFINE k == Append(j, e)
<1>1. /\ Len(j) \in Nat /\ k[Len(j) + 1] = e
      /\ \A i \in 1 .. Len(j) : k[i] = j[i]
  BY AppendFacts
<1>2. /\ Of(k, types) =
           IF e.type \in types THEN Of(j, types) \cup {Len(j) + 1} ELSE Of(j, types)
      /\ Of(j, types) \subseteq 1 .. Len(j)
      /\ IsFiniteSet(Of(j, types))
  BY OfGrows
<1> HIDE DEF k
<1>3. Charged(j, types, s) \subseteq Of(j, types)
  BY DEF Charged
<1>4. IsFiniteSet(Charged(j, types, s))
  BY <1>2, <1>3, FS_Subset
<1>5. \A i \in Of(j, types) : k[i] = j[i]
  BY <1>1, <1>2
<1>6. \A i \in Of(k, types) : i \in Of(j, types) \/ (i = Len(j) + 1 /\ k[i] = e)
  BY <1>1, <1>2
<1>7. CASE e.type \in types /\ Within(e, s)
  <2>1. \A i : i \in Charged(k, types, s) <=> i \in Charged(j, types, s) \/ i = Len(j) + 1
    BY <1>2, <1>5, <1>6, <1>7 DEF Charged
  <2> QED
    BY <1>2, <1>3, <1>4, <1>7, <2>1 DEF k
<1>8. CASE ~ (e.type \in types /\ Within(e, s))
  <2>1. \A i : i \in Charged(k, types, s) <=> i \in Charged(j, types, s)
    BY <1>2, <1>5, <1>6, <1>8 DEF Charged
  <2> QED
    BY <1>2, <1>3, <1>4, <1>8, <2>1 DEF k
<1> QED
  BY <1>7, <1>8

\* The positions of a kind.
LEMMA OfKindGrows ==
  ASSUME NEW S, NEW j \in Seq(S), NEW e \in S, NEW types, NEW kind
  PROVE  /\ IsFiniteSet(OfKind(j, types, kind)) /\ OfKind(j, types, kind) \subseteq 1 .. Len(j)
         /\ OfKind(Append(j, e), types, kind) =
              IF e.type \in types /\ e.kind = kind THEN OfKind(j, types, kind) \cup {Len(j) + 1}
              ELSE OfKind(j, types, kind)
<1> DEFINE k == Append(j, e)
<1>1. /\ Len(j) \in Nat /\ k[Len(j) + 1] = e
      /\ \A i \in 1 .. Len(j) : k[i] = j[i]
  BY AppendFacts
<1>2. /\ Of(k, types) =
           IF e.type \in types THEN Of(j, types) \cup {Len(j) + 1} ELSE Of(j, types)
      /\ Of(j, types) \subseteq 1 .. Len(j)
      /\ IsFiniteSet(Of(j, types))
  BY OfGrows
<1> HIDE DEF k
<1>3. OfKind(j, types, kind) \subseteq Of(j, types)
  BY DEF OfKind
<1>4. IsFiniteSet(OfKind(j, types, kind))
  BY <1>2, <1>3, FS_Subset
<1>5. \A i \in Of(j, types) : k[i] = j[i]
  BY <1>1, <1>2
<1>6. CASE e.type \in types /\ e.kind = kind
  <2>1. \A i : i \in OfKind(k, types, kind) <=> i \in OfKind(j, types, kind) \/ i = Len(j) + 1
    BY <1>1, <1>2, <1>5, <1>6 DEF OfKind
  <2> QED
    BY <1>2, <1>3, <1>4, <1>6, <2>1 DEF k
<1>7. CASE ~ (e.type \in types /\ e.kind = kind)
  <2>1. \A i : i \in OfKind(k, types, kind) <=> i \in OfKind(j, types, kind)
    BY <1>1, <1>2, <1>5, <1>7 DEF OfKind
  <2> QED
    BY <1>2, <1>3, <1>4, <1>7, <2>1 DEF k
<1> QED
  BY <1>6, <1>7

\* What was committed in a scope.
Spent(j, s, d) == Total([i \in Charged(j, {"BUDGET_COMMITTED"}, s) |-> j[i].actual[d]])

\* What the calls of a scope have used, where nothing but starts counts as an attempt and no
\* gate was run.
LEMMA MeteredIs ==
  ASSUME NEW S, NEW j \in Seq(S), LedgerIsTyped(j), NEW s, NEW d \in Dimensions
  PROVE  /\ Spent(j, s, d) \in Nat /\ Metered(j, s)[d] \in Nat
         /\ Metered(j, s)[d] =
              IF d = "attempts" THEN Spent(j, s, d) + Cardinality(Charged(j, {"NODE_STARTED"}, s))
              ELSE Spent(j, s, d)
<1> DEFINE commits == Charged(j, {"BUDGET_COMMITTED"}, s)
           f == [i \in commits |-> j[i].actual[d]]
<1>1. \A i \in DOMAIN j : j[i].type \in LedgerEvents \cup OtherEvents
  BY DEF LedgerIsTyped, EntryIsTyped
<1>2. IsFiniteSet(commits) /\ IsFiniteSet(Charged(j, {"NODE_STARTED"}, s))
  <2>1. \A types : Charged(j, types, s) \subseteq Of(j, types)
    BY DEF Charged
  <2>2. \A types : Of(j, types) \subseteq 1 .. Len(j)
    BY DEF Of
  <2>3. IsFiniteSet(1 .. Len(j))
    BY FS_Interval
  <2> QED
    BY <2>1, <2>2, <2>3, FS_Subset
<1>3. \A i \in commits : f[i] \in Nat
  <2>1. \A i \in commits : i \in DOMAIN j /\ j[i].type = "BUDGET_COMMITTED"
    BY DEF Charged, Of
  <2>2. \A i \in commits : j[i].actual \in [Dimensions -> Nat]
    BY <2>1 DEF LedgerIsTyped, EntryIsTyped
  <2> QED
    BY <2>2
<1>4. Spent(j, s, d) \in Nat
  <2>1. DOMAIN f = commits
    OBVIOUS
  <2> HIDE DEF f, commits
  <2>2. Total(f) \in Nat
    BY <1>2, <1>3, <2>1, TotalIsNat
  <2> QED
    BY <2>2 DEF Spent, f, commits
<1>5. Of(j, Attempted) = Of(j, {"NODE_STARTED"}) /\ Of(j, {"VERIFICATION_GATE_RECORDED"}) = {}
  BY <1>1 DEF Of, Attempted, LedgerEvents, OtherEvents, BudgetEvents, Outcomes, Approvals
<1>6. CommittedUsage(j, s) = [x \in Dimensions |-> Spent(j, s, x)]
  BY DEF CommittedUsage, Spent, Charged
<1>7. Total([i \in {x \in Of(j, {"VERIFICATION_GATE_RECORDED"}) : Within(j[x], s)}
                |-> j[i].duration]) = 0
  BY <1>5, TotalOfNothing
<1>8. Cardinality({x \in Of(j, Attempted) : Within(j[x], s)})
        = Cardinality(Charged(j, {"NODE_STARTED"}, s))
  BY <1>5 DEF Charged
<1> DEFINE F == [x \in Dimensions |-> Spent(j, s, x)]
           starts == Cardinality(Charged(j, {"NODE_STARTED"}, s))
<1>9. Metered(j, s) = [[x \in Dimensions |-> Spent(j, s, x)] EXCEPT
                       !.attempts = @ + Cardinality(Charged(j, {"NODE_STARTED"}, s)),
                       !.duration_ms = @ + 0]
  BY <1>6, <1>7, <1>8 DEF Metered
<1>10. Cardinality(Charged(j, {"NODE_STARTED"}, s)) \in Nat
  BY <1>2, FS_CardinalityType
<1>11. F[d] = Spent(j, s, d) /\ DOMAIN F = Dimensions
  OBVIOUS
<1>12. Metered(j, s) = [F EXCEPT !["attempts"] = @ + starts, !["duration_ms"] = @ + 0]
  BY <1>9
<1> HIDE DEF F, starts
<1>13. Metered(j, s)[d] = IF d = "attempts" THEN F[d] + starts
                        ELSE IF d = "duration_ms" THEN F[d] + 0 ELSE F[d]
  BY <1>11, <1>12 DEF Dimensions
<1>14. Metered(j, s)[d] = IF d = "attempts" THEN Spent(j, s, d) + starts ELSE Spent(j, s, d)
  BY <1>4, <1>11, <1>13
<1> QED
  BY <1>4, <1>10, <1>14 DEF starts

\* An event adds its charge to what the calls of a scope have used.
LEMMA MeteredGrows ==
  ASSUME NEW S, NEW j \in Seq(S), NEW e \in S, LedgerIsTyped(j), EntryIsTyped(e, Len(j)),
         LedgerIsTyped(Append(j, e)), NEW s, NEW d \in Dimensions
  PROVE  /\ Metered(j, s)[d] \in Nat /\ Charge(e, s, d) \in Nat
         /\ Metered(Append(j, e), s)[d] = Metered(j, s)[d] + Charge(e, s, d)
<1> DEFINE k == Append(j, e)
<1>1. k \in Seq(S) /\ k[Len(j) + 1] = e /\ \A i \in 1 .. Len(j) : k[i] = j[i]
  BY AppendFacts
<1>2. /\ Spent(j, s, d) \in Nat /\ Metered(j, s)[d] \in Nat
      /\ Metered(j, s)[d] =
           IF d = "attempts" THEN Spent(j, s, d) + Cardinality(Charged(j, {"NODE_STARTED"}, s))
           ELSE Spent(j, s, d)
  BY MeteredIs
<1>3. Metered(k, s)[d] =
        IF d = "attempts" THEN Spent(k, s, d) + Cardinality(Charged(k, {"NODE_STARTED"}, s))
        ELSE Spent(k, s, d)
  BY <1>1, MeteredIs
<1>4. Charge(e, s, d) \in Nat
  BY DEF Charge, EntryIsTyped
<1>5. Spent(k, s, d) = Spent(j, s, d) +
        IF e.type = "BUDGET_COMMITTED" /\ Within(e, s) THEN e.actual[d] ELSE 0
  <2> DEFINE P == Charged(j, {"BUDGET_COMMITTED"}, s)
             Q == Charged(k, {"BUDGET_COMMITTED"}, s)
             f == [i \in P |-> j[i].actual[d]]
             g == [i \in Q |-> k[i].actual[d]]
  <2>1. /\ IsFiniteSet(P) /\ P \subseteq 1 .. Len(j)
        /\ Q = IF e.type = "BUDGET_COMMITTED" /\ Within(e, s) THEN P \cup {Len(j) + 1} ELSE P
    <3> DEFINE T == {"BUDGET_COMMITTED"}
    <3>1. /\ IsFiniteSet(P) /\ P \subseteq 1 .. Len(j)
          /\ Q = IF e.type \in T /\ Within(e, s) THEN P \cup {Len(j) + 1}
                 ELSE P
      <4> HIDE DEF P, Q
      <4>1. P = Charged(j, T, s) /\ Q = Charged(Append(j, e), T, s)
        BY DEF P, Q
      <4> HIDE DEF T
      <4> QED
        BY <4>1, ChargedGrows
    <3> QED
      BY <3>1
  <2>2. Spent(j, s, d) = Total(f) /\ Spent(k, s, d) = Total(g)
    BY DEF Spent
  <2>3. DOMAIN f = P /\ DOMAIN g = Q
    OBVIOUS
  <2>4. \A i \in P : f[i] \in Nat
    <3>1. \A i \in P : i \in DOMAIN j /\ j[i].type = "BUDGET_COMMITTED"
      BY DEF Charged, Of
    <3>2. \A i \in P : j[i].actual \in [Dimensions -> Nat]
      BY <3>1 DEF LedgerIsTyped, EntryIsTyped
    <3> QED
      BY <3>2
  <2>5. \A i \in P : i \in Q => g[i] = f[i]
    BY <1>1, <2>1
  <2>6. CASE e.type = "BUDGET_COMMITTED" /\ Within(e, s)
    <3>1. Len(j) + 1 \notin P /\ Len(j) + 1 \in Q
      BY <2>1, <2>6
    <3>2. g[Len(j) + 1] = e.actual[d] /\ e.actual[d] \in Nat
      BY <1>1, <2>6, <3>1 DEF EntryIsTyped
    <3>4. \A i \in DOMAIN f : f[i] \in Nat /\ g[i] = f[i]
      BY <2>1, <2>4, <2>5
    <3>5. DOMAIN g = DOMAIN f \cup {Len(j) + 1} /\ Len(j) + 1 \notin DOMAIN f
      BY <2>1, <2>3, <2>6, <3>1
    <3>6. IsFiniteSet(DOMAIN f) /\ g[Len(j) + 1] \in Nat
      BY <2>1, <2>3, <3>2
    <3> HIDE DEF f, g, P, Q
    <3>3. Total(g) = Total(f) + g[Len(j) + 1]
      BY <3>4, <3>5, <3>6, TotalAdds
    <3> QED
      BY <2>2, <2>6, <3>2, <3>3
  <2>7. CASE ~ (e.type = "BUDGET_COMMITTED" /\ Within(e, s))
    <3>1. g = f
      BY <2>1, <2>5, <2>7
    <3>2. Spent(k, s, d) = Spent(j, s, d)
      BY <2>2, <3>1
    <3> QED
      BY <1>2, <2>7, <3>2
  <2> QED
    BY <2>6, <2>7
<1>6. Cardinality(Charged(k, {"NODE_STARTED"}, s)) =
        Cardinality(Charged(j, {"NODE_STARTED"}, s))
          + IF e.type = "NODE_STARTED" /\ Within(e, s) THEN 1 ELSE 0
  <2> DEFINE P == Charged(j, {"NODE_STARTED"}, s)
             Q == Charged(k, {"NODE_STARTED"}, s)
  <2>1. /\ IsFiniteSet(P) /\ P \subseteq 1 .. Len(j)
        /\ Q = IF e.type = "NODE_STARTED" /\ Within(e, s) THEN P \cup {Len(j) + 1} ELSE P
    <3> DEFINE T == {"NODE_STARTED"}
    <3>1. /\ IsFiniteSet(P) /\ P \subseteq 1 .. Len(j)
          /\ Q = IF e.type \in T /\ Within(e, s) THEN P \cup {Len(j) + 1}
                 ELSE P
      <4> HIDE DEF P, Q
      <4>1. P = Charged(j, T, s) /\ Q = Charged(Append(j, e), T, s)
        BY DEF P, Q
      <4> HIDE DEF T
      <4> QED
        BY <4>1, ChargedGrows
    <3> QED
      BY <3>1
  <2> HIDE DEF P, Q
  <2>2. Len(j) + 1 \notin P
    BY <2>1
  <2>3. Cardinality(P) \in Nat /\ Cardinality(P \cup {Len(j) + 1}) = Cardinality(P) + 1
    BY <2>1, <2>2, FS_AddElement, FS_CardinalityType
  <2> QED
    BY <2>1, <2>3 DEF P, Q
<1>7. Cardinality(Charged(j, {"NODE_STARTED"}, s)) \in Nat
  BY ChargedGrows, FS_CardinalityType
<1>8. e.type = "BUDGET_COMMITTED" => e.actual \in [Dimensions -> Nat] /\ e.actual["attempts"] = 0
  BY DEF EntryIsTyped
<1> HIDE DEF k
<1> QED
  BY <1>2, <1>3, <1>4, <1>5, <1>6, <1>7, <1>8 DEF Charge, Dimensions, k

\* The time that a new event adds to what a scope has used: that of a node that is over before
\* any event of the budget.
Took(j, e, s) ==
  IF e.type \in Outcomes /\ Of(j, BudgetEvents) = {} /\ Within(e, s) THEN e.duration ELSE 0

\* The nodes that were over before any event of the budget.
LEMMA HistoricalGrows ==
  ASSUME NEW S, NEW j \in Seq(S), NEW e \in S, NEW s
  PROVE  /\ IsFiniteSet(Historical(j, s)) /\ Historical(j, s) \subseteq 1 .. Len(j)
         /\ Historical(Append(j, e), s) =
              IF e.type \in Outcomes /\ Of(j, BudgetEvents) = {} /\ Within(e, s)
              THEN Historical(j, s) \cup {Len(j) + 1} ELSE Historical(j, s)
<1> DEFINE k == Append(j, e)
<1>1. /\ DOMAIN k = 1 .. Len(j) + 1 /\ DOMAIN j = 1 .. Len(j) /\ Len(j) \in Nat
      /\ \A i \in 1 .. Len(j) : k[i] = j[i]
      /\ k[Len(j) + 1] = e
  BY AppendFacts
<1> HIDE DEF k
<1>2. /\ Historical(j, s) \subseteq Of(j, Outcomes) /\ Of(j, Outcomes) \subseteq 1 .. Len(j)
      /\ Of(j, BudgetEvents) \subseteq 1 .. Len(j)
  BY <1>1 DEF Historical, Of, Outcomes
<1>3. IsFiniteSet(Historical(j, s))
  BY <1>1, <1>2, FS_Interval, FS_Subset
<1>4. /\ Of(k, Outcomes) =
           IF e.type \in Outcomes THEN Of(j, Outcomes) \cup {Len(j) + 1} ELSE Of(j, Outcomes)
      /\ Of(k, BudgetEvents) =
           IF e.type \in BudgetEvents THEN Of(j, BudgetEvents) \cup {Len(j) + 1}
           ELSE Of(j, BudgetEvents)
  BY OfGrows DEF k
<1>5. \A i \in 1 .. Len(j) : i \in Historical(k, s) <=> i \in Historical(j, s)
  <2> SUFFICES ASSUME NEW i \in 1 .. Len(j)
               PROVE  i \in Historical(k, s) <=> i \in Historical(j, s)
    OBVIOUS
  <2>1. i < Len(j) + 1 /\ i # Len(j) + 1 /\ k[i] = j[i]
    BY <1>1
  <2>2. i \in Of(k, Outcomes) <=> i \in Of(j, Outcomes)
    BY <1>4, <2>1
  <2>3. (\A m \in Of(k, BudgetEvents) : i < m) <=> (\A m \in Of(j, BudgetEvents) : i < m)
    BY <1>4, <2>1
  <2> QED
    BY <2>1, <2>2, <2>3 DEF Historical, Outcomes
<1>6. Len(j) + 1 \in Historical(k, s) <=>
        e.type \in Outcomes /\ Of(j, BudgetEvents) = {} /\ Within(e, s)
  <2>1. Len(j) + 1 \in Of(k, Outcomes) <=> e.type \in Outcomes
    BY <1>1, <1>2, <1>4
  <2>2. e.type \in Outcomes => Of(k, BudgetEvents) = Of(j, BudgetEvents)
    BY <1>4 DEF Outcomes, BudgetEvents
  <2>3. (\A m \in Of(j, BudgetEvents) : Len(j) + 1 < m) <=> Of(j, BudgetEvents) = {}
    BY <1>1, <1>2
  <2> QED
    BY <1>1, <2>1, <2>2, <2>3 DEF Historical, Outcomes
<1>7. Historical(k, s) \subseteq 1 .. Len(j) + 1
  BY <1>1 DEF Historical, Of
<1>8. Historical(k, s) =
        IF e.type \in Outcomes /\ Of(j, BudgetEvents) = {} /\ Within(e, s)
        THEN Historical(j, s) \cup {Len(j) + 1} ELSE Historical(j, s)
  <2>1. Historical(j, s) \subseteq 1 .. Len(j)
    BY <1>1 DEF Historical, Of
  <2>2. 1 .. Len(j) + 1 = (1 .. Len(j)) \cup {Len(j) + 1} /\ Len(j) + 1 \notin 1 .. Len(j)
    BY <1>1
  <2> DEFINE H == Historical(k, s)
             G == Historical(j, s)
             D == 1 .. Len(j)
             l == Len(j) + 1
  <2>3. /\ \A i \in D : i \in H <=> i \in G
        /\ l \in H <=> e.type \in Outcomes /\ Of(j, BudgetEvents) = {} /\ Within(e, s)
        /\ H \subseteq D \cup {l} /\ G \subseteq D /\ l \notin D
    BY <1>5, <1>6, <1>7, <2>1, <2>2
  <2> HIDE DEF H, G, D, l, k
  <2>4. H = IF l \in H THEN G \cup {l} ELSE G
    <3>1. \A i : i \in H <=> i \in G \/ (i = l /\ l \in H)
      BY <2>3
    <3> QED
      BY <3>1
  <2> QED
    BY <2>3, <2>4 DEF H, G, D, l
<1> QED
  BY <1>2, <1>3, <1>8 DEF k

\* The time that they took.
LEMMA ElapsedGrows ==
  ASSUME NEW S, NEW j \in Seq(S), NEW e \in S, LedgerIsTyped(j), EntryIsTyped(e, Len(j)), NEW s
  PROVE  /\ Elapsed(j, s) \in Nat /\ Took(j, e, s) \in Nat
         /\ Elapsed(Append(j, e), s) = Elapsed(j, s) + Took(j, e, s)
<1> DEFINE k == Append(j, e)
           P == Historical(j, s)
           Q == Historical(k, s)
           f == [i \in P |-> j[i].duration]
           g == [i \in Q |-> k[i].duration]
           new == e.type \in Outcomes /\ Of(j, BudgetEvents) = {} /\ Within(e, s)
<1>1. /\ Len(j) \in Nat /\ DOMAIN j = 1 .. Len(j)
      /\ k[Len(j) + 1] = e /\ \A i \in 1 .. Len(j) : k[i] = j[i]
  BY AppendFacts
<1>2. IsFiniteSet(P) /\ P \subseteq 1 .. Len(j) /\ Q = IF new THEN P \cup {Len(j) + 1} ELSE P
  BY HistoricalGrows
<1>3. DOMAIN f = P /\ DOMAIN g = Q /\ Elapsed(j, s) = Total(f) /\ Elapsed(k, s) = Total(g)
  BY DEF Elapsed
<1>4. \A i \in P : f[i] \in Nat
  <2>1. \A i \in P : i \in DOMAIN j /\ j[i].type \in Outcomes
    BY DEF Historical, Of, Outcomes
  <2>2. \A i \in P : j[i].duration \in Nat
    BY <2>1 DEF LedgerIsTyped, EntryIsTyped
  <2> QED
    BY <2>2
<1>5. \A i \in P : i \in Q => g[i] = f[i]
  BY <1>1, <1>2
<1>6. e.type \in Outcomes => e.duration \in Nat
  BY DEF EntryIsTyped
<1>7. Total(f) \in Nat
  <2> HIDE DEF f, P
  <2> QED
    BY <1>2, <1>3, <1>4, TotalIsNat
<1>8. CASE new
  <2>1. Len(j) + 1 \notin P /\ Len(j) + 1 \in Q
    BY <1>1, <1>2, <1>8
  <2>2. g[Len(j) + 1] = e.duration /\ e.duration \in Nat
    BY <1>1, <1>6, <1>8, <2>1
  <2>3. \A i \in DOMAIN f : f[i] \in Nat /\ g[i] = f[i]
    BY <1>2, <1>4, <1>5
  <2>4. DOMAIN g = DOMAIN f \cup {Len(j) + 1} /\ Len(j) + 1 \notin DOMAIN f
    BY <1>2, <1>3, <1>8, <2>1
  <2>5. IsFiniteSet(DOMAIN f) /\ g[Len(j) + 1] \in Nat
    BY <1>2, <1>3, <2>2
  <2>6. Took(j, e, s) = e.duration
    BY <1>8 DEF Took
  <2> HIDE DEF f, g, P, Q, k, new
  <2>7. Total(g) = Total(f) + g[Len(j) + 1]
    BY <2>3, <2>4, <2>5, TotalAdds
  <2> QED
    BY <1>3, <1>7, <2>2, <2>6, <2>7 DEF k
<1>9. CASE ~ new
  <2>1. g = f
    BY <1>2, <1>5, <1>9
  <2>2. Took(j, e, s) = 0
    BY <1>9 DEF Took
  <2> HIDE DEF f, g, P, Q, new, k
  <2> QED
    BY <1>3, <1>7, <2>1, <2>2 DEF k
<1> QED
  BY <1>8, <1>9

\* Time is a number.
LEMMA ElapsedIsNat ==
  ASSUME NEW S, NEW j \in Seq(S), LedgerIsTyped(j), NEW s
  PROVE  Elapsed(j, s) \in Nat
<1> DEFINE P == Historical(j, s)
           f == [i \in P |-> j[i].duration]
<1>1. IsFiniteSet(P)
  <2>1. P \subseteq 1 .. Len(j) /\ Len(j) \in Nat
    BY DEF Historical, Of
  <2>2. IsFiniteSet(1 .. Len(j))
    BY <2>1, FS_Interval
  <2> HIDE DEF P
  <2> QED
    BY <2>1, <2>2, FS_Subset
<1>2. \A i \in P : f[i] \in Nat
  <2>1. \A i \in P : i \in DOMAIN j /\ j[i].type \in Outcomes
    BY DEF Historical, Of, Outcomes
  <2> QED
    BY <2>1 DEF LedgerIsTyped, EntryIsTyped
<1>3. Elapsed(j, s) = Total(f) /\ DOMAIN f = P
  BY DEF Elapsed
<1> HIDE DEF f, P
<1> QED
  BY <1>1, <1>2, <1>3, TotalIsNat

\* What a scope has used: its calls, and the time before any call.
LEMMA UsageIs ==
  ASSUME NEW S, NEW j \in Seq(S), LedgerIsTyped(j), NEW s, NEW d \in Dimensions
  PROVE  /\ Metered(j, s)[d] \in Nat /\ Elapsed(j, s) \in Nat /\ Usage(j, s)[d] \in Nat
         /\ Usage(j, s)[d] = IF d = "duration_ms" THEN Metered(j, s)[d] + Elapsed(j, s)
                             ELSE Metered(j, s)[d]
<1>1. Metered(j, s)[d] \in Nat
  BY MeteredIs
<1>2. Elapsed(j, s) \in Nat
  BY ElapsedIsNat
<1>3. d \in DOMAIN Metered(j, s)
  BY DEF Metered, CommittedUsage
<1>4. Usage(j, s)[d] = IF d = "duration_ms" THEN Metered(j, s)[d] + Elapsed(j, s)
                       ELSE Metered(j, s)[d]
  BY <1>3 DEF Usage
<1> QED
  BY <1>1, <1>2, <1>4

\* An event adds to what a scope has used.
LEMMA UsageAdds ==
  ASSUME NEW S, NEW j \in Seq(S), NEW e \in S, LedgerIsTyped(j), EntryIsTyped(e, Len(j)),
         LedgerIsTyped(Append(j, e)), NEW s, NEW d \in Dimensions
  PROVE  /\ Usage(j, s)[d] \in Nat /\ Charge(e, s, d) \in Nat /\ Took(j, e, s) \in Nat
         /\ Usage(Append(j, e), s)[d] =
              Usage(j, s)[d] + Charge(e, s, d) + IF d = "duration_ms" THEN Took(j, e, s) ELSE 0
<1> DEFINE k == Append(j, e)
<1>1. k \in Seq(S)
  BY AppendFacts
<1>2. /\ Metered(j, s)[d] \in Nat /\ Elapsed(j, s) \in Nat /\ Usage(j, s)[d] \in Nat
      /\ Usage(j, s)[d] = IF d = "duration_ms" THEN Metered(j, s)[d] + Elapsed(j, s)
                          ELSE Metered(j, s)[d]
  BY UsageIs
<1>3. Usage(k, s)[d] = IF d = "duration_ms" THEN Metered(k, s)[d] + Elapsed(k, s)
                       ELSE Metered(k, s)[d]
  BY <1>1, UsageIs
<1>4. Charge(e, s, d) \in Nat /\ Metered(k, s)[d] = Metered(j, s)[d] + Charge(e, s, d)
  BY MeteredGrows
<1>5. Took(j, e, s) \in Nat /\ Elapsed(k, s) = Elapsed(j, s) + Took(j, e, s)
  BY ElapsedGrows
<1> HIDE DEF k
<1> QED
  BY <1>2, <1>3, <1>4, <1>5 DEF k

\* An event that ends no node adds its charge.
LEMMA UsageGrows ==
  ASSUME NEW S, NEW j \in Seq(S), NEW e \in S, LedgerIsTyped(j), EntryIsTyped(e, Len(j)),
         LedgerIsTyped(Append(j, e)), e.type \notin Outcomes, NEW s, NEW d \in Dimensions
  PROVE  /\ Usage(j, s)[d] \in Nat /\ Charge(e, s, d) \in Nat
         /\ Usage(Append(j, e), s)[d] = Usage(j, s)[d] + Charge(e, s, d)
<1>1. Took(j, e, s) = 0
  BY DEF Took
<1> QED
  BY <1>1, UsageAdds

\* What is reserved and not closed.
LEMMA ActiveGrows ==
  ASSUME NEW S, NEW j \in Seq(S), NEW e \in S, LedgerIsTyped(j), EntryIsTyped(e, Len(j))
  PROVE  /\ Active(j) \subseteq Of(j, {"BUDGET_RESERVED"})
         /\ Active(j) \subseteq 1 .. Len(j)
         /\ Active(Append(j, e)) =
              CASE e.type = "BUDGET_RESERVED" -> Active(j) \cup {Len(j) + 1}
                [] e.type \in {"BUDGET_COMMITTED", "BUDGET_RELEASED"} ->
                     Active(j) \ {e.reservation}
                [] OTHER -> Active(j)
<1> DEFINE k == Append(j, e)
           closing == {"BUDGET_COMMITTED", "BUDGET_RELEASED"}
           Closed(l) == {l[i].reservation : i \in Of(l, closing)}
<1>1. /\ Len(j) \in Nat /\ k[Len(j) + 1] = e /\ DOMAIN j = 1 .. Len(j)
      /\ \A i \in 1 .. Len(j) : k[i] = j[i]
  BY AppendFacts
<1>2. /\ Of(k, {"BUDGET_RESERVED"}) =
           IF e.type = "BUDGET_RESERVED" THEN Of(j, {"BUDGET_RESERVED"}) \cup {Len(j) + 1}
           ELSE Of(j, {"BUDGET_RESERVED"})
      /\ Of(j, {"BUDGET_RESERVED"}) \subseteq 1 .. Len(j)
  <2>1. /\ Of(k, {"BUDGET_RESERVED"}) =
             IF e.type \in {"BUDGET_RESERVED"} THEN Of(j, {"BUDGET_RESERVED"}) \cup {Len(j) + 1}
             ELSE Of(j, {"BUDGET_RESERVED"})
        /\ Of(j, {"BUDGET_RESERVED"}) \subseteq 1 .. Len(j)
    BY OfGrows
  <2> QED
    BY <2>1
<1>3. /\ Of(k, closing) = IF e.type \in closing THEN Of(j, closing) \cup {Len(j) + 1}
                          ELSE Of(j, closing)
      /\ Of(j, closing) \subseteq 1 .. Len(j)
  BY OfGrows
<1>4. Active(j) = Of(j, {"BUDGET_RESERVED"}) \ Closed(j)
  BY DEF Active
<1>5. Active(k) = Of(k, {"BUDGET_RESERVED"}) \ Closed(k)
  BY DEF Active
<1>6. \A i \in Of(j, closing) : j[i].reservation \in 1 .. i - 1 /\ i \in 1 .. Len(j)
  BY <1>1, <1>3 DEF LedgerIsTyped, EntryIsTyped, Of
<1>7. \A x \in Closed(j) : x \in 1 .. Len(j)
  BY <1>1, <1>6
<1> HIDE DEF k
<1>8. Closed(k) = IF e.type \in closing THEN Closed(j) \cup {e.reservation} ELSE Closed(j)
  <2>1. \A i \in Of(j, closing) : k[i].reservation = j[i].reservation
    BY <1>1, <1>3
  <2>2. k[Len(j) + 1].reservation = e.reservation
    BY <1>1
  <2> HIDE DEF closing
  <2>3. CASE e.type \in closing
    BY <1>3, <2>1, <2>2, <2>3
  <2>4. CASE e.type \notin closing
    BY <1>3, <2>1, <2>4
  <2> QED
    BY <2>3, <2>4
<1> HIDE DEF Closed
<1>9. Active(j) \subseteq 1 .. Len(j) /\ Active(j) \subseteq Of(j, {"BUDGET_RESERVED"})
  BY <1>2, <1>4
<1>10. CASE e.type = "BUDGET_RESERVED"
  <2>1. Len(j) + 1 \notin Closed(j) /\ e.type \notin closing
    BY <1>1, <1>7, <1>10
  <2>2. Active(k) = Active(j) \cup {Len(j) + 1}
    BY <1>2, <1>4, <1>5, <1>8, <1>10, <2>1
  <2> QED
    BY <1>9, <1>10, <2>2 DEF k
<1>11. CASE e.type \in closing
  <2>1. Active(k) = Active(j) \ {e.reservation}
    BY <1>2, <1>4, <1>5, <1>8, <1>11
  <2> QED
    BY <1>9, <1>11, <2>1 DEF k
<1>12. CASE e.type \notin closing /\ e.type # "BUDGET_RESERVED"
  <2>1. Active(k) = Active(j)
    BY <1>2, <1>4, <1>5, <1>8, <1>12
  <2> QED
    BY <1>9, <1>12, <2>1 DEF k
<1> QED
  BY <1>10, <1>11, <1>12
-----------------------------------------------------------------------------
(* Journals with the same account.                                         *)

\* What an event that is appended leaves typed.
LEMMA EntryKeepsTyped ==
  ASSUME NEW S, NEW j \in Seq(S), NEW e \in S, LedgerIsTyped(j), EntryIsTyped(e, Len(j))
  PROVE  LedgerIsTyped(Append(j, e))
<1> DEFINE k == Append(j, e)
<1>1. /\ DOMAIN k = 1 .. Len(j) + 1 /\ DOMAIN j = 1 .. Len(j) /\ Len(j) \in Nat
      /\ \A i \in 1 .. Len(j) : k[i] = j[i]
      /\ k[Len(j) + 1] = e
  BY AppendFacts
<1> HIDE DEF k
<1> SUFFICES ASSUME NEW i \in DOMAIN k PROVE EntryIsTyped(k[i], i - 1)
  BY DEF LedgerIsTyped, k
<1>2. i \in 1 .. Len(j) \/ i = Len(j) + 1
  BY <1>1
<1>3. CASE i \in 1 .. Len(j)
  BY <1>1, <1>3 DEF LedgerIsTyped
<1>4. CASE i = Len(j) + 1
  BY <1>1, <1>4
<1> QED
  BY <1>2, <1>3, <1>4

\* The journal k goes on from j without a commit or a start.
Same(j, k) ==
  /\ LedgerIsTyped(k)
  /\ \A i \in DOMAIN j : i \in DOMAIN k /\ k[i] = j[i]
  /\ Active(k) = Active(j)
  /\ Of(k, {"BUDGET_COMMITTED"}) = Of(j, {"BUDGET_COMMITTED"})
  /\ \A s, d : d \in Dimensions => Usage(k, s)[d] = Usage(j, s)[d]

\* A journal has the same account as itself.
LEMMA StaysSame ==
  ASSUME NEW j, LedgerIsTyped(j)
  PROVE  Same(j, j)
BY DEF Same

\* An event that does not move the account leaves a journal with the same one.
LEMMA EntryIsSame ==
  ASSUME NEW S, NEW j \in Seq(S), NEW e \in S, LedgerIsTyped(j), EntryIsTyped(e, Len(j)),
         e.type \in OtherEvents \cup {"BUDGET_EXCEEDED"}
  PROVE  Same(j, Append(j, e))
<1> DEFINE k == Append(j, e)
<1>1. e.type \notin LedgerEvents \ {"BUDGET_EXCEEDED"}
  BY DEF OtherEvents, LedgerEvents, BudgetEvents, Outcomes, Approvals
<1>2. /\ e.type \notin {"BUDGET_COMMITTED", "NODE_STARTED", "BUDGET_RESERVED",
                        "BUDGET_RELEASED"}
      /\ e.type \notin Outcomes
  BY <1>1 DEF LedgerEvents, BudgetEvents, Outcomes
<1>3. LedgerIsTyped(k)
  BY EntryKeepsTyped
<1>4. \A i \in DOMAIN j : i \in DOMAIN k /\ k[i] = j[i]
  BY AppendFacts
<1>5. Active(k) = Active(j)
  BY <1>2, ActiveGrows
<1>6. Of(k, {"BUDGET_COMMITTED"}) = Of(j, {"BUDGET_COMMITTED"})
  <2>1. e.type \notin {"BUDGET_COMMITTED"}
    BY <1>2
  <2> QED
    BY <2>1, OfGrows
<1>7. ASSUME NEW s, NEW d \in Dimensions PROVE Usage(k, s)[d] = Usage(j, s)[d]
  <2>1. Charge(e, s, d) = 0
    BY <1>2 DEF Charge
  <2>2. /\ Usage(j, s)[d] \in Nat
        /\ Usage(k, s)[d] = Usage(j, s)[d] + Charge(e, s, d)
    BY <1>2, <1>3, UsageGrows
  <2> QED
    BY <2>1, <2>2
<1> HIDE DEF k
<1> QED
  BY <1>3, <1>4, <1>5, <1>6, <1>7 DEF Same, k

\* What an excess is.
LEMMA ExceededIs ==
  ASSUME NEW j
  PROVE  IsExceeded(j) <=>
           \/ \E s \in Scopes, d \in Dimensions : Usage(j, s)[d] > Limit[s][d]
           \/ \E i \in Of(j, {"BUDGET_EXCEEDED"}) : j[i].dimensions # {}
<1> DEFINE spent == UNION {{s} \X OverLimit(s, Usage(j, s)) : s \in Scopes}
           told == UNION {{j[i].scope} \X j[i].dimensions : i \in Of(j, {"BUDGET_EXCEEDED"})}
<1>1. (\E x : x \in spent) <=> \E s \in Scopes : \E d : d \in OverLimit(s, Usage(j, s))
  <2>1. ASSUME NEW x \in spent PROVE \E s \in Scopes : \E d : d \in OverLimit(s, Usage(j, s))
    <3>1. PICK s \in Scopes : x \in {s} \X OverLimit(s, Usage(j, s))
      BY <2>1
    <3>2. x[2] \in OverLimit(s, Usage(j, s))
      BY <3>1
    <3> QED
      BY <3>2
  <2>2. ASSUME NEW s \in Scopes, NEW d, d \in OverLimit(s, Usage(j, s))
        PROVE  <<s, d>> \in spent
    BY <2>2
  <2> QED
    BY <2>1, <2>2
<1>2. (\E x : x \in told) <=>
        \E i \in Of(j, {"BUDGET_EXCEEDED"}) : \E d : d \in j[i].dimensions
  <2> DEFINE Blames(i) == {j[i].scope} \X j[i].dimensions
  <2>1. ASSUME NEW x \in told
        PROVE  \E i \in Of(j, {"BUDGET_EXCEEDED"}) : \E d : d \in j[i].dimensions
    <3>1. PICK i \in Of(j, {"BUDGET_EXCEEDED"}) : x \in {j[i].scope} \X j[i].dimensions
      BY <2>1
    <3>2. x[2] \in j[i].dimensions
      BY <3>1
    <3> QED
      BY <3>2
  <2>2. ASSUME NEW i \in Of(j, {"BUDGET_EXCEEDED"}), NEW d, d \in j[i].dimensions
        PROVE  <<j[i].scope, d>> \in told
    BY <2>2
  <2> QED
    BY <2>1, <2>2
<1>3. ExceededDimensions(j) = spent \cup told
  BY DEF ExceededDimensions
<1> HIDE DEF spent, told
<1>4. IsExceeded(j) <=> (\E x : x \in spent) \/ \E x : x \in told
  BY <1>3 DEF IsExceeded
<1>5. \A s, d : d \in OverLimit(s, Usage(j, s)) <=>
                d \in Dimensions /\ Usage(j, s)[d] > Limit[s][d]
  BY DEF OverLimit
<1>6. \A i : j[i].dimensions # {} <=> \E d : d \in j[i].dimensions
  OBVIOUS
<1> QED
  BY <1>1, <1>2, <1>4, <1>5, <1>6

\* Another event does not change whether there is one.
LEMMA EntryKeepsExcess ==
  ASSUME NEW S, NEW j \in Seq(S), NEW e \in S, LedgerIsTyped(j), EntryIsTyped(e, Len(j)),
         e.type # "BUDGET_EXCEEDED",
         \A s \in Scopes, d \in Dimensions :
           Usage(Append(j, e), s)[d] > Limit[s][d] <=> Usage(j, s)[d] > Limit[s][d]
  PROVE  IsExceeded(Append(j, e)) <=> IsExceeded(j)
<1> DEFINE k == Append(j, e)
<1>1. Of(k, {"BUDGET_EXCEEDED"}) = Of(j, {"BUDGET_EXCEEDED"})
  <2>1. e.type \notin {"BUDGET_EXCEEDED"}
    OBVIOUS
  <2> QED
    BY <2>1, OfGrows
<1>2. \A i \in Of(j, {"BUDGET_EXCEEDED"}) : k[i] = j[i]
  BY AppendFacts DEF Of
<1> HIDE DEF k
<1> QED
  BY <1>1, <1>2, ExceededIs DEF k

\* With nothing reserved, an operation fits when its scopes have room for it.
LEMMA FitsIs ==
  ASSUME NEW S, NEW j \in Seq(S), LedgerIsTyped(j), Active(j) = {},
         NEW node \in Nodes, NEW kind
  PROVE  Fits(j, node, kind) <=> HasRoom(j, node, kind)
<1>1. ASSUME NEW s, NEW d \in Dimensions
      PROVE  Pending(j, s, kind)[d] = Usage(j, s)[d] + Estimate(kind)[d]
  <2>1. Total([i \in {x \in Active(j) : Within(j[x], s)} |-> Estimate(j[i].kind)[d]]) = 0
    BY TotalOfNothing
  <2>2. Usage(j, s)[d] \in Nat
    BY UsageIs
  <2>3. Estimate(kind)[d] \in Nat
    BY DEF Estimate, Dimensions
  <2>4. Pending(j, s, kind)[d] = Usage(j, s)[d] + Estimate(kind)[d]
          + Total([i \in {x \in Active(j) : Within(j[x], s)} |-> Estimate(j[i].kind)[d]])
    BY DEF Pending
  <2> QED
    BY <2>1, <2>2, <2>3, <2>4
<1>2. ASSUME NEW s \in {"execution", node}, NEW d \in Dimensions
      PROVE  ~ (Pending(j, s, kind)[d] > Limit[s][d]) <=>
               Usage(j, s)[d] + Estimate(kind)[d] <= Limit[s][d]
  <2>1. Limit[s][d] \in Nat
    BY LimitIsNat DEF Scopes
  <2>2. Usage(j, s)[d] \in Nat
    BY UsageIs
  <2>3. Estimate(kind)[d] \in Nat
    BY DEF Estimate, Dimensions
  <2> QED
    BY <1>1, <2>1, <2>2, <2>3
<1>3. Fits(j, node, kind) <=>
        \A s \in {"execution", node}, d \in Dimensions : ~ (Pending(j, s, kind)[d] > Limit[s][d])
  BY DEF Fits, Lacking, OverLimit
<1> QED
  BY <1>2, <1>3 DEF HasRoom

\* The limits of a scope: the last commit was of a call that there was room for.
LastFits(j, s) ==
  Charged(j, {"BUDGET_COMMITTED"}, s) # {} =>
    Usage(Before(j, Max(Charged(j, {"BUDGET_COMMITTED"}, s))), s)["duration_ms"]
      < Limit[s]["duration_ms"]

HeldTools(j, s) == {i \in Active(j) : Within(j[i], s) /\ j[i].kind = "tool"}

LimitAt(j, s) ==
  /\ Usage(j, s)["attempts"] <= Limit[s]["attempts"]
  /\ Usage(j, s)["tool_calls"] + Cardinality(HeldTools(j, s)) <= Limit[s]["tool_calls"]
  /\ LastFits(j, s)

\* The limits hold when they do at every scope.
LEMMA LimitsAre == LimitsHold <=> \A s \in Scopes : LimitAt(journal, s)
BY DEF LimitsHold, LimitAt, LastFits, HeldTools, Charged

\* What came before a position stays.
LEMMA BeforeStays ==
  ASSUME NEW S, NEW j \in Seq(S), NEW T, NEW k \in Seq(T),
         \A i \in DOMAIN j : i \in DOMAIN k /\ k[i] = j[i], NEW m \in DOMAIN j
  PROVE  Before(k, m) = Before(j, m)
<1>1. Len(j) \in Nat /\ Len(k) \in Nat /\ DOMAIN j = 1 .. Len(j) /\ DOMAIN k = 1 .. Len(k)
  OBVIOUS
<1>2. \A i \in 1 .. m - 1 : i \in DOMAIN j /\ i \in DOMAIN k /\ k[i] = j[i]
  BY <1>1
<1>3. m \in 1 .. Len(j) /\ m \in 1 .. Len(k) /\ m - 1 \in 0 .. Len(j) /\ m - 1 \in 0 .. Len(k)
  BY <1>1
<1>4. /\ Before(j, m) \in Seq(S) /\ Len(Before(j, m)) = m - 1
      /\ \A i \in 1 .. m - 1 : Before(j, m)[i] = j[i]
  BY <1>1, <1>3, SubSeqProperties DEF Before
<1>5. /\ Before(k, m) \in Seq(T) /\ Len(Before(k, m)) = m - 1
      /\ \A i \in 1 .. m - 1 : Before(k, m)[i] = k[i]
  BY <1>1, <1>3, SubSeqProperties DEF Before
<1>6. /\ Before(j, m) = [i \in 1 .. Len(Before(j, m)) |-> Before(j, m)[i]]
      /\ Before(k, m) = [i \in 1 .. Len(Before(k, m)) |-> Before(k, m)[i]]
  BY <1>4, <1>5
<1> QED
  BY <1>2, <1>4, <1>5, <1>6

\* Another event is of this module alone.
LEMMA OtherIsTyped ==
  ASSUME NEW e, NEW n, e.type \in OtherEvents
  PROVE  EntryIsTyped(e, n)
<1>1. /\ e.type \notin {"BUDGET_RESERVED", "BUDGET_COMMITTED", "BUDGET_RELEASED"}
      /\ e.type \notin Outcomes
  BY DEF OtherEvents, Outcomes, Approvals
<1> QED
  BY <1>1 DEF EntryIsTyped

\* An event that ends no node leaves the last outcome, and what came before it.
LEMMA OutcomeStays ==
  ASSUME NEW S, NEW j \in Seq(S), NEW e \in S, e.type \notin Outcomes
  PROVE  /\ LastOutcome(Append(j, e)) = LastOutcome(j)
         /\ Before(Append(j, e), LastOutcome(j)) = Before(j, LastOutcome(j))
<1> DEFINE k == Append(j, e)
<1>1. Of(k, Outcomes) = Of(j, Outcomes)
  BY OfGrows
<1>2. k \in Seq(S) /\ \A i \in DOMAIN j : i \in DOMAIN k /\ k[i] = j[i]
  BY AppendFacts
<1> HIDE DEF k
<1>3. LastOutcome(k) = LastOutcome(j)
  BY <1>1 DEF LastOutcome
<1>4. CASE LastOutcome(j) = 0
  <2>1. Before(k, 0) = << >> /\ Before(j, 0) = << >>
    BY <1>2, SubSeqEmpty DEF Before
  <2> QED
    BY <1>3, <1>4, <2>1 DEF k
<1>5. CASE LastOutcome(j) \in Of(j, Outcomes)
  <2>1. LastOutcome(j) \in DOMAIN j
    BY <1>5 DEF Of
  <2> QED
    BY <1>2, <1>3, <2>1, BeforeStays DEF k
<1> QED
  BY <1>4, <1>5, LastOutcomeIs

\* An excess that is new stays so until there is an event of the budget.
LEMMA NewStays ==
  ASSUME NEW S, NEW j \in Seq(S), NEW e \in S, e.type \notin Outcomes \cup BudgetEvents,
         ExcessIsNew(j)
  PROVE  ExcessIsNew(Append(j, e))
<1>1. Of(Append(j, e), BudgetEvents) = Of(j, BudgetEvents)
  BY OfGrows
<1> QED
  BY <1>1, OutcomeStays DEF ExcessIsNew

\* An excess that is not noticed stays so until there is a commit, or a start.
LEMMA UnnoticedStays ==
  ASSUME NEW S, NEW j \in Seq(S), NEW e \in S, LedgerIsTyped(j), EntryIsTyped(e, Len(j)),
         e.type \notin Outcomes,
         e.type \notin {"BUDGET_COMMITTED", "BUDGET_EXCEEDED", "NODE_STARTED"},
         NEW node, Unnoticed(j, node)
  PROVE  Unnoticed(Append(j, e), node)
<1> DEFINE k == Append(j, e)
<1>1. LedgerIsTyped(k)
  BY EntryKeepsTyped
<1>2. ~ IsExceeded(Before(k, LastOutcome(k)))
  BY OutcomeStays DEF Unnoticed
<1>3. Of(k, {"BUDGET_COMMITTED", "BUDGET_EXCEEDED"}) = {}
  <2>1. e.type \notin {"BUDGET_COMMITTED", "BUDGET_EXCEEDED"}
    OBVIOUS
  <2> QED
    BY <2>1, OfGrows DEF Unnoticed
<1>4. ASSUME NEW s \in {"execution", node}, NEW d \in Dimensions
      PROVE  ~ (Usage(k, s)[d] > Limit[s][d])
  <2>1. Charge(e, s, d) = 0
    BY DEF Charge
  <2>2. /\ Usage(j, s)[d] \in Nat
        /\ Usage(k, s)[d] = Usage(j, s)[d] + Charge(e, s, d)
    BY <1>1, UsageGrows
  <2>3. Usage(k, s)[d] = Usage(j, s)[d]
    BY <2>1, <2>2
  <2> QED
    BY <2>3 DEF Unnoticed
<1> HIDE DEF k
<1> QED
  BY <1>2, <1>3, <1>4 DEF Unnoticed, k

\* What is not noticed of the journal.
LEMMA UnnoticedIs ==
  ASSUME Node \in Nodes
  PROVE  ExcessUnnoticed <=> Unnoticed(journal, Node)
<1>1. ASSUME Of(journal, {"BUDGET_COMMITTED", "BUDGET_EXCEEDED"}) = {},
             NEW s \in Scopes, NEW d \in Dimensions
      PROVE  <<s, d>> \in ExceededDimensions(journal) <=> Usage(journal, s)[d] > Limit[s][d]
  <2>1. Of(journal, {"BUDGET_EXCEEDED"}) = {}
    BY <1>1 DEF Of
  <2>2. ExceededDimensions(journal)
          = UNION {{t} \X OverLimit(t, Usage(journal, t)) : t \in Scopes}
    BY <2>1 DEF ExceededDimensions
  <2>3. \A t : <<s, d>> \in {t} \X OverLimit(t, Usage(journal, t))
                <=> t = s /\ d \in OverLimit(t, Usage(journal, t))
    OBVIOUS
  <2>4. <<s, d>> \in ExceededDimensions(journal) <=> d \in OverLimit(s, Usage(journal, s))
    BY <2>2, <2>3
  <2> QED
    BY <2>4 DEF OverLimit
<1>2. "execution" \in Scopes /\ Node \in Scopes
  BY DEF Scopes
<1> QED
  BY <1>1, <1>2 DEF ExcessUnnoticed, Unnoticed, Node

\* The last commit of a scope.
LEMMA LastCommit ==
  ASSUME NEW S, NEW j \in Seq(S), NEW s, Charged(j, {"BUDGET_COMMITTED"}, s) # {}
  PROVE  /\ Max(Charged(j, {"BUDGET_COMMITTED"}, s)) \in Charged(j, {"BUDGET_COMMITTED"}, s)
         /\ Max(Charged(j, {"BUDGET_COMMITTED"}, s)) \in DOMAIN j
<1> DEFINE C == Charged(j, {"BUDGET_COMMITTED"}, s)
<1>1. C \subseteq DOMAIN j /\ DOMAIN j = 1 .. Len(j) /\ Len(j) \in Nat
  BY DEF Charged, Of
<1>2. C \in SUBSET (0 .. Len(j))
  BY <1>1
<1>3. C # {}
  OBVIOUS
<1> HIDE DEF C
<1> QED
  BY <1>1, <1>2, <1>3, MaxIsLast DEF C

\* What follows from the same account.
LEMMA SameCounts ==
  ASSUME NEW S, NEW j \in Seq(S), NEW T, NEW k \in Seq(T), Same(j, k), NEW kind
  PROVE  Known(k, kind) = Known(j, kind) /\ Unknown(k, kind) = Unknown(j, kind)
<1>1. Of(j, {"BUDGET_COMMITTED"}) \subseteq DOMAIN j /\ Active(j) \subseteq DOMAIN j
  BY DEF Active, Of
<1>2. OfKind(k, {"BUDGET_COMMITTED"}, kind) = OfKind(j, {"BUDGET_COMMITTED"}, kind)
  BY <1>1 DEF OfKind, Same
<1>3. {i \in Active(k) : k[i].kind = kind} = {i \in Active(j) : j[i].kind = kind}
  BY <1>1 DEF Same
<1> QED
  BY <1>2, <1>3 DEF Known, Unknown

\* The same account is within the same limits.
LEMMA SameLimits ==
  ASSUME NEW S, NEW j \in Seq(S), NEW T, NEW k \in Seq(T), Same(j, k), NEW s \in Scopes,
         LimitAt(j, s)
  PROVE  LimitAt(k, s)
<1>1. Of(j, {"BUDGET_COMMITTED"}) \subseteq DOMAIN j /\ Active(j) \subseteq DOMAIN j
  BY DEF Active, Of
<1>2. Charged(k, {"BUDGET_COMMITTED"}, s) = Charged(j, {"BUDGET_COMMITTED"}, s)
  BY <1>1 DEF Charged, Same
<1>3. HeldTools(k, s) = HeldTools(j, s)
  BY <1>1 DEF Same, HeldTools
<1>4. \A d \in Dimensions : Usage(k, s)[d] = Usage(j, s)[d]
  BY DEF Same
<1>5. "attempts" \in Dimensions /\ "tool_calls" \in Dimensions
  BY DEF Dimensions
<1>6. ASSUME Charged(j, {"BUDGET_COMMITTED"}, s) # {}
      PROVE  Before(k, Max(Charged(j, {"BUDGET_COMMITTED"}, s)))
               = Before(j, Max(Charged(j, {"BUDGET_COMMITTED"}, s)))
  <2>1. Max(Charged(j, {"BUDGET_COMMITTED"}, s)) \in DOMAIN j
    BY <1>6, LastCommit
  <2>2. \A i \in DOMAIN j : i \in DOMAIN k /\ k[i] = j[i]
    BY DEF Same
  <2> QED
    BY <2>1, <2>2, BeforeStays
<1> QED
  BY <1>2, <1>3, <1>4, <1>5, <1>6 DEF LimitAt, LastFits

\* The same account has the same room.
LEMMA SameRoom ==
  ASSUME NEW j, NEW k, Same(j, k), NEW node, NEW kind
  PROVE  HasRoom(k, node, kind) <=> HasRoom(j, node, kind)
BY DEF HasRoom, Same

\* The same account has room for the same attempt.
LEMMA SameFits ==
  ASSUME NEW S, NEW j \in Seq(S), NEW T, NEW k \in Seq(T), Same(j, k), LedgerIsTyped(j),
         Active(j) = {}, NEW node \in Nodes, NEW kind
  PROVE  Fits(k, node, kind) <=> Fits(j, node, kind)
<1>1. LedgerIsTyped(k) /\ Active(k) = {}
  BY DEF Same
<1> QED
  BY <1>1, FitsIs, SameRoom

\* A journal with the same account still has the tool calls written ahead.
LEMMA SameAhead ==
  ASSUME NEW j, NEW k, Same(j, k), NEW node, NEW attempt, NEW step,
         WrittenAhead(j, node, attempt, step)
  PROVE  WrittenAhead(k, node, attempt, step)
BY DEF WrittenAhead, Same, Of
-----------------------------------------------------------------------------
(* Steps that keep the account.                                            *)

Replying == {"model", "replied"}

\* What a session that goes on has to know.
SessionAccounts ==
  /\ session'.step \in Holding =>
       /\ session.step \in Holding
       /\ session'.handle = session.handle
       /\ Node' = Node
       /\ session'.step \in Replying <=> session.step \in Replying
  /\ session'.step \notin Holding \cup {"idle"} => Active(journal) = {}
  /\ session'.step # "idle" =>
       \A kind \in Kinds : MadeOf(kind) = Known(journal, kind) + Unsettled(kind)'
  /\ session'.step = "called" => WrittenAhead(journal', Node', Attempt', session'.tools + 1)

\* A step that leaves the account and the calls alone, and whose session holds what it held.
LEMMA StillAccounts ==
  ASSUME JournalIsTyped(journal), JournalIsTyped(journal'), LedgerInv,
         Same(journal, journal'), effects' = effects,
         Quiet, SessionAccounts, ExcessInv'
  PROVE  LedgerInv'
<1>1. PICK S : journal \in Seq(S)
  BY DEF JournalIsTyped
<1>2. PICK T : journal' \in Seq(T)
  BY DEF JournalIsTyped
<1>3. Active(journal') = Active(journal)
  BY DEF Same
<1>4. \A i \in Active(journal) : i \in DOMAIN journal' /\ journal'[i] = journal[i]
  BY DEF Same, Active, Of
<1>5. HoldInv'
  <2>1. session'.step \in Holding =>
          /\ Active(journal') = {session'.handle}
          /\ journal'[session'.handle].node = Node'
          /\ journal'[session'.handle].kind =
               IF session'.step \in {"model", "replied"} THEN "model" ELSE "tool"
    <3> SUFFICES ASSUME session'.step \in Holding
                 PROVE  /\ Active(journal') = {session'.handle}
                        /\ journal'[session'.handle].node = Node'
                        /\ journal'[session'.handle].kind =
                             IF session'.step \in {"model", "replied"} THEN "model" ELSE "tool"
      OBVIOUS
    <3>1. /\ session.step \in Holding /\ session'.handle = session.handle /\ Node' = Node
          /\ session'.step \in Replying <=> session.step \in Replying
      BY DEF SessionAccounts
    <3>2. /\ Active(journal) = {session.handle}
          /\ journal[session.handle].node = Node
          /\ journal[session.handle].kind = IF session.step \in Replying THEN "model" ELSE "tool"
      BY <3>1 DEF LedgerInv, HoldInv, Replying
    <3>3. journal'[session.handle] = journal[session.handle]
      BY <1>4, <3>2
    <3> QED
      BY <1>3, <3>1, <3>2, <3>3 DEF Replying
  <2>2. session'.step \notin Holding \cup {"idle"} => Active(journal') = {}
    BY <1>3 DEF SessionAccounts
  <2>3. ASSUME NEW i \in Active(journal') PROVE i > LastOutcome(journal') /\ OpenStart(journal')
    <3>1. Quiet /\ i \in Active(journal)
      BY <1>3
    <3>2. i > LastOutcome(journal) /\ OpenStart(journal)
      BY <3>1 DEF LedgerInv, HoldInv
    <3> QED
      BY <3>1, <3>2 DEF Quiet, Extends
  <2>4. \A i, k \in Active(journal') : i = k
    BY <1>3 DEF LedgerInv, HoldInv
  <2> QED
    BY <2>1, <2>2, <2>3, <2>4 DEF HoldInv
<1>6. CountInv'
  <2>1. \A kind : MadeOf(kind)' = MadeOf(kind)
    BY DEF MadeOf
  <2>2. \A kind : /\ Known(journal', kind) = Known(journal, kind)
                  /\ Unknown(journal', kind) = Unknown(journal, kind)
    BY <1>1, <1>2, SameCounts
  <2>3. ASSUME NEW kind \in Kinds
        PROVE  MadeOf(kind)' \in
                 Known(journal', kind) .. Known(journal', kind) + Unknown(journal', kind)
    BY <2>1, <2>2 DEF LedgerInv, CountInv
  <2>4. ASSUME NEW kind \in Kinds, session'.step # "idle"
        PROVE  MadeOf(kind)' = Known(journal', kind) + Unsettled(kind)'
    BY <2>1, <2>2, <2>4 DEF SessionAccounts
  <2>5. ASSUME NEW i \in DOMAIN effects', effects'[i].kind = "tool"
        PROVE  WrittenAhead(journal', effects'[i].node, effects'[i].attempt, effects'[i].step)
    <3>1. WrittenAhead(journal, effects[i].node, effects[i].attempt, effects[i].step)
      BY <2>5 DEF LedgerInv, CountInv
    <3> QED
      BY <3>1, SameAhead
  <2> QED
    BY <2>3, <2>4, <2>5 DEF CountInv, SessionAccounts
<1>7. RoomInv'
  <2>1. LimitsHold'
    <3>1. \A s \in Scopes : LimitAt(journal', s)
      BY <1>1, <1>2, SameLimits, LimitsAre DEF LedgerInv, RoomInv
    <3> QED
      BY <3>1 DEF LimitsHold, LimitAt, LastFits, HeldTools, Charged
  <2>2. ASSUME session'.step \in Holding
        PROVE  HasRoom(journal', Node',
                       IF session'.step \in {"model", "replied"} THEN "model" ELSE "tool")
    <3>1. /\ session.step \in Holding /\ Node' = Node
          /\ session'.step \in Replying <=> session.step \in Replying
      BY <2>2 DEF SessionAccounts
    <3>2. HasRoom(journal, Node, IF session.step \in Replying THEN "model" ELSE "tool")
      BY <3>1 DEF LedgerInv, RoomInv, Replying
    <3> DEFINE kind == IF session.step \in Replying THEN "model" ELSE "tool"
    <3>3. kind = IF session'.step \in {"model", "replied"} THEN "model" ELSE "tool"
      BY <3>1 DEF Replying
    <3> HIDE DEF kind
    <3>4. HasRoom(journal', Node, kind)
      BY <3>2, SameRoom DEF kind
    <3> QED
      BY <3>1, <3>3, <3>4
  <2> QED
    BY <2>1, <2>2 DEF RoomInv
<1> QED
  BY <1>5, <1>6, <1>7 DEF LedgerInv, Same

\* After an excess that is noticed nothing is started, reserved or called.
Spares ==
  IsExceeded(journal) /\ ~ ExcessUnnoticed =>
    /\ effects' = effects
    /\ \A i \in DOMAIN journal' \ DOMAIN journal :
         journal'[i].type \notin {"NODE_STARTED", "BUDGET_RESERVED", "TOOL_CALLED"}

\* A journal and an event that may be none of its own kind.
LEMMA JournalOf ==
  ASSUME JournalIsTyped(journal), NEW e
  PROVE  \E S : journal \in Seq(S) /\ e \in S
<1>1. PICK S0 : journal \in Seq(S0)
  BY DEF JournalIsTyped
<1> DEFINE S == S0 \cup {e}
<1>2. journal \in Seq(S) /\ e \in S
  BY <1>1, SeqMonotonic
<1> HIDE DEF S
<1> QED
  BY <1>2

\* A step that writes an event which starts, reserves and calls nothing.
LEMMA WriteSpares ==
  ASSUME JournalIsTyped(journal), NEW e, journal' = Append(journal, e), effects' = effects,
         e.type \notin {"NODE_STARTED", "BUDGET_RESERVED", "TOOL_CALLED"}
  PROVE  Spares
<1>1. PICK S : journal \in Seq(S) /\ e \in S
  BY JournalOf
<1>2. /\ DOMAIN journal' = 1 .. Len(journal) + 1 /\ DOMAIN journal = 1 .. Len(journal)
      /\ Len(journal) \in Nat /\ journal'[Len(journal) + 1] = e
  BY <1>1, AppendFacts
<1>3. \A i \in DOMAIN journal' \ DOMAIN journal : i = Len(journal) + 1
  BY <1>2
<1> QED
  BY <1>2, <1>3 DEF Spares

\* A step that writes nothing.
LEMMA NothingSpares ==
  ASSUME journal' = journal, effects' = effects PROVE Spares
BY DEF Spares

\* A step that writes nothing, or an event that does not move the account.
Continues ==
  \/ journal' = journal
  \/ \E e : e.type \in OtherEvents \ {"TOOL_CALLED"} /\ journal' = Append(journal, e)

\* An event that does not move the account keeps what a session knows of it.
LEMMA OtherKeeps ==
  ASSUME JournalIsTyped(journal), LedgerIsTyped(journal), NEW e, e.type \in OtherEvents,
         journal' = Append(journal, e)
  PROVE  /\ Same(journal, journal') /\ (IsExceeded(journal') <=> IsExceeded(journal))
         /\ ExcessIsNew(journal) => ExcessIsNew(journal')
         /\ \A node : Unnoticed(journal, node) => Unnoticed(journal', node)
<1>1. PICK S : journal \in Seq(S) /\ e \in S
  BY JournalOf
<1>2. /\ EntryIsTyped(e, Len(journal)) /\ e.type # "BUDGET_EXCEEDED"
      /\ e.type \notin Outcomes /\ e.type \notin Outcomes \cup BudgetEvents
      /\ e.type \notin {"BUDGET_COMMITTED", "BUDGET_EXCEEDED", "NODE_STARTED"}
  <2>1. EntryIsTyped(e, Len(journal))
    BY OtherIsTyped
  <2>2. /\ e.type \notin Outcomes
        /\ e.type \notin BudgetEvents /\ e.type # "NODE_STARTED"
    BY DEF OtherEvents, Outcomes, Approvals, BudgetEvents
  <2> QED
    BY <2>1, <2>2 DEF BudgetEvents
<1>3. Same(journal, journal')
  BY <1>1, <1>2, EntryIsSame
<1>4. \A s \in Scopes, d \in Dimensions :
        Usage(Append(journal, e), s)[d] > Limit[s][d] <=> Usage(journal, s)[d] > Limit[s][d]
  BY <1>3 DEF Same
<1>5. IsExceeded(journal') <=> IsExceeded(journal)
  BY <1>1, <1>2, <1>4, EntryKeepsExcess
<1>6. ExcessIsNew(journal) => ExcessIsNew(journal')
  BY <1>1, <1>2, NewStays
<1>7. ASSUME NEW node, Unnoticed(journal, node) PROVE Unnoticed(journal', node)
  BY <1>1, <1>2, <1>7, UnnoticedStays
<1> QED
  BY <1>3, <1>5, <1>6, <1>7

\* What is the same after a step that does not move the account.
LEMMA ContinuesFacts ==
  ASSUME JournalIsTyped(journal), LedgerIsTyped(journal), Continues, effects' = effects
  PROVE  /\ Same(journal, journal') /\ (IsExceeded(journal') <=> IsExceeded(journal))
         /\ ExcessIsNew(journal) => ExcessIsNew(journal')
         /\ \A node : Unnoticed(journal, node) => Unnoticed(journal', node)
         /\ Spares
<1>1. CASE journal' = journal
  BY <1>1, StaysSame, NothingSpares
<1>2. CASE \E e : e.type \in OtherEvents \ {"TOOL_CALLED"} /\ journal' = Append(journal, e)
  <2>1. PICK e : e.type \in OtherEvents \ {"TOOL_CALLED"} /\ journal' = Append(journal, e)
    BY <1>2
  <2>2. e.type \notin {"NODE_STARTED", "BUDGET_RESERVED", "TOOL_CALLED"}
    BY <2>1 DEF OtherEvents, Outcomes, Approvals
  <2>3. Spares
    BY <2>1, <2>2, WriteSpares
  <2> QED
    BY <2>1, <2>3, OtherKeeps
<1> QED
  BY <1>1, <1>2 DEF Continues

\* An excess that was there is as it was.
LEMMA ExcessStays ==
  ASSUME JournalIsTyped(journal), JournalIsTyped(journal'), LedgerInv,
         Same(journal, journal'), IsExceeded(journal') <=> IsExceeded(journal),
         ExcessIsNew(journal) => ExcessIsNew(journal'),
         Quiet \/ ~ IsExceeded(journal),
         session'.step \in Clean /\ IsExceeded(journal') => Unnoticed(journal', Node')
  PROVE  ExcessInv'
<1>1. PICK S : journal \in Seq(S)
  BY DEF JournalIsTyped
<1>2. PICK T : journal' \in Seq(T)
  BY DEF JournalIsTyped
<1>3. ASSUME IsExceeded(journal'), ~ OpenStart(journal')
      PROVE  \/ ExcessIsNew(journal')
             \/ /\ ExpectedNode(journal') \in Nodes
                /\ ~ Fits(journal', ExpectedNode(journal'), "attempt")
  <2>1. /\ OpenStart(journal') = OpenStart(journal)
        /\ ExpectedNode(journal') = ExpectedNode(journal)
    BY <1>3 DEF Quiet, Extends
  <2>2. Active(journal) = {}
    BY <1>3, <2>1 DEF LedgerInv, HoldInv
  <2>3. \/ ExcessIsNew(journal)
        \/ /\ ExpectedNode(journal) \in Nodes
           /\ ~ Fits(journal, ExpectedNode(journal), "attempt")
    BY <1>3, <2>1 DEF LedgerInv, ExcessInv
  <2>4. LedgerIsTyped(journal)
    BY DEF LedgerInv
  <2> QED
    BY <1>1, <1>2, <2>1, <2>2, <2>3, <2>4, SameFits
<1> QED
  BY <1>3 DEF ExcessInv

\* A step that continues and leaves the session with what it has to know.
LEMMA ContinuesKeeps ==
  ASSUME GraphInv, GraphInv', LedgerInv, Continues, Quiet, SessionAccounts,
         session'.step \in Clean =>
           ~ IsExceeded(journal) \/ (session.step \in Clean /\ Node' = Node)
  PROVE  LedgerInv' /\ Spares
<1>1. /\ JournalIsTyped(journal) /\ JournalIsTyped(journal') /\ LedgerIsTyped(journal)
      /\ effects' = effects
  BY DEF GraphInv, TypeInv, LedgerInv, Quiet
<1>2. /\ Same(journal, journal') /\ (IsExceeded(journal') <=> IsExceeded(journal))
      /\ ExcessIsNew(journal) => ExcessIsNew(journal')
      /\ \A node : Unnoticed(journal, node) => Unnoticed(journal', node)
      /\ Spares
  BY <1>1, ContinuesFacts
<1>3. session'.step \in Clean /\ IsExceeded(journal') => Unnoticed(journal', Node')
  BY <1>2 DEF LedgerInv, ExcessInv
<1>4. ExcessInv'
  BY <1>1, <1>2, <1>3, ExcessStays
<1>5. LedgerInv'
  BY <1>1, <1>2, <1>4, StillAccounts
<1> QED
  BY <1>2, <1>5

\* A step that ends the session.
LEMMA EndAccounts ==
  ASSUME GraphInv, GraphInv', LedgerInv, Continues, Quiet, session' = Idle
  PROVE  LedgerInv' /\ Spares
<1>1. session'.step = "idle"
  BY DEF Idle, At
<1>2. SessionAccounts
  BY <1>1 DEF SessionAccounts, Holding
<1>3. session'.step \notin Clean
  BY <1>1 DEF Clean, Holding
<1> QED
  BY <1>2, <1>3, ContinuesKeeps

\* What is written ahead of the record.
LEMMA WriteAheadContinues ==
  ASSUME NEW e, NEW r, NEW next, WriteAhead(e, r, next), e.type \in OtherEvents \ {"TOOL_CALLED"}
  PROVE  Continues
BY DEF WriteAhead, Continues

\* A transition that is written ahead does not move the account.
LEMMA TransitionAccounts ==
  ASSUME GraphInv, GraphInv', LedgerInv, Quiet, NEW to, NEW node, NEW attempt,
         TransitionTo(to, node, attempt, Idle)
  PROVE  LedgerInv' /\ Spares
<1>1. session' = Idle
  BY DEF TransitionTo, WriteAhead
<1>2. Transitioned(to, node, attempt).type \in OtherEvents \ {"TOOL_CALLED"}
  BY DEF Transitioned, OtherEvents
<1>3. Continues
  BY <1>2, WriteAheadContinues DEF TransitionTo
<1> QED
  BY <1>1, <1>3, EndAccounts
-----------------------------------------------------------------------------
(* The steps of the executor and the account.                              *)

Accounts == LedgerInv' /\ Spares

\* The session ends.
LEMMA RecoverAccounts ==
  ASSUME GraphInv, LedgerInv, RecoverState \/ RecoverApproval PROVE Accounts
<1>1. GraphInv' /\ Quiet
  BY RecoverStateKeeps, RecoverApprovalKeeps
<1>2. session' = Idle /\ Continues
  BY DEF RecoverState, RecoverApproval, GraphInv, PlaceInv, Continues
<1> QED
  BY <1>1, <1>2, EndAccounts DEF Accounts

\* A grant does not move the account.
LEMMA ApproveAccounts ==
  ASSUME GraphInv, LedgerInv, Approve PROVE Accounts
<1>1. GraphInv' /\ Quiet
  BY ApproveKeeps
<1>2. PICK e, r : WriteAhead(e, r, Idle) /\ e.type = "EXECUTION_APPROVED"
  BY GrantIsTyped
<1>3. e.type \in OtherEvents \ {"TOOL_CALLED"}
  BY <1>2 DEF OtherEvents, Approvals
<1>4. session' = Idle /\ Continues
  BY <1>2, <1>3, WriteAheadContinues DEF WriteAhead
<1> QED
  BY <1>1, <1>4, EndAccounts DEF Accounts

\* A session that stops or dies leaves what it had reserved in the journal.
LEMMA StopAccounts ==
  ASSUME GraphInv, LedgerInv, RefuseVisit \/ Raise \/ Abort PROVE Accounts
<1>1. GraphInv' /\ Quiet
  BY RefuseVisitKeeps, RaiseKeeps
<1>2. session' = Idle /\ Continues
  BY DEF RefuseVisit, Raise, Abort, Continues
<1> QED
  BY <1>1, <1>2, EndAccounts DEF Accounts

\* Transitions from within or between sessions do not move the account.
LEMMA MoveAccounts ==
  ASSUME GraphInv, LedgerInv,
         \/ PrepareResume \/ ExhaustRetries \/ PauseForApproval \/ ExceedBudget
         \/ ResolveTerminal
  PROVE  Accounts
<1>1. GraphInv' /\ Quiet
  BY PrepareResumeKeeps, ExhaustRetriesKeeps, PauseForApprovalKeeps, ExceedBudgetKeeps,
     ResolveTerminalKeeps
<1>2. \E to, node, attempt : TransitionTo(to, node, attempt, Idle)
  BY Zenon DEF PrepareResume, ExhaustRetries, PauseForApproval, ExceedBudget, ResolveTerminal
<1> QED
  BY <1>1, <1>2, TransitionAccounts DEF Accounts

\* A number of settled calls.
LEMMA KnownIsNat ==
  ASSUME NEW j, JournalIsTyped(j), NEW kind PROVE Known(j, kind) \in Nat
<1>1. PICK S : j \in Seq(S)
  BY DEF JournalIsTyped
<1>2. j \in Seq(S \cup {0}) /\ 0 \in S \cup {0}
  BY <1>1, SeqMonotonic
<1>3. IsFiniteSet(OfKind(j, {"BUDGET_COMMITTED"}, kind))
  BY <1>2, OfKindGrows
<1> QED
  BY <1>3, FS_CardinalityType DEF Known

\* Where nothing is reserved every call is known.
LEMMA NothingHeld ==
  ASSUME JournalIsTyped(journal), LedgerInv, Active(journal) = {}
  PROVE  \A kind \in Kinds : MadeOf(kind) = Known(journal, kind)
<1> SUFFICES ASSUME NEW kind \in Kinds PROVE MadeOf(kind) = Known(journal, kind)
  OBVIOUS
<1>1. {i \in Active(journal) : journal[i].kind = kind} = {}
  OBVIOUS
<1>2. Unknown(journal, kind) = 0
  BY <1>1, FS_EmptySet DEF Unknown
<1>3. Known(journal, kind) \in Nat
  BY KnownIsNat
<1>4. MadeOf(kind) \in
        Known(journal, kind) .. Known(journal, kind) + Unknown(journal, kind)
  BY DEF LedgerInv, CountInv
<1> QED
  BY <1>2, <1>3, <1>4

\* A session that is not about to call anything has to know nothing else.
LEMMA RestAccounts ==
  ASSUME JournalIsTyped(journal), LedgerInv, Active(journal) = {},
         session'.step \notin Holding \cup {"idle"}
  PROVE  SessionAccounts
<1>1. \A kind \in Kinds : MadeOf(kind) = Known(journal, kind)
  BY NothingHeld
<1>2. \A kind \in Kinds : Unsettled(kind)' = 0
  BY DEF Unsettled, Holding, Kinds
<1>3. \A kind \in Kinds : MadeOf(kind) = Known(journal, kind) + 0
  BY <1>1, KnownIsNat
<1> QED
  BY <1>2, <1>3 DEF SessionAccounts, Holding

\* A session comes to where no node is open.
LEMMA OutsideAccounts ==
  ASSUME GraphInv, GraphInv', Quiet, LedgerInv, Continues, session'.step \in Outside
  PROVE  Accounts
<1>1. JournalIsTyped(journal)
  BY DEF GraphInv, TypeInv
<1>2. ~ OpenStart(journal)
  BY DEF GraphInv, PlaceInv, Quiet, Extends
<1>3. Active(journal) = {}
  BY <1>2 DEF LedgerInv, HoldInv
<1>4. session'.step \notin Holding \cup {"idle"} /\ session'.step \notin Clean
  BY DEF Outside, Holding, Clean
<1> QED
  BY <1>1, <1>3, <1>4, RestAccounts, ContinuesKeeps DEF Accounts

\* A session goes on where nothing is reserved.
LEMMA InsideAccounts ==
  ASSUME GraphInv, GraphInv', LedgerInv, Continues, Quiet,
         session.step \notin Holding \cup {"idle"},
         session'.step \notin Holding \cup {"idle"},
         session'.step \in Clean => ~ IsExceeded(journal)
  PROVE  Accounts
<1>1. JournalIsTyped(journal)
  BY DEF GraphInv, TypeInv
<1>2. Active(journal) = {}
  BY DEF LedgerInv, HoldInv
<1> QED
  BY <1>1, <1>2, RestAccounts, ContinuesKeeps DEF Accounts

\* A session begins with nothing that it holds, and nothing that is held elsewhere.
LEMMA BeginAccounts ==
  ASSUME GraphInv, LedgerInv, Execute \/ Resume PROVE Accounts
<1>1. GraphInv' /\ Quiet
  BY ExecuteKeeps, ResumeKeeps
<1>2. CASE Execute
  <2> DEFINE e == Transitioned("EXECUTING", Entry, record.attempts[Entry] + 1)
  <2>1. PICK r : WriteAhead(e, r, At("loop", 0, None))
    BY <1>2 DEF Execute, TransitionTo
  <2>2. e.type \in OtherEvents \ {"TOOL_CALLED"}
    BY DEF Transitioned, OtherEvents
  <2>3. Continues
    BY <2>1, <2>2, WriteAheadContinues
  <2>4. session' = At("loop", 0, None) \/ session' = Idle
    BY <2>1 DEF WriteAhead
  <2>5. At("loop", 0, None).step \in Outside
    BY DEF At, Outside
  <2> QED
    BY <1>1, <2>3, <2>4, <2>5, OutsideAccounts, EndAccounts DEF Accounts
<1>3. CASE Resume
  <2>1. Continues /\ session'.step \in Outside
    BY <1>3 DEF Resume, Continues, At, Outside
  <2> QED
    BY <1>1, <2>1, OutsideAccounts
<1> QED
  BY <1>2, <1>3

\* A request does not move the account.
LEMMA RequestAccounts ==
  ASSUME GraphInv, LedgerInv, RequestApproval PROVE Accounts
<1>1. GraphInv' /\ Quiet
  BY RequestApprovalKeeps
<1> DEFINE e == [type |-> "APPROVAL_REQUESTED", node |-> Node,
                 subject |-> Subject(Node, session.payload), revision |-> record.revision + 1]
           r == [record EXCEPT !.revision = @ + 1, !.approval = "PENDING"]
<1>2. \/ session' = Idle /\ journal' = journal
      \/ WriteAhead(e, r, [session EXCEPT !.step = "asked"])
  BY DEF RequestApproval
<1>3. e.type \in OtherEvents \ {"TOOL_CALLED"}
  BY DEF OtherEvents, Approvals
<1> HIDE DEF e, r
<1>4. Continues
  BY <1>2, <1>3, WriteAheadContinues DEF Continues
<1>5. session \in Session
  BY DEF GraphInv, TypeInv
<1>6. [session EXCEPT !.step = "asked"].step \in Outside
  BY <1>5 DEF Session, Outside
<1>7. session' = Idle \/ session' = [session EXCEPT !.step = "asked"]
  BY <1>2 DEF WriteAhead
<1> QED
  BY <1>1, <1>4, <1>6, <1>7, OutsideAccounts, EndAccounts DEF Accounts

\* A node that calls nothing does not move the account.
LEMMA RunAccounts ==
  ASSUME GraphInv, LedgerInv, RunPolicy \/ PassGate PROVE Accounts
<1>1. GraphInv' /\ Quiet
  BY RunPolicyKeeps
<1>2. session \in Session
  BY DEF GraphInv, TypeInv
<1>3. session.step = "node" /\ session'.step = "result" /\ journal' = journal
  BY <1>2 DEF RunPolicy, PassGate, Session
<1>4. /\ Continues /\ session.step \notin Holding \cup {"idle"}
      /\ session'.step \notin Holding \cup {"idle"} /\ session'.step \notin Clean
  BY <1>3 DEF Continues, Holding, Clean
<1> QED
  BY <1>1, <1>3, <1>4, InsideAccounts

\* The record of a tool's result does not move the account.
LEMMA RecordOutcomeAccounts ==
  ASSUME GraphInv, LedgerInv, RecordOutcome PROVE Accounts
<1>1. GraphInv' /\ Quiet
  BY RecordOutcomeKeeps
<1>2. session \in Session
  BY DEF GraphInv, TypeInv
<1>3. PICK type \in {"TOOL_COMPLETED", "TOOL_FAILED"} : Write(ToolEvent(type))
  BY DEF RecordOutcome
<1>4. ToolEvent(type).type \in OtherEvents \ {"TOOL_CALLED"}
  BY DEF ToolEvent, OtherEvents
<1>5. Continues
  BY <1>3, <1>4 DEF Continues, Write
<1>6. \/ session'.step = "result"
      \/ session'.step \in {"tools", "node"} /\ ~ IsExceeded(journal)
  BY <1>2 DEF RecordOutcome, Fail, Session
<1>7. /\ session.step \notin Holding \cup {"idle"}
      /\ session'.step \notin Holding \cup {"idle"}
      /\ session'.step \in Clean => ~ IsExceeded(journal)
  BY <1>6 DEF RecordOutcome, Holding, Clean
<1> QED
  BY <1>1, <1>5, <1>7, InsideAccounts

\* What a session with a reservation knows: its reservation is the only one.
LEMMA HeldIs ==
  ASSUME GraphInv, LedgerInv, session.step \in Holding
  PROVE  LET kind == IF session.step \in Replying THEN "model" ELSE "tool"
         IN  /\ Active(journal) = {session.handle} /\ session.handle \in DOMAIN journal
             /\ journal[session.handle].node = Node /\ journal[session.handle].kind = kind
             /\ kind \in Kinds /\ HasRoom(journal, Node, kind)
             /\ IsExceeded(journal) => Unnoticed(journal, Node) /\ ExcessUnnoticed
             /\ OpenStart(journal) /\ Node \in Nodes
<1>1. /\ Active(journal) = {session.handle}
      /\ journal[session.handle].node = Node
      /\ journal[session.handle].kind = IF session.step \in Replying THEN "model" ELSE "tool"
  BY DEF LedgerInv, HoldInv, Replying
<1>2. session.handle \in DOMAIN journal
  BY <1>1 DEF Active, Of
<1>3. HasRoom(journal, Node, IF session.step \in Replying THEN "model" ELSE "tool")
  BY DEF LedgerInv, RoomInv, Replying
<1>4. session.step \in Inside /\ (IsExceeded(journal) => Unnoticed(journal, Node))
  BY InsideSteps DEF LedgerInv, ExcessInv, Clean, Holding
<1>5. OpenStart(journal) /\ Node \in Nodes
  BY <1>4, AttemptIsOpen
<1>6. IsExceeded(journal) => Unnoticed(journal, Node) /\ ExcessUnnoticed
  BY <1>4, <1>5, UnnoticedIs
<1> QED
  BY <1>1, <1>2, <1>3, <1>5, <1>6 DEF Kinds

\* The write-ahead of a dispatch; with an excess that is noticed there is none.
LEMMA RecordCallAccounts ==
  ASSUME GraphInv, LedgerInv, RecordCall PROVE Accounts
<1>1. GraphInv' /\ Quiet
  BY RecordCallKeeps
<1>2. /\ JournalIsTyped(journal) /\ JournalIsTyped(journal') /\ LedgerIsTyped(journal)
      /\ session \in Session
  BY <1>1 DEF GraphInv, TypeInv, LedgerInv
<1> DEFINE e == ToolEvent("TOOL_CALLED")
<1>3. /\ e.type = "TOOL_CALLED" /\ e.node = Node /\ e.attempt = Attempt
      /\ e.step = session.tools + 1
  BY DEF ToolEvent
<1> HIDE DEF e
<1>4. /\ journal' = Append(journal, e) /\ UNCHANGED <<record, effects, faults>>
      /\ session.step = "reserved"
      /\ session' = [session EXCEPT !.step = "called"]
  BY DEF RecordCall, Write, Go, e
<1>5. /\ session'.step = "called" /\ session'.handle = session.handle
      /\ session'.tools = session.tools /\ Node' = Node /\ Attempt' = Attempt
  BY <1>2, <1>4 DEF Session, Node, Attempt
<1>6. e.type \in OtherEvents
  BY <1>3 DEF OtherEvents
<1>7. /\ Same(journal, journal') /\ (IsExceeded(journal') <=> IsExceeded(journal))
      /\ ExcessIsNew(journal) => ExcessIsNew(journal')
      /\ \A node : Unnoticed(journal, node) => Unnoticed(journal', node)
  BY <1>2, <1>4, <1>6, OtherKeeps
<1>8. IsExceeded(journal) => Unnoticed(journal, Node) /\ ExcessUnnoticed
  BY <1>4, HeldIs DEF Holding
<1>9. ExcessInv'
  BY <1>1, <1>2, <1>5, <1>7, <1>8, ExcessStays
<1>10. WrittenAhead(journal', Node', Attempt', session'.tools + 1)
  <2>1. PICK S : journal \in Seq(S) /\ e \in S
    BY <1>2, JournalOf
  <2>2. journal'[Len(journal) + 1] = e
    BY <1>4, <2>1, AppendFacts
  <2>3. "TOOL_CALLED" \in {"TOOL_CALLED"}
    OBVIOUS
  <2>4. Len(journal) + 1 \in Of(journal', {"TOOL_CALLED"})
    BY <1>3, <1>4, <2>1, <2>3, OfGrows
  <2> QED
    BY <1>3, <1>5, <2>2, <2>4 DEF WrittenAhead
<1>11. \A kind \in Kinds : Unsettled(kind)' = Unsettled(kind)
  BY <1>4, <1>5 DEF Unsettled, Kinds
<1>12. SessionAccounts
  <2>1. session.step # "idle" /\ session.step \in Holding /\ session'.step \in Holding
        /\ session.step \notin Replying /\ session'.step \notin Replying
    BY <1>4, <1>5 DEF Holding, Replying
  <2>2. \A kind \in Kinds : MadeOf(kind) = Known(journal, kind) + Unsettled(kind)'
    BY <1>11, <2>1 DEF LedgerInv, CountInv
  <2> QED
    BY <1>5, <1>10, <2>1, <2>2 DEF SessionAccounts
<1>13. LedgerInv'
  BY <1>1, <1>2, <1>4, <1>7, <1>9, <1>12, StillAccounts
<1> QED
  BY <1>8, <1>13 DEF Accounts, Spares

\* Evidence of a denial or an overrun: the account stays, but there may be an excess now.
LEMMA EvidenceAccounts ==
  ASSUME GraphInv, GraphInv', Quiet, LedgerInv, NEW e, journal' = Append(journal, e),
         e.type = "BUDGET_EXCEEDED", Active(journal) = {},
         session'.step \in {"denied", "outcome", "result", "idle"},
         ~ OpenStart(journal) => /\ ExpectedNode(journal) \in Nodes
                                 /\ ~ Fits(journal, ExpectedNode(journal), "attempt")
  PROVE  Accounts
<1>1. JournalIsTyped(journal) /\ JournalIsTyped(journal') /\ LedgerIsTyped(journal)
  BY DEF GraphInv, TypeInv, LedgerInv
<1>2. PICK S : journal \in Seq(S) /\ e \in S
  BY <1>1, JournalOf
<1>3. PICK T : journal' \in Seq(T)
  BY <1>1 DEF JournalIsTyped
<1>4. /\ EntryIsTyped(e, Len(journal))
      /\ e.type \notin {"NODE_STARTED", "BUDGET_RESERVED", "TOOL_CALLED"}
  BY DEF EntryIsTyped, LedgerEvents, BudgetEvents, Outcomes
<1>5. Same(journal, journal')
  BY <1>1, <1>2, <1>4, EntryIsSame
<1>6. effects' = effects
  BY DEF Quiet
<1>7. Spares
  BY <1>1, <1>4, <1>6, WriteSpares
<1>8. session'.step \notin Holding /\ session'.step \notin Clean
  BY DEF Holding, Clean
<1>9. ExcessInv'
  <2>1. ASSUME ~ OpenStart(journal')
        PROVE  /\ ExpectedNode(journal') \in Nodes
               /\ ~ Fits(journal', ExpectedNode(journal'), "attempt")
    <3>1. /\ ~ OpenStart(journal) /\ ExpectedNode(journal') = ExpectedNode(journal)
      BY <2>1 DEF Quiet, Extends
    <3> QED
      BY <1>1, <1>2, <1>3, <1>5, <3>1, SameFits
  <2> QED
    BY <1>8, <2>1 DEF ExcessInv
<1>10. SessionAccounts
  <2>1. CASE session'.step = "idle"
    BY <1>8, <2>1 DEF SessionAccounts
  <2>2. CASE session'.step # "idle"
    BY <1>1, <1>8, <2>2, RestAccounts
  <2> QED
    BY <2>1, <2>2
<1>11. LedgerInv'
  BY <1>1, <1>5, <1>6, <1>9, <1>10, StillAccounts
<1> QED
  BY <1>7, <1>11 DEF Accounts

\* A denial is written as an excess.
LEMMA DenialIs == \A j, node, attempt, kind : Denial(j, node, attempt, kind).type = "BUDGET_EXCEEDED"
BY DEF Denial, Evidence

\* The evidence of a denied attempt uses nothing.
LEMMA DenyAttemptAccounts ==
  ASSUME GraphInv, LedgerInv, DenyAttempt PROVE Accounts
<1>1. GraphInv' /\ Quiet
  BY DenyAttemptKeeps
<1> DEFINE e == Denial(journal, Node, Attempt, "attempt")
<1>2. e.type = "BUDGET_EXCEEDED"
  BY DenialIs
<1> HIDE DEF e
<1>3. /\ journal' = Append(journal, e) /\ session' = [session EXCEPT !.step = "denied"]
      /\ ~ Fits(journal, Node, "attempt") /\ session.step = "loop" /\ Node \in Nodes
  BY DEF DenyAttempt, Write, Go, Visiting, InLoop, e
<1>4. session'.step = "denied"
  BY <1>3 DEF GraphInv, TypeInv, Session
<1>5. Active(journal) = {}
  BY <1>3 DEF LedgerInv, HoldInv, Holding
<1>6. ExpectedNode(journal) = Node
  BY <1>3, SessionFacts DEF UpToDate, Node
<1> QED
  BY <1>1, <1>2, <1>3, <1>4, <1>5, <1>6, EvidenceAccounts

\* The evidence of a denied call uses nothing.
LEMMA DenyCallAccounts ==
  ASSUME GraphInv, GraphInv', Quiet, LedgerInv, session.step \in {"node", "tools"},
         NEW kind, DenyCall(kind)
  PROVE  Accounts
<1> DEFINE e == Denial(journal, Node, Attempt, kind)
<1>1. e.type = "BUDGET_EXCEEDED"
  BY DenialIs
<1> HIDE DEF e
<1>2. journal' = Append(journal, e) /\ Fail
  BY DEF DenyCall, Write, e
<1>3. session'.step = "result"
  BY <1>2 DEF GraphInv, TypeInv, Session, Fail
<1>4. Active(journal) = {}
  BY DEF LedgerInv, HoldInv, Holding
<1>5. OpenStart(journal)
  BY InsideSteps DEF GraphInv, PlaceInv
<1> QED
  BY <1>1, <1>2, <1>3, <1>4, <1>5, EvidenceAccounts

\* The evidence of an overrun uses nothing.
LEMMA OverrunAccounts ==
  ASSUME GraphInv, LedgerInv, RecordOverrun PROVE Accounts
<1>1. GraphInv' /\ Quiet
  BY RecordOverrunKeeps
<1> DEFINE e == Overrun(journal, session.handle)
<1>2. e.type = "BUDGET_EXCEEDED"
  BY DEF Overrun, Evidence
<1> HIDE DEF e
<1>3. session.step = "overrun" /\ (Go("outcome") \/ Fail \/ session' = Idle)
  BY DEF RecordOverrun
<1>4. session' = Idle \/ session'.step \in {"outcome", "result"}
  <2>1. session \in Session
    BY DEF GraphInv, TypeInv
  <2>2. Go("outcome") => session'.step = "outcome"
    BY <2>1 DEF Go, Session
  <2>3. Fail => session'.step = "result"
    BY <2>1 DEF Fail, Session
  <2> QED
    BY <1>3, <2>2, <2>3
<1>5. Active(journal) = {} /\ session.step \notin Holding \cup {"idle"}
  BY <1>3 DEF LedgerInv, HoldInv, Holding
<1>6. OpenStart(journal)
  BY <1>3, InsideSteps DEF GraphInv, PlaceInv
<1>7. CASE journal' = Append(journal, e)
  <2>1. session'.step \in {"denied", "outcome", "result", "idle"}
    BY <1>4 DEF Idle, At
  <2> QED
    BY <1>1, <1>2, <1>5, <1>6, <1>7, <2>1, EvidenceAccounts
<1>8. CASE journal' = journal
  <2>1. Continues
    BY <1>8 DEF Continues
  <2>2. CASE session' = Idle
    BY <1>1, <2>1, <2>2, EndAccounts DEF Accounts
  <2>3. CASE session'.step \in {"outcome", "result"}
    <3>1. session'.step \notin Holding \cup {"idle"} /\ session'.step \notin Clean
      BY <2>3 DEF Holding, Clean
    <3> QED
      BY <1>1, <1>5, <2>1, <3>1, InsideAccounts
  <2> QED
    BY <1>4, <2>2, <2>3
<1> QED
  BY <1>7, <1>8 DEF RecordOverrun, Write, e
-----------------------------------------------------------------------------
(* Steps that move the account.                                            *)

\* An event that is no commit leaves the last one.
LEMMA LastFitsStays ==
  ASSUME NEW S, NEW j \in Seq(S), NEW e \in S, e.type # "BUDGET_COMMITTED", NEW s,
         LastFits(j, s)
  PROVE  LastFits(Append(j, e), s)
<1> DEFINE k == Append(j, e)
<1>1. e.type \notin {"BUDGET_COMMITTED"}
  OBVIOUS
<1>2. Charged(k, {"BUDGET_COMMITTED"}, s) = Charged(j, {"BUDGET_COMMITTED"}, s)
  BY <1>1, ChargedGrows
<1>3. k \in Seq(S) /\ \A i \in DOMAIN j : i \in DOMAIN k /\ k[i] = j[i]
  BY AppendFacts
<1> HIDE DEF k
<1>4. ASSUME Charged(j, {"BUDGET_COMMITTED"}, s) # {}
      PROVE  Before(k, Max(Charged(j, {"BUDGET_COMMITTED"}, s)))
               = Before(j, Max(Charged(j, {"BUDGET_COMMITTED"}, s)))
  <2>1. Max(Charged(j, {"BUDGET_COMMITTED"}, s)) \in DOMAIN j
    BY <1>4, LastCommit
  <2> QED
    BY <1>3, <2>1, BeforeStays
<1> QED
  BY <1>2, <1>4 DEF LastFits, k

\* Everything is before the event that is appended.
LEMMA BeforeLast ==
  ASSUME NEW S, NEW j \in Seq(S), NEW e \in S
  PROVE  Before(Append(j, e), Len(j) + 1) = j
<1> DEFINE k == Append(j, e)
<1>1. /\ Len(j) \in Nat /\ DOMAIN k = 1 .. Len(j) + 1 /\ DOMAIN j = 1 .. Len(j)
      /\ \A i \in 1 .. Len(j) : k[i] = j[i]
  BY AppendFacts
<1> HIDE DEF k
<1>2. \A i \in 1 .. Len(j) : k[i] \in S /\ j[i] \in S
  BY <1>1
<1>3. Before(k, Len(j) + 1) = SubSeq(k, 1, Len(j))
  BY <1>1 DEF Before
<1>4. /\ SubSeq(k, 1, Len(j)) \in Seq(S)
      /\ Len(SubSeq(k, 1, Len(j))) = Len(j)
      /\ \A i \in 1 .. Len(j) : SubSeq(k, 1, Len(j))[i] = k[i]
  <2>1. 1 \in Int /\ Len(j) \in Int
    BY <1>1
  <2>2. /\ SubSeq(k, 1, Len(j)) \in Seq(S)
        /\ Len(SubSeq(k, 1, Len(j))) = IF 1 <= Len(j) THEN Len(j) - 1 + 1 ELSE 0
        /\ \A i \in 1 .. Len(j) - 1 + 1 : SubSeq(k, 1, Len(j))[i] = k[1 + i - 1]
    BY <1>2, <2>1, SubSeqProperties
  <2> QED
    BY <1>1, <2>2
<1>5. SubSeq(k, 1, Len(j)) = j
  BY <1>1, <1>4, SeqEqual
<1> QED
  BY <1>3, <1>5 DEF k

\* A call written ahead stays so.
LEMMA AheadGrows ==
  ASSUME NEW S, NEW j \in Seq(S), NEW e \in S, NEW node, NEW attempt, NEW step,
         WrittenAhead(j, node, attempt, step)
  PROVE  WrittenAhead(Append(j, e), node, attempt, step)
<1> DEFINE k == Append(j, e)
<1>1. \A i \in DOMAIN j : i \in DOMAIN k /\ k[i] = j[i]
  BY AppendFacts
<1> HIDE DEF k
<1> QED
  BY <1>1 DEF WrittenAhead, Of, k

\* The account of a session that holds nothing.
LEMMA RestLedger ==
  ASSUME JournalIsTyped(journal'), LedgerIsTyped(journal'), Active(journal') = {},
         session'.step \notin Holding,
         \A kind \in Kinds : MadeOf(kind)' = Known(journal', kind),
         \A i \in DOMAIN effects' :
           effects'[i].kind = "tool" =>
             WrittenAhead(journal', effects'[i].node, effects'[i].attempt, effects'[i].step),
         \A s \in Scopes : LimitAt(journal', s), ExcessInv'
  PROVE  LedgerInv'
<1>1. HoldInv'
  BY DEF HoldInv
<1>2. CountInv'
  <2>1. ASSUME NEW kind \in Kinds
        PROVE  /\ MadeOf(kind)' \in
                    Known(journal', kind) .. Known(journal', kind) + Unknown(journal', kind)
               /\ MadeOf(kind)' = Known(journal', kind) + Unsettled(kind)'
    <3>1. {i \in Active(journal') : journal'[i].kind = kind} = {}
      OBVIOUS
    <3>2. Unknown(journal', kind) = 0
      BY <3>1, FS_EmptySet DEF Unknown
    <3>3. Unsettled(kind)' = 0
      BY DEF Unsettled, Holding, Kinds
    <3>4. Known(journal', kind) \in Nat
      BY KnownIsNat
    <3> QED
      BY <3>2, <3>3, <3>4
  <2>2. session'.step # "called"
    BY DEF Holding
  <2> QED
    BY <2>1, <2>2 DEF CountInv
<1>3. RoomInv'
  <2>1. LimitsHold'
    BY DEF LimitsHold, LimitAt, LastFits, HeldTools, Charged
  <2> QED
    BY <2>1 DEF RoomInv
<1> QED
  BY <1>1, <1>2, <1>3 DEF LedgerInv

\* A node is started where there is room for an attempt, and so where no excess is noticed.
LEMMA StartAccounts ==
  ASSUME GraphInv, LedgerInv, StartNode PROVE Accounts
<1>1. GraphInv'
  BY StartNodeKeeps
<1>2. /\ JournalIsTyped(journal) /\ JournalIsTyped(journal') /\ LedgerIsTyped(journal)
      /\ session \in Session
  BY <1>1 DEF GraphInv, TypeInv, LedgerInv
<1> DEFINE e == [type |-> "NODE_STARTED", node |-> Node, attempt |-> Attempt,
                 input |-> session.payload, context |-> session.context]
<1>3. e.type = "NODE_STARTED" /\ e.node = Node
  OBVIOUS
<1> HIDE DEF e
<1>4. /\ journal' = Append(journal, e) /\ UNCHANGED <<record, effects, faults>>
      /\ session' = [session EXCEPT !.step = "node"]
      /\ session.step = "loop" /\ Node \in Nodes /\ Fits(journal, Node, "attempt")
  BY DEF StartNode, Write, Go, Visiting, InLoop, e
<1>5. session'.step = "node" /\ session'.step \notin Holding \cup {"idle"}
  BY <1>2, <1>4 DEF Session, Holding
<1>6. PICK S : journal \in Seq(S) /\ e \in S
  BY <1>2, JournalOf
<1>7. EntryIsTyped(e, Len(journal)) /\ e.type \notin Outcomes
  BY <1>3 DEF EntryIsTyped, LedgerEvents, Outcomes
<1>8. LedgerIsTyped(journal')
  BY <1>2, <1>4, <1>6, <1>7, EntryKeepsTyped
<1>9. Active(journal) = {} /\ (IsExceeded(journal) => ExcessIsNew(journal))
  <2>1. ~ OpenStart(journal)
    BY <1>4 DEF GraphInv, PlaceInv, Outside
  <2>2. ExpectedNode(journal) = Node
    BY <1>4, SessionFacts DEF UpToDate, Node
  <2> QED
    BY <1>4, <2>1, <2>2 DEF LedgerInv, HoldInv, ExcessInv
<1>10. Active(journal') = {}
  <2>1. e.type # "BUDGET_RESERVED" /\ e.type \notin {"BUDGET_COMMITTED", "BUDGET_RELEASED"}
    BY <1>3
  <2>2. Active(Append(journal, e)) = Active(journal)
    BY <1>2, <1>6, <1>7, <2>1, ActiveGrows
  <2> QED
    BY <1>4, <1>9, <2>2
<1>11. \A s \in Scopes, d \in Dimensions :
         /\ Usage(journal, s)[d] \in Nat /\ Limit[s][d] \in Nat
         /\ s \in {"execution", Node} =>
              Usage(journal, s)[d] + Estimate("attempt")[d] <= Limit[s][d]
  <2>1. HasRoom(journal, Node, "attempt")
    BY <1>2, <1>4, <1>6, <1>9, FitsIs
  <2>2. \A s \in Scopes, d \in Dimensions : Usage(journal, s)[d] \in Nat
    BY <1>2, <1>6, UsageIs
  <2> QED
    BY <2>1, <2>2, LimitIsNat DEF HasRoom
<1>12. ASSUME NEW s \in Scopes, NEW d \in Dimensions
       PROVE  /\ Usage(journal', s)[d] \in Nat
              /\ s \in {"execution", Node} =>
                   Usage(journal, s)[d] <= Limit[s][d] /\ Usage(journal', s)[d] <= Limit[s][d]
              /\ s \notin {"execution", Node} \/ d # "attempts" =>
                   Usage(journal', s)[d] = Usage(journal, s)[d]
  <2>1. Usage(journal', s)[d] = Usage(journal, s)[d] + Charge(e, s, d)
    BY <1>2, <1>4, <1>6, <1>7, <1>8, UsageGrows
  <2>2. Charge(e, s, d) = IF s \in {"execution", Node} /\ d = "attempts" THEN 1 ELSE 0
    BY <1>3 DEF Charge, Within
  <2>3. Estimate("attempt")[d] \in Nat /\ Charge(e, s, d) <= Estimate("attempt")[d]
    BY <2>2 DEF Estimate, Dimensions
  <2> HIDE DEF e
  <2> QED
    BY <1>11, <2>1, <2>2, <2>3
<1>13. (IsExceeded(journal') <=> IsExceeded(journal))
       /\ (IsExceeded(journal) => Unnoticed(journal, Node) /\ Unnoticed(journal', Node))
  <2>1. \A s \in Scopes, d \in Dimensions :
          Usage(Append(journal, e), s)[d] > Limit[s][d] <=> Usage(journal, s)[d] > Limit[s][d]
    BY <1>4, <1>11, <1>12
  <2>2. IsExceeded(journal') <=> IsExceeded(journal)
    BY <1>2, <1>3, <1>4, <1>6, <1>7, <2>1, EntryKeepsExcess
  <2>3. "execution" \in Scopes /\ Node \in Scopes
    BY <1>4 DEF Scopes
  <2>4. \A s \in {"execution", Node}, d \in Dimensions :
          /\ ~ (Usage(journal, s)[d] > Limit[s][d])
          /\ ~ (Usage(journal', s)[d] > Limit[s][d])
    BY <1>11, <1>12, <2>3
  <2>5. ASSUME ExcessIsNew(journal)
        PROVE  /\ ~ IsExceeded(Before(journal, LastOutcome(journal)))
               /\ ~ IsExceeded(Before(journal', LastOutcome(journal')))
               /\ Of(journal, {"BUDGET_COMMITTED", "BUDGET_EXCEEDED"}) = {}
               /\ Of(journal', {"BUDGET_COMMITTED", "BUDGET_EXCEEDED"}) = {}
    <3>1. e.type \notin {"BUDGET_COMMITTED", "BUDGET_EXCEEDED"}
      BY <1>3
    <3>2. Of(journal, {"BUDGET_COMMITTED", "BUDGET_EXCEEDED"}) = {}
      BY <2>5 DEF ExcessIsNew, Of, BudgetEvents
    <3>3. Of(journal', {"BUDGET_COMMITTED", "BUDGET_EXCEEDED"}) = {}
      BY <1>4, <1>6, <3>1, <3>2, OfGrows
    <3>4. ~ IsExceeded(Before(journal', LastOutcome(journal')))
      BY <1>4, <1>6, <1>7, <2>5, OutcomeStays DEF ExcessIsNew
    <3> QED
      BY <2>5, <3>2, <3>3, <3>4 DEF ExcessIsNew
  <2> QED
    BY <1>9, <2>2, <2>4, <2>5 DEF Unnoticed
<1>14. ASSUME NEW s \in Scopes PROVE LimitAt(journal', s)
  <2>1. LimitAt(journal, s)
    BY LimitsAre DEF LedgerInv, RoomInv
  <2>2. LastFits(journal', s)
    BY <1>3, <1>4, <1>6, <2>1, LastFitsStays DEF LimitAt
  <2>3. HeldTools(journal', s) = {} /\ HeldTools(journal, s) = {}
    BY <1>9, <1>10 DEF HeldTools
  <2>4. "attempts" \in Dimensions /\ "tool_calls" \in Dimensions
    BY DEF Dimensions
  <2> QED
    BY <1>12, <2>1, <2>2, <2>3, <2>4 DEF LimitAt
<1>15. ASSUME NEW kind \in Kinds PROVE MadeOf(kind)' = Known(journal', kind)
  <2>1. MadeOf(kind) = Known(journal, kind)
    BY <1>2, <1>9, NothingHeld
  <2>2. e.type \notin {"BUDGET_COMMITTED"}
    BY <1>3
  <2>3. Known(journal', kind) = Known(journal, kind)
    BY <1>4, <1>6, <2>2, OfKindGrows DEF Known
  <2> QED
    BY <1>4, <2>1, <2>3 DEF MadeOf
<1>16. ASSUME NEW i \in DOMAIN effects', effects'[i].kind = "tool"
       PROVE  WrittenAhead(journal', effects'[i].node, effects'[i].attempt, effects'[i].step)
  BY <1>4, <1>6, <1>16, AheadGrows DEF LedgerInv, CountInv
<1>17. ExcessInv'
  <2>1. Node' = Node
    BY <1>4 DEF Node
  <2>2. OpenStart(journal')
    BY <1>1, <1>5, InsideSteps DEF GraphInv, PlaceInv
  <2> QED
    BY <1>13, <2>1, <2>2 DEF ExcessInv
<1>18. LedgerInv'
  BY <1>2, <1>5, <1>8, <1>10, <1>14, <1>15, <1>16, <1>17, RestLedger
<1> QED
  BY <1>4, <1>13, <1>18, UnnoticedIs DEF Accounts, Spares

\* A visit ends with nothing held; an excess that comes with its time is new.
LEMMA FinishAccounts ==
  ASSUME GraphInv, LedgerInv, FinishNode PROVE Accounts
<1>1. GraphInv'
  BY FinishNodeKeeps
<1>2. PICK output \in Answers, duration \in Time : WriteOutcome(output, duration)
  BY DEF FinishNode
<1> DEFINE next == Edge(Node, session.result)
           context == NextContext(record.attempts, Node, Attempt, next,
                                  session.result, session.context)
           e == [type |-> IF session.result = "completed" THEN "NODE_COMPLETED"
                          ELSE "NODE_FAILED",
                 node |-> Node, attempt |-> Attempt, input |-> session.payload,
                 output |-> output, next |-> next, result |-> session.result,
                 context |-> context, duration |-> duration,
                 revision |-> record.revision + 1]
<1>3. WriteAhead(e, NextRecord(e), At("loop", Len(journal) + 1, context))
  BY <1>2 DEF WriteOutcome
<1>4. /\ e.type \in Outcomes /\ e.duration = duration
      /\ e.type \notin BudgetEvents \cup {"NODE_STARTED"}
  BY DEF Outcomes, BudgetEvents
<1> HIDE DEF e, context
<1>5. journal' = Append(journal, e) /\ effects' = effects
  BY <1>3 DEF WriteAhead
<1>6. session'.step \in {"loop", "idle"}
  BY <1>3 DEF WriteAhead, At, Idle
<1>7. session'.step \notin Clean /\ session'.step \notin Holding
  BY <1>6 DEF Clean, Holding
<1>8. session.step = "result" /\ ~ IsExceeded(journal)
  BY DEF FinishNode
<1>9. /\ JournalIsTyped(journal) /\ JournalIsTyped(journal') /\ LedgerIsTyped(journal)
      /\ Active(journal) = {}
  BY <1>1, <1>8 DEF LedgerInv, HoldInv, Holding, GraphInv, TypeInv
<1>10. PICK S : journal \in Seq(S) /\ e \in S
  BY <1>9, JournalOf
<1>11. EntryIsTyped(e, Len(journal)) /\ LedgerIsTyped(journal')
  <2>1. e.duration \in Nat
    BY <1>4, LoopIsBounded DEF Time
  <2>2. EntryIsTyped(e, Len(journal))
    BY <1>4, <2>1 DEF EntryIsTyped, LedgerEvents, BudgetEvents
  <2> QED
    BY <1>5, <1>9, <1>10, <2>2, EntryKeepsTyped
<1>12. Active(journal') = {}
  <2>1. e.type # "BUDGET_RESERVED" /\ e.type \notin {"BUDGET_COMMITTED", "BUDGET_RELEASED"}
    BY <1>4 DEF BudgetEvents
  <2>2. Active(Append(journal, e)) = Active(journal)
    BY <1>9, <1>10, <1>11, <2>1, ActiveGrows
  <2> QED
    BY <1>5, <1>9, <2>2
<1>13. ASSUME NEW s, NEW d \in Dimensions,
              d # "duration_ms" \/ Of(journal, BudgetEvents) # {}
       PROVE  Usage(journal', s)[d] = Usage(journal, s)[d]
  <2>1. Charge(e, s, d) = 0
    BY <1>4 DEF Charge, BudgetEvents
  <2>2. d = "duration_ms" => Took(journal, e, s) = 0
    BY <1>13 DEF Took
  <2>3. /\ Usage(journal, s)[d] \in Nat
        /\ Usage(Append(journal, e), s)[d] = Usage(journal, s)[d] + Charge(e, s, d)
             + IF d = "duration_ms" THEN Took(journal, e, s) ELSE 0
    BY <1>5, <1>9, <1>10, <1>11, UsageAdds
  <2> QED
    BY <1>5, <2>1, <2>2, <2>3
<1>14. ASSUME NEW s \in Scopes PROVE LimitAt(journal', s)
  <2>1. LimitAt(journal, s)
    BY LimitsAre DEF LedgerInv, RoomInv
  <2>2. LastFits(journal', s)
    <3>1. e.type # "BUDGET_COMMITTED"
      BY <1>4 DEF BudgetEvents
    <3> QED
      BY <1>5, <1>10, <2>1, <3>1, LastFitsStays DEF LimitAt
  <2>3. HeldTools(journal', s) = {} /\ HeldTools(journal, s) = {}
    BY <1>9, <1>12 DEF HeldTools
  <2>4. "attempts" \in Dimensions /\ "tool_calls" \in Dimensions
    BY DEF Dimensions
  <2> QED
    BY <1>13, <2>1, <2>2, <2>3, <2>4 DEF LimitAt
<1>15. ASSUME NEW kind \in Kinds PROVE MadeOf(kind)' = Known(journal', kind)
  <2>1. MadeOf(kind) = Known(journal, kind)
    BY <1>9, NothingHeld
  <2>2. e.type \notin {"BUDGET_COMMITTED"}
    BY <1>4 DEF BudgetEvents
  <2>3. Known(journal', kind) = Known(journal, kind)
    BY <1>5, <1>10, <2>2, OfKindGrows DEF Known
  <2> QED
    BY <1>5, <2>1, <2>3 DEF MadeOf
<1>16. ASSUME NEW i \in DOMAIN effects', effects'[i].kind = "tool"
       PROVE  WrittenAhead(journal', effects'[i].node, effects'[i].attempt, effects'[i].step)
  BY <1>5, <1>10, <1>16, AheadGrows DEF LedgerInv, CountInv
<1>17. ASSUME IsExceeded(journal') PROVE ExcessIsNew(journal')
  <2>1. Of(journal, BudgetEvents) = {}
    <3> SUFFICES ASSUME Of(journal, BudgetEvents) # {} PROVE FALSE
      OBVIOUS
    <3>1. \A s \in Scopes, d \in Dimensions :
            Usage(Append(journal, e), s)[d] > Limit[s][d] <=> Usage(journal, s)[d] > Limit[s][d]
      BY <1>5, <1>13
    <3>2. e.type # "BUDGET_EXCEEDED"
      BY <1>4 DEF BudgetEvents
    <3> QED
      BY <1>5, <1>8, <1>9, <1>10, <1>11, <1>17, <3>1, <3>2, EntryKeepsExcess
  <2>2. Of(journal', BudgetEvents) = {}
    BY <1>4, <1>5, <1>10, <2>1, OfGrows
  <2>3. LastOutcome(journal') = Len(journal) + 1
    <3>1. /\ Of(journal', Outcomes) = Of(journal, Outcomes) \cup {Len(journal) + 1}
          /\ Of(journal, Outcomes) \subseteq 1 .. Len(journal)
      BY <1>4, <1>5, <1>10, OfGrows
    <3>2. journal' \in Seq(S) /\ Len(journal) \in Nat
      BY <1>5, <1>10, AppendFacts
    <3>3. Len(journal) + 1 \in Nat /\ \A k \in Of(journal', Outcomes) : k <= Len(journal) + 1
      BY <3>1, <3>2
    <3> QED
      BY <3>1, <3>2, <3>3, LastOutcomeOnly
  <2>4. Before(journal', LastOutcome(journal')) = journal
    BY <1>5, <1>10, <2>3, BeforeLast
  <2> QED
    BY <1>8, <2>2, <2>4 DEF ExcessIsNew
<1>18. ExcessInv'
  BY <1>7, <1>17 DEF ExcessInv
<1>19. LedgerInv'
  BY <1>7, <1>9, <1>11, <1>12, <1>14, <1>15, <1>16, <1>18, RestLedger
<1> QED
  BY <1>8, <1>19 DEF Accounts, Spares

\* What a commit carries.
LEMMA CommittedIs ==
  ASSUME NEW j, NEW handle, NEW succeeded, NEW d \in Nat, j[handle].kind \in Kinds
  PROVE  LET e == Committed(j, handle, succeeded, d)
         IN  /\ e.type = "BUDGET_COMMITTED" /\ e.node = j[handle].node
             /\ e.kind = j[handle].kind /\ e.reservation = handle
             /\ e.actual \in [Dimensions -> Nat]
             /\ e.actual["attempts"] = 0
             /\ e.actual["tool_calls"] = IF e.kind = "tool" THEN 1 ELSE 0
<1> DEFINE e == Committed(j, handle, succeeded, d)
           kind == j[handle].kind
           a == [Estimate(kind) EXCEPT !.duration_ms = d]
<1>1. /\ e.type = "BUDGET_COMMITTED" /\ e.node = j[handle].node
      /\ e.kind = kind /\ e.reservation = handle /\ e.actual = a
  BY DEF Committed
<1> HIDE DEF e, kind
<1>2. /\ DOMAIN Estimate(kind) = Dimensions
      /\ Estimate(kind)["attempts"] = IF kind = "attempt" THEN 1 ELSE 0
      /\ Estimate(kind)["tool_calls"] = IF kind = "tool" THEN 1 ELSE 0
  BY DEF Estimate, Dimensions
<1>3. kind # "attempt"
  BY DEF Kinds, kind
<1>4. /\ a = [x \in Dimensions |-> a[x]]
      /\ a["attempts"] = 0 /\ a["duration_ms"] = d
      /\ a["tool_calls"] = IF kind = "tool" THEN 1 ELSE 0
  BY <1>2, <1>3 DEF Dimensions
<1> HIDE DEF a
<1>5. \A x \in Dimensions : a[x] \in Nat
  BY <1>4 DEF Dimensions
<1>6. a \in [Dimensions -> Nat]
  BY <1>4, <1>5
<1> QED
  BY <1>1, <1>4, <1>6 DEF e, kind

\* The positions of the reserved tool calls of a scope, when there is one reservation.
LEMMA HeldToolsAre ==
  ASSUME NEW j, NEW handle, Active(j) = {handle}, NEW s
  PROVE  Cardinality(HeldTools(j, s)) =
           IF Within(j[handle], s) /\ j[handle].kind = "tool" THEN 1 ELSE 0
<1>1. HeldTools(j, s) = IF Within(j[handle], s) /\ j[handle].kind = "tool" THEN {handle} ELSE {}
  BY DEF HeldTools
<1> QED
  BY <1>1, FS_EmptySet, FS_Singleton

\* A settled call is counted, and what it was allowed to take was there when it began.
LEMMA CommitAccounts ==
  ASSUME GraphInv, GraphInv', Quiet, LedgerInv, NEW succeeded, NEW d \in Durations,
         session.step \in {"replied", "dispatched"},
         journal' = Append(journal, Committed(journal, session.handle, succeeded, d)),
         session'.step \notin Holding \cup {"idle"},
         session'.step \in Clean => ~ IsExceeded(journal')
  PROVE  Accounts
<1> DEFINE e == Committed(journal, session.handle, succeeded, d)
           K == IF session.step \in Replying THEN "model" ELSE "tool"
<1>1. /\ Active(journal) = {session.handle} /\ session.handle \in DOMAIN journal
      /\ journal[session.handle].node = Node /\ journal[session.handle].kind = K
      /\ K \in Kinds /\ HasRoom(journal, Node, K)
      /\ IsExceeded(journal) => ExcessUnnoticed
      /\ OpenStart(journal) /\ Node \in Nodes
  BY HeldIs DEF Holding
<1>2. /\ JournalIsTyped(journal) /\ JournalIsTyped(journal') /\ LedgerIsTyped(journal)
      /\ effects' = effects /\ d \in Nat
  BY LoopIsBounded DEF GraphInv, TypeInv, LedgerInv, Quiet
<1>3. /\ e.type = "BUDGET_COMMITTED" /\ e.node = Node /\ e.kind = K
      /\ e.reservation = session.handle /\ e.actual \in [Dimensions -> Nat]
      /\ e.actual["attempts"] = 0
      /\ e.actual["tool_calls"] = IF K = "tool" THEN 1 ELSE 0
  BY <1>1, <1>2, CommittedIs
<1>4. \A kind \in Kinds : Unsettled(kind) = IF kind = K THEN 1 ELSE 0
  BY DEF Unsettled, Kinds, Replying
<1> HIDE DEF e, K
<1>5. journal' = Append(journal, e)
  BY DEF e
<1>6. PICK S : journal \in Seq(S) /\ e \in S
  BY <1>2, JournalOf
<1>7. EntryIsTyped(e, Len(journal))
  <2>1. session.handle \in 1 .. Len(journal)
    BY <1>1, <1>6
  <2> QED
    BY <1>1, <1>3, <2>1 DEF EntryIsTyped, LedgerEvents, BudgetEvents, Outcomes
<1>8. LedgerIsTyped(journal')
  BY <1>2, <1>5, <1>6, <1>7, EntryKeepsTyped
<1>9. Active(journal') = {}
  <2> DEFINE closing == {"BUDGET_COMMITTED", "BUDGET_RELEASED"}
  <2>1. e.type # "BUDGET_RESERVED" /\ e.type \in closing
    BY <1>3
  <2>2. Active(Append(journal, e)) = Active(journal) \ {e.reservation}
    BY <1>2, <1>6, <1>7, <2>1, ActiveGrows
  <2> QED
    BY <1>1, <1>3, <1>5, <2>2
<1>10. ASSUME NEW s \in Scopes, NEW x \in Dimensions
       PROVE  /\ Usage(journal, s)[x] \in Nat
              /\ Usage(journal', s)[x] =
                   IF Within(e, s) THEN Usage(journal, s)[x] + e.actual[x]
                   ELSE Usage(journal, s)[x]
  <2>1. /\ Usage(journal, s)[x] \in Nat
        /\ Usage(journal', s)[x] = Usage(journal, s)[x] + Charge(e, s, x)
    <3>1. e.type \notin Outcomes
      BY <1>3 DEF Outcomes
    <3> QED
      BY <1>2, <1>5, <1>6, <1>7, <1>8, <3>1, UsageGrows
  <2>2. Charge(e, s, x) = IF Within(e, s) THEN e.actual[x] ELSE 0
    BY <1>3 DEF Charge
  <2> QED
    BY <2>1, <2>2
<1>11. ASSUME NEW s \in Scopes PROVE LimitAt(journal', s)
  <2>1. LimitAt(journal, s)
    BY LimitsAre DEF LedgerInv, RoomInv
  <2>2. Cardinality(HeldTools(journal, s)) = IF Within(e, s) /\ K = "tool" THEN 1 ELSE 0
    <3>1. Within(e, s) <=> Within(journal[session.handle], s)
      BY <1>1, <1>3 DEF Within
    <3> QED
      BY <1>1, <3>1, HeldToolsAre
  <2>3. Cardinality(HeldTools(journal', s)) = 0
    <3>1. HeldTools(journal', s) = {}
      BY <1>9 DEF HeldTools
    <3> QED
      BY <3>1, FS_EmptySet
  <2>4. "attempts" \in Dimensions /\ "tool_calls" \in Dimensions /\ "duration_ms" \in Dimensions
    BY DEF Dimensions
  <2>5. /\ Usage(journal', s)["attempts"] <= Limit[s]["attempts"]
        /\ Usage(journal', s)["tool_calls"] + 0 <= Limit[s]["tool_calls"]
    <3>1. /\ Usage(journal, s)["attempts"] \in Nat /\ Usage(journal, s)["tool_calls"] \in Nat
      BY <1>10, <2>4
    <3>2. /\ Usage(journal, s)["attempts"] <= Limit[s]["attempts"]
          /\ Usage(journal, s)["tool_calls"] + Cardinality(HeldTools(journal, s))
               <= Limit[s]["tool_calls"]
      BY <2>1 DEF LimitAt
    <3>3. Limit[s]["attempts"] \in Nat /\ Limit[s]["tool_calls"] \in Nat
      BY <2>4, LimitIsNat
    <3> QED
      BY <1>3, <1>10, <2>2, <2>4, <3>1, <3>2, <3>3
  <2>6. CASE Within(e, s)
    <3>1. Charged(journal', {"BUDGET_COMMITTED"}, s) =
            Charged(journal, {"BUDGET_COMMITTED"}, s) \cup {Len(journal) + 1}
      <4> DEFINE types == {"BUDGET_COMMITTED"}
      <4>1. e.type \in types
        BY <1>3
      <4> HIDE DEF types
      <4>2. Charged(Append(journal, e), types, s) =
              Charged(journal, types, s) \cup {Len(journal) + 1}
        BY <1>6, <2>6, <4>1, ChargedGrows
      <4> QED
        BY <1>5, <4>2 DEF types
    <3> DEFINE C == Charged(journal', {"BUDGET_COMMITTED"}, s)
    <3>2. Len(journal) \in Nat /\ Charged(journal, {"BUDGET_COMMITTED"}, s) \subseteq 1 .. Len(journal)
      BY <1>6, ChargedGrows
    <3>3. C \in SUBSET (0 .. Len(journal) + 1) /\ Len(journal) + 1 \in C
      BY <3>1, <3>2
    <3> HIDE DEF C
    <3>4. Max(C) \in C /\ \A k \in C : k <= Max(C)
      BY <3>2, <3>3, MaxIsLast
    <3>5. Max(C) = Len(journal) + 1
      <4>1. Max(C) \in 0 .. Len(journal) + 1
        BY <3>3, <3>4
      <4>2. Len(journal) + 1 <= Max(C)
        BY <3>3, <3>4
      <4> QED
        BY <3>2, <4>1, <4>2
    <3>6. Before(journal', Max(C)) = journal
      BY <1>5, <1>6, <3>5, BeforeLast
    <3>7. Usage(journal, s)["duration_ms"] < Limit[s]["duration_ms"]
      <4>1. s \in {"execution", Node}
        BY <1>3, <2>6 DEF Within
      <4>2. Estimate(K)["duration_ms"] = 1
        BY DEF Estimate
      <4>3. Usage(journal, s)["duration_ms"] + 1 <= Limit[s]["duration_ms"]
        BY <1>1, <2>4, <4>1, <4>2 DEF HasRoom
      <4>4. Usage(journal, s)["duration_ms"] \in Nat /\ Limit[s]["duration_ms"] \in Nat
        BY <1>10, <2>4, LimitIsNat
      <4> QED
        BY <4>3, <4>4
    <3>8. LastFits(journal', s)
      BY <3>6, <3>7 DEF LastFits, C
    <3> QED
      BY <2>3, <2>5, <3>8 DEF LimitAt
  <2>7. CASE ~ Within(e, s)
    <3>1. Charged(journal', {"BUDGET_COMMITTED"}, s) = Charged(journal, {"BUDGET_COMMITTED"}, s)
      BY <1>5, <1>6, <2>7, ChargedGrows
    <3>2. \A i \in DOMAIN journal : i \in DOMAIN journal' /\ journal'[i] = journal[i]
      BY DEF Quiet, Extends
    <3>3. PICK T : journal' \in Seq(T)
      BY <1>2 DEF JournalIsTyped
    <3>4. ASSUME Charged(journal, {"BUDGET_COMMITTED"}, s) # {}
          PROVE  Before(journal', Max(Charged(journal, {"BUDGET_COMMITTED"}, s)))
                   = Before(journal, Max(Charged(journal, {"BUDGET_COMMITTED"}, s)))
      <4>1. Max(Charged(journal, {"BUDGET_COMMITTED"}, s)) \in DOMAIN journal
        BY <1>6, <3>4, LastCommit
      <4>2. journal \in Seq(S)
        BY <1>6
      <4>3. \A m \in DOMAIN journal : Before(journal', m) = Before(journal, m)
        BY <3>2, <3>3, <4>2, BeforeStays
      <4> QED
        BY <4>1, <4>3
    <3>5. LastFits(journal', s)
      BY <2>1, <3>1, <3>4 DEF LimitAt, LastFits
    <3> QED
      BY <2>3, <2>5, <3>5 DEF LimitAt
  <2> QED
    BY <2>6, <2>7
<1>12. ASSUME NEW kind \in Kinds PROVE MadeOf(kind)' = Known(journal', kind)
  <2>1. MadeOf(kind) = Known(journal, kind) + Unsettled(kind)
    BY DEF LedgerInv, CountInv
  <2>2. MadeOf(kind)' = MadeOf(kind)
    BY <1>2 DEF MadeOf
  <2> DEFINE types == {"BUDGET_COMMITTED"}
  <2>3. e.type \in types
    BY <1>3
  <2> HIDE DEF types
  <2>4. /\ IsFiniteSet(OfKind(journal, types, kind))
        /\ OfKind(journal, types, kind) \subseteq 1 .. Len(journal)
        /\ OfKind(Append(journal, e), types, kind) =
             IF e.kind = kind THEN OfKind(journal, types, kind) \cup {Len(journal) + 1}
             ELSE OfKind(journal, types, kind)
    BY <1>6, <2>3, OfKindGrows
  <2>5. Len(journal) + 1 \notin OfKind(journal, types, kind)
    BY <1>6, <2>4
  <2>6. Cardinality(OfKind(journal', types, kind)) =
          IF e.kind = kind THEN Cardinality(OfKind(journal, types, kind)) + 1
          ELSE Cardinality(OfKind(journal, types, kind))
    BY <1>5, <2>4, <2>5, FS_AddElement
  <2>7. Known(journal', kind) =
          IF K = kind THEN Known(journal, kind) + 1 ELSE Known(journal, kind)
    BY <1>3, <2>6 DEF Known, types
  <2>8. Known(journal, kind) \in Nat
    BY <1>2, KnownIsNat
  <2> QED
    BY <1>4, <2>1, <2>2, <2>7, <2>8
<1>13. ASSUME NEW i \in DOMAIN effects', effects'[i].kind = "tool"
       PROVE  WrittenAhead(journal', effects'[i].node, effects'[i].attempt, effects'[i].step)
  BY <1>2, <1>5, <1>6, <1>13, AheadGrows DEF LedgerInv, CountInv
<1>14. ExcessInv'
  BY <1>1 DEF ExcessInv, Quiet, Extends
<1>15. LedgerInv'
  BY <1>2, <1>8, <1>9, <1>11, <1>12, <1>13, <1>14, RestLedger
<1> QED
  BY <1>1, <1>15 DEF Accounts, Spares

\* A reply settles the call of the model and gives up its reservation.
LEMMA CommitModelAccounts ==
  ASSUME GraphInv, LedgerInv, CommitModel PROVE Accounts
<1>1. GraphInv' /\ Quiet
  BY CommitModelKeeps
<1>2. session \in Session /\ session.step = "replied" /\ session.reply \in Replies
  BY DEF GraphInv, TypeInv, CommitModel, Session
<1>3. PICK d \in Durations :
        Write(Committed(journal, session.handle, session.reply \in {"content", "calls"}, d))
  BY DEF CommitModel
<1> DEFINE succeeded == session.reply \in {"content", "calls"}
<1>4. journal' = Append(journal, Committed(journal, session.handle, succeeded, d))
  BY <1>3 DEF Write
<1>5. \/ Go("overrun")
      \/ ~ IsExceeded(journal') /\ Interpret
  BY DEF CommitModel
<1>6. Interpret => session'.step \in {"result", "node", "tools"}
  <2> SUFFICES ASSUME Interpret PROVE session'.step \in {"result", "node", "tools"}
    OBVIOUS
  <2>1. Fail => session'.step = "result"
    BY <1>2 DEF Fail, Session
  <2>2. \/ Fail
        \/ \E r \in Results :
             session' = [session EXCEPT !.step = "result", !.result = r]
        \/ session' = [session EXCEPT !.step = "node", !.tried = @ + 1]
        \/ session' = [session EXCEPT !.step = "tools", !.tried = 0]
    BY <1>2 DEF Interpret, Replies
  <2> QED
    BY <1>2, <2>1, <2>2 DEF Session
<1>7. Go("overrun") => session'.step = "overrun"
  BY <1>2 DEF Go, Session
<1>8. session'.step \notin Holding \cup {"idle"} /\ (session'.step \in Clean => ~ IsExceeded(journal'))
  BY <1>5, <1>6, <1>7 DEF Holding, Clean
<1> HIDE DEF succeeded
<1> QED
  BY <1>1, <1>2, <1>4, <1>8, CommitAccounts

\* A result settles the call of the tool and gives up its reservation.
LEMMA CommitToolAccounts ==
  ASSUME GraphInv, LedgerInv, CommitTool PROVE Accounts
<1>1. GraphInv' /\ Quiet
  BY CommitToolKeeps
<1>2. session \in Session /\ session.step = "dispatched"
  BY DEF GraphInv, TypeInv, CommitTool
<1>3. PICK d \in Durations :
        Write(Committed(journal, session.handle, session.result = "completed", d))
  BY DEF CommitTool
<1> DEFINE succeeded == session.result = "completed"
<1>4. journal' = Append(journal, Committed(journal, session.handle, succeeded, d))
  BY <1>3 DEF Write
<1>5. session'.step \in {"overrun", "outcome"}
  BY <1>2 DEF CommitTool, Go, Session
<1>6. session'.step \notin Holding \cup {"idle"} /\ session'.step \notin Clean
  BY <1>5 DEF Holding, Clean
<1> HIDE DEF succeeded
<1> QED
  BY <1>1, <1>2, <1>4, <1>6, CommitAccounts

\* A write-ahead that fails gives the reservation back.
LEMMA ReleaseAccounts ==
  ASSUME GraphInv, LedgerInv, RecordCallFails PROVE Accounts
<1>1. GraphInv' /\ Quiet
  BY RecordCallFailsKeeps
<1>2. /\ JournalIsTyped(journal) /\ JournalIsTyped(journal') /\ LedgerIsTyped(journal)
      /\ session \in Session /\ session.step = "reserved" /\ effects' = effects
  BY <1>1 DEF GraphInv, TypeInv, LedgerInv, RecordCallFails
<1>3. session'.step = "raised" /\ session'.step \notin Holding \cup {"idle"}
      /\ session'.step \notin Clean
  BY <1>2 DEF RecordCallFails, Go, Session, Holding, Clean
<1>4. /\ Active(journal) = {session.handle} /\ session.handle \in DOMAIN journal
      /\ IsExceeded(journal) => ExcessUnnoticed
      /\ OpenStart(journal)
  BY <1>2, HeldIs DEF Holding
<1> DEFINE call == ToolEvent("TOOL_CALLED")
           release == Released(journal, session.handle)
<1>5. call.type = "TOOL_CALLED" /\ call.type \in OtherEvents \cup {"BUDGET_EXCEEDED"}
  BY DEF ToolEvent, OtherEvents
<1>6. /\ release.type = "BUDGET_RELEASED" /\ release.reservation = session.handle
      /\ release.type \notin Outcomes
  BY DEF Released, Outcomes
<1>7. PICK landed \in {<< >>, <<call>>} : journal' = journal \o landed \o <<release>>
  BY DEF RecordCallFails
<1> HIDE DEF call, release
<1>8. PICK S0 : journal \in Seq(S0) /\ call \in S0
  BY <1>2, JournalOf
<1> DEFINE S == S0 \cup {release}
           k == journal \o landed
<1>9. journal \in Seq(S) /\ call \in S /\ release \in S
  BY <1>8, SeqMonotonic
<1> HIDE DEF S
<1>10. k = journal \/ k = Append(journal, call)
  <2>1. CASE landed = << >>
    BY <1>9, <2>1, ConcatEmptySeq
  <2>2. CASE landed = <<call>>
    BY <1>9, <2>2, AppendIsConcat
  <2> QED
    BY <1>7, <2>1, <2>2
<1>11. k \in Seq(S) /\ journal' = Append(k, release)
  <2>1. Append(journal, call) \in Seq(S)
    BY <1>9, AppendFacts
  <2> HIDE DEF k
  <2>2. k \in Seq(S)
    BY <1>9, <1>10, <2>1
  <2>3. Append(k, release) = k \o <<release>>
    BY <1>9, <2>2, AppendIsConcat
  <2> QED
    BY <1>7, <2>2, <2>3 DEF k
<1>12. Same(journal, k)
  <2>1. CASE k = journal
    BY <1>2, <2>1, StaysSame
  <2>2. CASE k = Append(journal, call)
    <3>1. EntryIsTyped(call, Len(journal))
      <4>1. call.type \in OtherEvents
        BY <1>5 DEF OtherEvents
      <4> QED
        BY <4>1, OtherIsTyped
    <3> QED
      BY <1>2, <1>5, <1>9, <2>2, <3>1, EntryIsSame
  <2> QED
    BY <1>10, <2>1, <2>2
<1> HIDE DEF k
<1>13. LedgerIsTyped(k) /\ Active(k) = {session.handle} /\ session.handle \in DOMAIN k
  BY <1>4, <1>12 DEF Same
<1>14. EntryIsTyped(release, Len(k))
  <2>1. session.handle \in 1 .. Len(k)
    BY <1>11, <1>13
  <2> QED
    BY <1>6, <2>1 DEF EntryIsTyped, LedgerEvents, BudgetEvents
<1>15. LedgerIsTyped(journal')
  BY <1>9, <1>11, <1>13, <1>14, EntryKeepsTyped
<1>16. Active(journal') = {}
  <2> DEFINE closing == {"BUDGET_COMMITTED", "BUDGET_RELEASED"}
  <2>1. release.type # "BUDGET_RESERVED" /\ release.type \in closing
    BY <1>6
  <2>2. Active(Append(k, release)) = Active(k) \ {release.reservation}
    BY <1>9, <1>11, <1>13, <1>14, <2>1, ActiveGrows
  <2> QED
    BY <1>6, <1>11, <1>13, <2>2
<1>17. \A s \in Scopes, d \in Dimensions :
         Usage(k, s)[d] \in Nat /\ Usage(journal', s)[d] = Usage(k, s)[d]
  <2>1. \A s, d : Charge(release, s, d) = 0
    BY <1>6 DEF Charge
  <2>2. \A s, d : d \in Dimensions =>
          /\ Usage(k, s)[d] \in Nat
          /\ Usage(journal', s)[d] = Usage(k, s)[d] + Charge(release, s, d)
    BY <1>6, <1>9, <1>11, <1>13, <1>14, <1>15, UsageGrows
  <2> QED
    BY <2>1, <2>2
<1>18. ASSUME NEW s \in Scopes PROVE LimitAt(journal', s)
  <2>1. LimitAt(k, s)
    BY <1>9, <1>11, <1>12, LimitsAre, SameLimits DEF LedgerInv, RoomInv
  <2>2. LastFits(journal', s)
    <3>1. release.type # "BUDGET_COMMITTED"
      BY <1>6
    <3> QED
      BY <1>9, <1>11, <2>1, <3>1, LastFitsStays DEF LimitAt
  <2>3. Cardinality(HeldTools(journal', s)) = 0
    <3>1. HeldTools(journal', s) = {}
      BY <1>16 DEF HeldTools
    <3> QED
      BY <3>1, FS_EmptySet
  <2>4. Cardinality(HeldTools(k, s)) \in Nat
    <3>1. Cardinality(HeldTools(k, s)) =
            IF Within(k[session.handle], s) /\ k[session.handle].kind = "tool" THEN 1 ELSE 0
      BY <1>13, HeldToolsAre
    <3> QED
      BY <3>1
  <2>5. "attempts" \in Dimensions /\ "tool_calls" \in Dimensions
    BY DEF Dimensions
  <2>6. Limit[s]["tool_calls"] \in Nat
    BY <2>5, LimitIsNat
  <2>7. /\ Usage(journal', s)["attempts"] = Usage(k, s)["attempts"]
        /\ Usage(journal', s)["tool_calls"] = Usage(k, s)["tool_calls"]
        /\ Usage(k, s)["tool_calls"] \in Nat
    BY <1>17, <2>5
  <2>8. Usage(journal', s)["tool_calls"] + 0 <= Limit[s]["tool_calls"]
    BY <2>1, <2>4, <2>6, <2>7 DEF LimitAt
  <2> QED
    BY <2>1, <2>2, <2>3, <2>7, <2>8 DEF LimitAt
<1>19. ASSUME NEW kind \in Kinds PROVE MadeOf(kind)' = Known(journal', kind)
  <2>1. MadeOf(kind) = Known(journal, kind) + Unsettled(kind)
    BY <1>2 DEF LedgerInv, CountInv
  <2>2. Unsettled(kind) = 0
    BY <1>2 DEF Unsettled, Kinds
  <2>3. Known(k, kind) = Known(journal, kind)
    BY <1>9, <1>11, <1>12, SameCounts
  <2>4. Known(journal', kind) = Known(k, kind)
    <3>1. release.type \notin {"BUDGET_COMMITTED"}
      BY <1>6
    <3> QED
      BY <1>9, <1>11, <3>1, OfKindGrows DEF Known
  <2>5. Known(journal, kind) \in Nat
    BY <1>2, KnownIsNat
  <2> QED
    BY <1>2, <2>1, <2>2, <2>3, <2>4, <2>5 DEF MadeOf
<1>20. ASSUME NEW i \in DOMAIN effects', effects'[i].kind = "tool"
       PROVE  WrittenAhead(journal', effects'[i].node, effects'[i].attempt, effects'[i].step)
  <2>1. WrittenAhead(journal, effects[i].node, effects[i].attempt, effects[i].step)
    BY <1>2, <1>20 DEF LedgerInv, CountInv
  <2>2. WrittenAhead(k, effects[i].node, effects[i].attempt, effects[i].step)
    BY <1>12, <2>1, SameAhead
  <2> QED
    BY <1>2, <1>9, <1>11, <2>2, AheadGrows
<1>21. ExcessInv'
  BY <1>1, <1>3, <1>4 DEF ExcessInv, Quiet, Extends
<1>22. LedgerInv'
  BY <1>2, <1>3, <1>15, <1>16, <1>18, <1>19, <1>20, <1>21, RestLedger
<1> QED
  BY <1>4, <1>22 DEF Accounts, Spares

\* A reservation takes what there is room for.
LEMMA ReserveAccounts ==
  ASSUME GraphInv, GraphInv', Quiet, LedgerInv, NEW kind \in Kinds, NEW step,
         \/ kind = "model" /\ step = "model" /\ session.step = "node"
         \/ kind = "tool" /\ step = "reserved" /\ session.step = "tools",
         ReserveCall(kind, step)
  PROVE  Accounts
<1> DEFINE e == Reserved(Node, Attempt, kind)
<1>1. /\ e.type = "BUDGET_RESERVED" /\ e.node = Node /\ e.kind = kind
      /\ e.type \notin Outcomes
  BY DEF Reserved, Outcomes
<1> HIDE DEF e
<1>2. /\ JournalIsTyped(journal) /\ JournalIsTyped(journal') /\ LedgerIsTyped(journal)
      /\ session \in Session
  BY DEF GraphInv, TypeInv, LedgerInv
<1>3. /\ journal' = Append(journal, e) /\ UNCHANGED <<record, effects, faults>>
      /\ session' = [session EXCEPT !.step = step, !.handle = Len(journal) + 1]
      /\ Fits(journal, Node, kind)
  BY DEF ReserveCall, Write, e
<1>4. /\ session'.step = step /\ session'.handle = Len(journal) + 1 /\ Node' = Node
      /\ step \in Holding /\ step # "called"
      /\ kind = IF step \in {"model", "replied"} THEN "model" ELSE "tool"
  BY <1>2, <1>3 DEF Session, Node, Holding
<1>5. PICK S : journal \in Seq(S) /\ e \in S
  BY <1>2, JournalOf
<1>6. /\ Len(journal) \in Nat /\ DOMAIN journal = 1 .. Len(journal)
      /\ journal' \in Seq(S) /\ journal'[Len(journal) + 1] = e
  BY <1>3, <1>5, AppendFacts
<1>7. EntryIsTyped(e, Len(journal))
  BY <1>1 DEF EntryIsTyped, LedgerEvents, BudgetEvents
<1>8. LedgerIsTyped(journal')
  BY <1>2, <1>3, <1>5, <1>7, EntryKeepsTyped
<1>9. /\ Active(journal) = {} /\ session.step \in Inside /\ session.step # "idle"
      /\ IsExceeded(journal) => Unnoticed(journal, Node)
  BY InsideSteps DEF LedgerInv, HoldInv, ExcessInv, Holding, Clean
<1>10. Node \in Nodes /\ OpenStart(journal)
  BY <1>9, AttemptIsOpen
<1>11. Active(journal') = {Len(journal) + 1}
  <2>1. Active(Append(journal, e)) = Active(journal) \cup {Len(journal) + 1}
    BY <1>1, <1>2, <1>5, <1>7, ActiveGrows
  <2> QED
    BY <1>3, <1>9, <2>1
<1>12. \A s, d : d \in Dimensions =>
         Usage(journal, s)[d] \in Nat /\ Usage(journal', s)[d] = Usage(journal, s)[d]
  <2>1. \A s, d : Charge(e, s, d) = 0
    BY <1>1 DEF Charge
  <2>2. \A s, d : d \in Dimensions =>
          /\ Usage(journal, s)[d] \in Nat
          /\ Usage(journal', s)[d] = Usage(journal, s)[d] + Charge(e, s, d)
    BY <1>1, <1>2, <1>3, <1>5, <1>7, <1>8, UsageGrows
  <2> QED
    BY <2>1, <2>2
<1>13. HasRoom(journal, Node, kind)
  BY <1>2, <1>3, <1>5, <1>9, <1>10, FitsIs
<1>14. HasRoom(journal', Node, kind)
  BY <1>12, <1>13 DEF HasRoom
<1>15. IsExceeded(journal') => Unnoticed(journal', Node')
  <2>1. /\ e.type # "BUDGET_EXCEEDED"
        /\ e.type \notin {"BUDGET_COMMITTED", "BUDGET_EXCEEDED", "NODE_STARTED"}
    BY <1>1
  <2>2. \A s \in Scopes, d \in Dimensions :
          Usage(Append(journal, e), s)[d] > Limit[s][d] <=> Usage(journal, s)[d] > Limit[s][d]
    BY <1>3, <1>12
  <2>3. IsExceeded(journal') => IsExceeded(journal)
    BY <1>2, <1>3, <1>5, <1>7, <2>1, <2>2, EntryKeepsExcess
  <2>4. Unnoticed(journal, Node) => Unnoticed(journal', Node)
    BY <1>1, <1>2, <1>3, <1>5, <1>7, <2>1, UnnoticedStays
  <2> QED
    BY <1>4, <1>9, <2>3, <2>4
<1>16. ASSUME NEW s \in Scopes PROVE LimitAt(journal', s)
  <2>1. LimitAt(journal, s)
    BY LimitsAre DEF LedgerInv, RoomInv
  <2>2. LastFits(journal', s)
    <3>1. e.type # "BUDGET_COMMITTED"
      BY <1>1
    <3> QED
      BY <1>3, <1>5, <2>1, <3>1, LastFitsStays DEF LimitAt
  <2>3. "attempts" \in Dimensions /\ "tool_calls" \in Dimensions
    BY DEF Dimensions
  <2>4. Cardinality(HeldTools(journal', s)) = IF Within(e, s) /\ kind = "tool" THEN 1 ELSE 0
    BY <1>1, <1>6, <1>11, HeldToolsAre
  <2>5. Cardinality(HeldTools(journal, s)) = 0
    <3>1. HeldTools(journal, s) = {}
      BY <1>9 DEF HeldTools
    <3> QED
      BY <3>1, FS_EmptySet
  <2>6. /\ Usage(journal, s)["tool_calls"] \in Nat
        /\ Usage(journal', s)["tool_calls"] = Usage(journal, s)["tool_calls"]
        /\ Usage(journal', s)["attempts"] = Usage(journal, s)["attempts"]
    BY <1>12, <2>3
  <2>7. Usage(journal, s)["tool_calls"] <= Limit[s]["tool_calls"]
    BY <2>1, <2>5, <2>6 DEF LimitAt
  <2>8. Within(e, s) /\ kind = "tool" =>
          Usage(journal, s)["tool_calls"] + 1 <= Limit[s]["tool_calls"]
    <3> SUFFICES ASSUME Within(e, s), kind = "tool"
                 PROVE  Usage(journal, s)["tool_calls"] + 1 <= Limit[s]["tool_calls"]
      OBVIOUS
    <3>1. s \in {"execution", Node} /\ Estimate(kind)["tool_calls"] = 1
      BY <1>1 DEF Within, Estimate
    <3> QED
      BY <1>13, <2>3, <3>1 DEF HasRoom
  <2>9. Usage(journal', s)["tool_calls"] + Cardinality(HeldTools(journal', s))
          <= Limit[s]["tool_calls"]
    BY <2>4, <2>6, <2>7, <2>8
  <2> QED
    BY <2>1, <2>2, <2>6, <2>9 DEF LimitAt
<1>17. HoldInv'
  <2>1. LastOutcome(journal) \in 0 .. Len(journal)
    BY <1>5, LastOutcomeIs
  <2>2. LastOutcome(journal') = LastOutcome(journal) /\ OpenStart(journal')
    BY <1>10 DEF Quiet, Extends
  <2>3. \A i \in Active(journal') : i > LastOutcome(journal') /\ OpenStart(journal')
    BY <1>6, <1>11, <2>1, <2>2
  <2>4. /\ Active(journal') = {session'.handle}
        /\ journal'[session'.handle].node = Node'
        /\ journal'[session'.handle].kind =
             IF session'.step \in {"model", "replied"} THEN "model" ELSE "tool"
    BY <1>1, <1>4, <1>6, <1>11
  <2> QED
    BY <1>4, <1>11, <2>3, <2>4 DEF HoldInv
<1>18. CountInv'
  <2>1. ASSUME NEW k \in Kinds
        PROVE  /\ MadeOf(k)' \in Known(journal', k) .. Known(journal', k) + Unknown(journal', k)
               /\ MadeOf(k)' = Known(journal', k) + Unsettled(k)'
    <3>1. MadeOf(k)' = Known(journal, k)
      BY <1>2, <1>3, <1>9, NothingHeld DEF MadeOf
    <3>2. Known(journal', k) = Known(journal, k) /\ Known(journal, k) \in Nat
      <4>1. e.type \notin {"BUDGET_COMMITTED"}
        BY <1>1
      <4> QED
        BY <1>2, <1>3, <1>5, <4>1, OfKindGrows, KnownIsNat DEF Known
    <3>3. Unsettled(k)' = 0
      BY <1>4 DEF Unsettled, Kinds
    <3>4. Unknown(journal', k) \in Nat
      <4>1. PICK held : held = {i \in Active(journal') : journal'[i].kind = k}
        OBVIOUS
      <4>2. held = {} \/ held = {Len(journal) + 1}
        BY <1>11, <4>1
      <4>3. IsFiniteSet({}) /\ IsFiniteSet({Len(journal) + 1})
        BY FS_EmptySet, FS_Singleton
      <4>4. IsFiniteSet(held)
        BY <4>2, <4>3
      <4>5. Cardinality(held) \in Nat
        BY <4>4, FS_CardinalityType
      <4>6. Unknown(journal', k) = Cardinality(held)
        BY <4>1, Zenon DEF Unknown
      <4> QED
        BY <4>5, <4>6
    <3> QED
      BY <3>1, <3>2, <3>3, <3>4
  <2>2. ASSUME NEW i \in DOMAIN effects', effects'[i].kind = "tool"
        PROVE  WrittenAhead(journal', effects'[i].node, effects'[i].attempt, effects'[i].step)
    BY <1>3, <1>5, <2>2, AheadGrows DEF LedgerInv, CountInv
  <2> QED
    BY <1>4, <2>1, <2>2 DEF CountInv
<1>19. RoomInv'
  <2>1. LimitsHold'
    BY <1>16 DEF LimitsHold, LimitAt, LastFits, HeldTools, Charged
  <2>2. HasRoom(journal', Node', IF session'.step \in {"model", "replied"} THEN "model" ELSE "tool")
    BY <1>4, <1>14
  <2> QED
    BY <2>1, <2>2 DEF RoomInv
<1>20. ExcessInv'
  BY <1>10, <1>15 DEF ExcessInv, Quiet, Extends
<1>21. LedgerInv'
  BY <1>8, <1>17, <1>18, <1>19, <1>20 DEF LedgerInv
<1> QED
  BY <1>9, <1>10, <1>21, UnnoticedIs DEF Accounts, Spares

\* A call that was reserved is made: it is the one that the reservation leaves room for.
LEMMA CallAccounts ==
  ASSUME GraphInv, GraphInv', LedgerInv, NEW kind \in Kinds, NEW place,
         Perform(kind, place),
         session'.handle = session.handle,
         \/ kind = "model" /\ session.step = "model" /\ session'.step = "replied"
         \/ kind = "tool" /\ session.step = "called" /\ session'.step = "dispatched"
                          /\ WrittenAhead(journal, Node, Attempt, place)
  PROVE  Accounts
<1> DEFINE e == [node |-> Node, attempt |-> Attempt, kind |-> kind, step |-> place]
<1>1. /\ e.node = Node /\ e.attempt = Attempt /\ e.kind = kind /\ e.step = place
  OBVIOUS
<1> HIDE DEF e
<1>2. effects' = Append(effects, e) /\ UNCHANGED <<record, journal, faults>>
  BY DEF Perform, e
<1>3. /\ session.step \in Holding /\ session'.step \in Holding /\ session'.step # "called"
      /\ session'.step \in Replying <=> session.step \in Replying
      /\ kind = IF session.step \in Replying THEN "model" ELSE "tool"
  BY DEF Holding, Replying
<1>4. /\ Active(journal) = {session.handle} /\ session.handle \in DOMAIN journal
      /\ journal[session.handle].node = Node /\ journal[session.handle].kind = kind
      /\ HasRoom(journal, Node, kind)
      /\ IsExceeded(journal) => Unnoticed(journal, Node) /\ ExcessUnnoticed
      /\ OpenStart(journal) /\ Node \in Nodes
  BY <1>3, HeldIs
<1>5. PICK S : effects \in Seq(S) /\ e \in S
  <2>1. effects \in Seq(Effect \cup {e}) /\ e \in Effect \cup {e}
    <3>1. effects \in Seq(Effect)
      BY DEF GraphInv, TypeInv
    <3> HIDE DEF Effect
    <3> QED
      BY <3>1, SeqMonotonic
  <2> QED
    BY <2>1
<1>6. /\ Len(effects) \in Nat /\ DOMAIN effects = 1 .. Len(effects)
      /\ DOMAIN effects' = 1 .. Len(effects) + 1
      /\ \A i \in 1 .. Len(effects) : effects'[i] = effects[i]
      /\ effects'[Len(effects) + 1] = e
  BY <1>2, <1>5, AppendFacts
<1>7. \A k : /\ MadeOf(k) \in Nat
             /\ MadeOf(k)' = IF k = kind THEN MadeOf(k) + 1 ELSE MadeOf(k)
  <2> SUFFICES ASSUME NEW k
               PROVE  /\ MadeOf(k) \in Nat
                      /\ MadeOf(k)' = IF k = kind THEN MadeOf(k) + 1 ELSE MadeOf(k)
    OBVIOUS
  <2> DEFINE made == {i \in DOMAIN effects : effects[i].kind = k}
  <2>1. IsFiniteSet(made) /\ Len(effects) + 1 \notin made
    <3>1. made \subseteq 1 .. Len(effects)
      BY <1>6
    <3>2. 1 \in Int /\ Len(effects) \in Int /\ Len(effects) + 1 \notin 1 .. Len(effects)
      BY <1>6
    <3>3. IsFiniteSet(1 .. Len(effects))
      BY <3>2, FS_Interval
    <3> QED
      BY <3>1, <3>2, <3>3, FS_Subset
  <2>2. {i \in DOMAIN effects' : effects'[i].kind = k} =
          IF k = kind THEN made \cup {Len(effects) + 1} ELSE made
    <3>1. CASE k = kind
      <4>1. \A i : i \in {x \in DOMAIN effects' : effects'[x].kind = k}
                     <=> i \in made \/ i = Len(effects) + 1
        BY <1>1, <1>6, <3>1
      <4> QED
        BY <3>1, <4>1
    <3>2. CASE k # kind
      <4>1. \A i : i \in {x \in DOMAIN effects' : effects'[x].kind = k} <=> i \in made
        BY <1>1, <1>6, <3>2
      <4> QED
        BY <3>2, <4>1
    <3> QED
      BY <3>1, <3>2
  <2> HIDE DEF made
  <2>3. Cardinality(made) \in Nat /\ Cardinality(made \cup {Len(effects) + 1}) = Cardinality(made) + 1
    BY <2>1, FS_CardinalityType, FS_AddElement
  <2>4. MadeOf(k) = Cardinality(made)
    BY DEF MadeOf, made
  <2>5. MadeOf(k)' = Cardinality(IF k = kind THEN made \cup {Len(effects) + 1} ELSE made)
    BY <2>2 DEF MadeOf
  <2> QED
    BY <2>3, <2>4, <2>5
<1>8. JournalIsTyped(journal) /\ LedgerIsTyped(journal)
  BY DEF GraphInv, TypeInv, LedgerInv
<1>9. CountInv'
  <2>1. ASSUME NEW k \in Kinds
        PROVE  /\ MadeOf(k)' \in Known(journal, k) .. Known(journal, k) + Unknown(journal, k)
               /\ MadeOf(k)' = Known(journal, k) + Unsettled(k)'
    <3>1. MadeOf(k) = Known(journal, k) + Unsettled(k)
      BY <1>3 DEF LedgerInv, CountInv, Holding
    <3>2. /\ Unsettled(k) = 0
          /\ Unsettled(k)' = IF k = kind THEN 1 ELSE 0
      BY DEF Unsettled, Kinds
    <3>3. Unknown(journal, k) = IF k = kind THEN 1 ELSE 0
      <4>1. {i \in Active(journal) : journal[i].kind = k} =
              IF k = kind THEN {session.handle} ELSE {}
        BY <1>4
      <4> QED
        BY <4>1, FS_EmptySet, FS_Singleton DEF Unknown
    <3>4. Known(journal, k) \in Nat
      BY <1>8, KnownIsNat
    <3> QED
      BY <1>7, <3>1, <3>2, <3>3, <3>4
  <2>2. ASSUME NEW i \in DOMAIN effects', effects'[i].kind = "tool"
        PROVE  WrittenAhead(journal, effects'[i].node, effects'[i].attempt, effects'[i].step)
    <3>1. CASE i = Len(effects) + 1
      BY <1>1, <1>6, <2>2, <3>1
    <3>2. CASE i \in DOMAIN effects
      BY <1>6, <2>2, <3>2 DEF LedgerInv, CountInv
    <3> QED
      BY <1>6, <3>1, <3>2
  <2> QED
    BY <1>2, <1>3, <2>1, <2>2 DEF CountInv, Known, Unknown, WrittenAhead
<1>10. HoldInv'
  <2>1. /\ \A i \in Active(journal) : i > LastOutcome(journal) /\ OpenStart(journal)
        /\ \A i, k \in Active(journal) : i = k
    BY DEF LedgerInv, HoldInv
  <2>2. kind = IF session'.step \in {"model", "replied"} THEN "model" ELSE "tool"
    BY <1>3 DEF Replying
  <2>3. Node' = Node
    BY <1>2 DEF Node
  <2> QED
    BY <1>2, <1>3, <1>4, <2>1, <2>2, <2>3 DEF HoldInv
<1>11. RoomInv'
  <2>1. kind = IF session'.step \in {"model", "replied"} THEN "model" ELSE "tool"
    BY <1>3 DEF Replying
  <2>2. Node' = Node
    BY <1>2 DEF Node
  <2>3. LimitsHold'
    BY <1>2 DEF LedgerInv, RoomInv, LimitsHold
  <2>4. HasRoom(journal', Node', IF session'.step \in {"model", "replied"} THEN "model" ELSE "tool")
    BY <1>2, <1>4, <2>1, <2>2
  <2> QED
    BY <2>3, <2>4 DEF RoomInv
<1>12. ExcessInv'
  BY <1>2, <1>4 DEF ExcessInv, Node
<1>13. LedgerInv'
  BY <1>2, <1>8, <1>9, <1>10, <1>11, <1>12 DEF LedgerInv
<1> QED
  BY <1>4, <1>13 DEF Accounts, Spares

\* The model is called on the reservation that the session holds.
LEMMA CallModelAccounts ==
  ASSUME GraphInv, LedgerInv, CallModel PROVE Accounts
<1>1. GraphInv'
  BY CallModelKeeps
<1>2. session \in Session /\ session.step = "model"
  BY DEF GraphInv, TypeInv, CallModel
<1>3. Perform("model", session.turns + 1) /\ "model" \in Kinds
  BY DEF CallModel, Kinds
<1>4. PICK reply \in Replies, n \in 1 .. MaxToolSteps :
        session' = [session EXCEPT !.step = "replied", !.turns = @ + 1,
                                   !.reply = reply, !.wanted = n]
  BY DEF CallModel
<1>5. session'.step = "replied" /\ session'.handle = session.handle
  BY <1>2, <1>4 DEF Session
<1> QED
  BY <1>1, <1>2, <1>3, <1>5, CallAccounts

\* A tool is called on the reservation that the session holds, written ahead.
LEMMA DispatchAccounts ==
  ASSUME GraphInv, LedgerInv, DispatchTool PROVE Accounts
<1>1. GraphInv'
  BY DispatchToolKeeps
<1>2. session \in Session /\ session.step = "called"
  BY DEF GraphInv, TypeInv, DispatchTool
<1>3. Perform("tool", session.tools + 1) /\ "tool" \in Kinds
  BY DEF DispatchTool, Kinds
<1>4. PICK r : session' = [session EXCEPT !.step = "dispatched", !.result = r]
  BY DEF DispatchTool
<1>5. session'.step = "dispatched" /\ session'.handle = session.handle
  BY <1>2, <1>4 DEF Session
<1>6. WrittenAhead(journal, Node, Attempt, session.tools + 1)
  BY <1>2 DEF LedgerInv, CountInv
<1> QED
  BY <1>1, <1>2, <1>3, <1>5, <1>6, CallAccounts

\* A call of the model is reserved, or denied.
LEMMA ReserveModelAccounts ==
  ASSUME GraphInv, LedgerInv, ReserveModel PROVE Accounts
<1>1. GraphInv' /\ Quiet /\ session.step = "node" /\ "model" \in Kinds
  BY ReserveModelKeeps DEF ReserveModel, Kinds
<1>2. CASE DenyCall("model")
  BY <1>1, <1>2, DenyCallAccounts
<1>3. CASE ReserveCall("model", "model")
  BY <1>1, <1>3, ReserveAccounts
<1> QED
  BY <1>2, <1>3 DEF ReserveModel

\* A call of a tool is reserved, or denied.
LEMMA ReserveToolAccounts ==
  ASSUME GraphInv, LedgerInv, ReserveTool PROVE Accounts
<1>1. GraphInv' /\ Quiet /\ session.step = "tools" /\ "tool" \in Kinds
  BY ReserveToolKeeps DEF ReserveTool, Kinds
<1>2. CASE DenyCall("tool")
  BY <1>1, <1>2, DenyCallAccounts
<1>3. CASE ReserveCall("tool", "reserved")
  BY <1>1, <1>3, ReserveAccounts
<1> QED
  BY <1>2, <1>3 DEF ReserveTool
-----------------------------------------------------------------------------
(* The theorems about the account.                                         *)

\* Every step keeps the account, and runs nothing on an excess.
LEMMA LedgerSteps ==
  ASSUME GraphInv, LedgerInv, Next PROVE LedgerInv' /\ Spares
<1> USE DEF Accounts
<1>1. CASE Approve \/ RecordCallFails \/ Abort
  BY <1>1, ApproveAccounts, ReleaseAccounts, StopAccounts
<1>2. CASE RecoverState \/ RecoverApproval \/ Execute \/ PrepareResume \/ Resume
  BY <1>2, RecoverAccounts, BeginAccounts, MoveAccounts
<1>3. CASE RefuseVisit \/ ExhaustRetries \/ RequestApproval \/ PauseForApproval
           \/ DenyAttempt \/ ExceedBudget \/ ResolveTerminal
  BY <1>3, StopAccounts, MoveAccounts, RequestAccounts, DenyAttemptAccounts
<1>4. CASE RunPolicy \/ PassGate \/ ReserveModel \/ CommitModel \/ RecordOverrun
           \/ ReserveTool \/ RecordCall \/ CommitTool \/ RecordOutcome \/ Raise
  BY <1>4, RunAccounts, ReserveModelAccounts, CommitModelAccounts, OverrunAccounts,
     ReserveToolAccounts, RecordCallAccounts, CommitToolAccounts, RecordOutcomeAccounts,
     StopAccounts
<1>5. CASE StartNode \/ CallModel \/ DispatchTool \/ FinishNode
  BY <1>5, StartAccounts, CallModelAccounts, DispatchAccounts, FinishAccounts
<1> QED
  BY <1>1, <1>2, <1>3, <1>4, <1>5 DEF Next, Proceed, Traverse

\* Where nothing was written nothing was used.
LEMMA NothingIsUsed ==
  ASSUME journal = << >>
  PROVE  (\A s, d : d \in Dimensions => Usage(journal, s)[d] = 0) /\ ~ IsExceeded(journal)
<1>1. /\ journal \in Seq({}) /\ Len(journal) = 0 /\ DOMAIN journal = {}
      /\ \A types : Of(journal, types) = {}
  BY DEF Of
<1>2. LedgerIsTyped(journal) /\ Active(journal) = {}
  BY <1>1 DEF LedgerIsTyped, Active
<1>3. \A s, d : d \in Dimensions => Usage(journal, s)[d] = 0
  <2> SUFFICES ASSUME NEW s, NEW d \in Dimensions PROVE Usage(journal, s)[d] = 0
    OBVIOUS
  <2>1. \A types : Charged(journal, types, s) = {}
    BY <1>1 DEF Charged
  <2> DEFINE f == [i \in Charged(journal, {"BUDGET_COMMITTED"}, s) |-> journal[i].actual[d]]
  <2>2. Total(f) = 0
    <3>1. DOMAIN f = {}
      BY <2>1
    <3> HIDE DEF f
    <3> QED
      BY <3>1, TotalOfNothing
  <2>3. Metered(journal, s)[d] =
          IF d = "attempts" THEN Spent(journal, s, d) + Cardinality(Charged(journal, {"NODE_STARTED"}, s))
          ELSE Spent(journal, s, d)
    BY <1>1, <1>2, MeteredIs
  <2>4. Elapsed(journal, s) = 0
    <3> DEFINE g == [i \in Historical(journal, s) |-> journal[i].duration]
    <3>1. Historical(journal, s) = {}
      BY <1>1 DEF Historical
    <3>2. DOMAIN g = {} /\ Elapsed(journal, s) = Total(g)
      BY <3>1 DEF Elapsed
    <3> HIDE DEF g
    <3> QED
      BY <3>2, TotalOfNothing
  <2>5. Usage(journal, s)[d] = IF d = "duration_ms" THEN Metered(journal, s)[d] + Elapsed(journal, s)
                               ELSE Metered(journal, s)[d]
    BY <1>1, <1>2, UsageIs
  <2>6. Spent(journal, s, d) = 0
    BY <2>2 DEF Spent
  <2>7. Cardinality(Charged(journal, {"NODE_STARTED"}, s)) = 0
    BY <2>1, FS_EmptySet
  <2> HIDE DEF f
  <2>8. Metered(journal, s)[d] = 0
    BY <2>3, <2>6, <2>7
  <2> QED
    BY <2>4, <2>5, <2>8
<1>4. \A s \in Scopes, d \in Dimensions : ~ (Usage(journal, s)[d] > Limit[s][d])
  BY <1>3, LimitIsNat
<1> QED
  BY <1>1, <1>3, <1>4, ExceededIs

\* The first state has an empty account.
LEMMA LedgerBegins == Init => LedgerInv
<1> SUFFICES ASSUME Init PROVE LedgerInv
  OBVIOUS
<1>1. /\ journal = << >> /\ effects = << >> /\ session.step = "idle"
  BY DEF Init, Idle, At
<1>2. /\ journal \in Seq({}) /\ Len(journal) = 0 /\ DOMAIN journal = {} /\ DOMAIN effects = {}
      /\ \A types : Of(journal, types) = {}
  BY <1>1 DEF Of
<1>3. LedgerIsTyped(journal) /\ Active(journal) = {}
  BY <1>2 DEF LedgerIsTyped, Active
<1>4. HoldInv
  BY <1>1, <1>3 DEF HoldInv, Holding
<1>5. CountInv
  <2>1. \A kind : MadeOf(kind) = 0 /\ Known(journal, kind) = 0 /\ Unknown(journal, kind) = 0
    <3>1. \A kind : /\ {i \in DOMAIN effects : effects[i].kind = kind} = {}
                    /\ OfKind(journal, {"BUDGET_COMMITTED"}, kind) = {}
                    /\ {i \in Active(journal) : journal[i].kind = kind} = {}
      BY <1>2, <1>3 DEF OfKind
    <3> QED
      BY <3>1, FS_EmptySet DEF MadeOf, Known, Unknown
  <2> QED
    BY <1>1, <1>2, <2>1 DEF CountInv
<1>6. \A s, d : d \in Dimensions => Usage(journal, s)[d] = 0
  BY <1>1, NothingIsUsed
<1>7. RoomInv
  <2>1. \A s \in Scopes : LimitAt(journal, s)
    <3> SUFFICES ASSUME NEW s \in Scopes PROVE LimitAt(journal, s)
      OBVIOUS
    <3>1. Charged(journal, {"BUDGET_COMMITTED"}, s) = {} /\ HeldTools(journal, s) = {}
      BY <1>2, <1>3 DEF Charged, HeldTools
    <3>2. "attempts" \in Dimensions /\ "tool_calls" \in Dimensions
      BY DEF Dimensions
    <3>3. Limit[s]["attempts"] \in Nat /\ Limit[s]["tool_calls"] \in Nat
      BY <3>2, LimitIsNat
    <3>4. Cardinality({}) = 0
      BY FS_EmptySet
    <3> QED
      BY <1>6, <3>1, <3>2, <3>3, <3>4 DEF LimitAt, LastFits
  <2> QED
    BY <1>1, <2>1, LimitsAre DEF RoomInv, Holding
<1>8. ExcessInv
  BY <1>1, NothingIsUsed DEF ExcessInv
<1> QED
  BY <1>3, <1>4, <1>5, <1>7, <1>8 DEF LedgerInv

\* The two inductive invariants together say that the account is kept.
LEMMA AccountFollows == GraphInv /\ LedgerInv => AccountInv
<1> SUFFICES ASSUME GraphInv, LedgerInv PROVE AccountInv
  OBVIOUS
<1> USE DEF GraphInv, LedgerInv
<1>1. TypeOK
  <2>1. record \in [state : State, revision : Nat, node : Places,
                    attempts : [Nodes -> Nat],
                    approval : {"NOT_REQUIRED", "PENDING", "APPROVED"}]
    BY DEF TypeInv, Record
  <2>2. \A i \in DOMAIN journal : journal[i].node \in Places
    BY DEF TypeInv, JournalIsTyped, EventIsTyped
  <2>3. \A i \in DOMAIN effects :
          effects[i] \in [node : Agents, attempt : Nat, kind : {"model", "tool"}, step : Nat]
    <3>1. effects \in Seq(Effect)
      BY DEF TypeInv
    <3> HIDE DEF Effect
    <3>2. \A i \in DOMAIN effects : effects[i] \in Effect
      BY <3>1
    <3> QED
      BY <3>2 DEF Effect
  <2>4. session.step \in Steps /\ session.context \in Contexts /\ session.handle \in Nat
    BY DEF TypeInv, Session
  <2>5. Len(journal) \in Nat /\ session.handle <= Len(journal) /\ faults \in 0 .. MaxFaults
    BY DEF TypeInv, JournalIsTyped
  <2> QED
    BY <2>1, <2>2, <2>3, <2>4, <2>5 DEF TypeOK
<1>2. CallsAreAccounted
  <2>1. \A kind \in {"model", "tool"} :
          Cardinality({i \in DOMAIN effects : effects[i].kind = kind}) \in
            Cardinality({i \in Of(journal, {"BUDGET_COMMITTED"}) : journal[i].kind = kind})
              .. Cardinality({i \in Of(journal, {"BUDGET_COMMITTED"}) : journal[i].kind = kind})
                   + Cardinality({i \in Active(journal) : journal[i].kind = kind})
    BY DEF CountInv, MadeOf, Known, OfKind, Unknown, Kinds
  <2>2. \A i \in DOMAIN effects :
          effects[i].kind = "tool" =>
            \E k \in Of(journal, {"TOOL_CALLED"}) :
              /\ journal[k].node = effects[i].node
              /\ journal[k].attempt = effects[i].attempt
              /\ journal[k].step = effects[i].step
    BY DEF CountInv, WrittenAhead
  <2>3. \A i \in Active(journal) : i > LastOutcome(journal) /\ OpenStart(journal)
    BY DEF HoldInv
  <2> QED
    BY <2>1, <2>2, <2>3 DEF CallsAreAccounted
<1> QED
  BY <1>1, <1>2 DEF AccountInv, RoomInv

\* A step that leaves the state as it is.
LEMMA LedgerStutters ==
  ASSUME LedgerInv, UNCHANGED vars PROVE LedgerInv'
<1>1. UNCHANGED <<record, journal, effects, session, faults>>
  BY DEF vars
<1>2. HoldInv'
  BY <1>1 DEF LedgerInv, HoldInv, Node
<1>3. CountInv'
  BY <1>1 DEF LedgerInv, CountInv, MadeOf, Unsettled, Node, Attempt
<1>4. RoomInv'
  BY <1>1 DEF LedgerInv, RoomInv, LimitsHold, Node
<1>5. ExcessInv'
  BY <1>1 DEF LedgerInv, ExcessInv, Node
<1> QED
  BY <1>1, <1>2, <1>3, <1>4, <1>5 DEF LedgerInv

\* The two inductive invariants are kept, and no step runs anything on an excess.
LEMMA LedgerKeeps ==
  GraphInv /\ LedgerInv /\ [Next]_vars => GraphInv' /\ LedgerInv' /\ (Next => Spares)
<1> SUFFICES ASSUME GraphInv, LedgerInv, [Next]_vars
             PROVE  GraphInv' /\ LedgerInv' /\ (Next => Spares)
  OBVIOUS
<1>1. GraphInv'
  <2>1. CASE Next
    BY <2>1, GraphSteps
  <2>2. CASE UNCHANGED vars
    BY <2>2, GraphStutters
  <2> QED
    BY <2>1, <2>2
<1>2. LedgerInv' /\ (Next => Spares)
  BY LedgerSteps, LedgerStutters
<1> QED
  BY <1>1, <1>2

\* Whatever crashes, refusals and late answers there are: every call of the model or of a
\* tool was reserved and, once its cost is known, settled in the journal; one whose cost is
\* not known keeps its reservation and its node open; and attempts, tool calls and what is
\* reserved of them stay within every limit.
THEOREM AccountsAreKept == Spec => []AccountInv
<1>1. Init => GraphInv /\ LedgerInv
  BY GraphBegins, LedgerBegins
<1>2. GraphInv /\ LedgerInv /\ [Next]_vars => GraphInv' /\ LedgerInv'
  BY LedgerKeeps
<1>3. GraphInv /\ LedgerInv => AccountInv
  BY AccountFollows
<1> QED
  BY <1>1, <1>2, <1>3, PTL DEF Spec

\* Once the journal shows an excess of any dimension, at the execution or at a node, no node
\* is started, nothing is reserved and nothing is called, by the session that caused it or by
\* one that resumes after it crashed before it had written the excess down.  The only excess
\* that does not stop the next node is the time of a node that ended before there was any event
\* of the budget, where the execution and the next node are within their own limits.
THEOREM NothingRunsOnExcess == Spec => NothingAfterExcess
<1>1. Init => GraphInv /\ LedgerInv
  BY GraphBegins, LedgerBegins
<1>2. GraphInv /\ LedgerInv /\ [Next]_vars =>
        /\ GraphInv' /\ LedgerInv'
        /\ [IsExceeded(journal) /\ ~ ExcessUnnoticed =>
              /\ effects' = effects
              /\ \A i \in DOMAIN journal' \ DOMAIN journal :
                   journal'[i].type \notin {"NODE_STARTED", "BUDGET_RESERVED", "TOOL_CALLED"}]_vars
  BY LedgerKeeps DEF Spares
<1> QED
  BY <1>1, <1>2, PTL DEF Spec, NothingAfterExcess
=============================================================================
