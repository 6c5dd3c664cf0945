----------------------------- MODULE Lifecycle -----------------------------
(***************************************************************************)
(* One execution from start to its verdict, by callers that start, resume, *)
(* verify and promote it as they like, also at the same time: Preparation  *)
(* and Verification around the graph of Service.  A caller may die in any  *)
(* section, the user works in the worktree and on the knowledge, and the   *)
(* clock goes on.                                                          *)
(***************************************************************************)
EXTENDS Preparation, Verification

vars == <<stored, outside, at, seen, bounds>>

Init ==
  /\ state = "absent" /\ journal = << >> /\ cursor = "work" /\ candidate = 0
  /\ promotes \in BOOLEAN /\ head = 0 /\ tree = "clean" /\ stale = FALSE
  /\ clock = 0 /\ effects = << >>
  /\ at = [c \in Callers |-> "idle"]
  /\ seen = [c \in Callers |-> Nothing]
  /\ moves = 0 /\ faults = 0

\* What may have been done outside when a caller dies while it is being done.
Unrecorded(c) ==
  CASE at[c] = "planning" -> {<<"planning", 1>>}
    [] at[c] = "node"     -> {<<"work", Visits>>}
    [] at[c] = "run"      -> {<<NextGate(c), SuiteNumber>>}
    [] OTHER              -> {}

Crash(c) ==
  /\ at[c] # "idle" /\ moves + faults < MaxUpsets
  /\ faults' = faults + 1
  /\ effects' \in {effects} \cup {Append(effects, e) : e \in Unrecorded(c)}
  /\ \/ UNCHANGED tree
     \/ at[c] \in {"node", "worked"} /\ tree = "clean" /\ tree' = "edited"
  /\ Return(c)
  /\ UNCHANGED <<stored, promotes, head, stale, clock, moves>>

\* While it matters, the user changes the knowledge (until there is a plan), edits or
\* cleans the worktree, commits there on his own or goes back (from the first
\* verification on), and the clock advances.
Move ==
  /\ moves + faults < MaxUpsets /\ moves' = moves + 1
  /\ \/ /\ ~ stale /\ state \in {"CONTEXT_ASSEMBLING", "PLANNING"}
        /\ stale' = TRUE /\ UNCHANGED <<tree, clock>>
     \/ /\ state = "VERIFYING"
        /\ tree' \in IF tree = "clean" THEN {"edited", "stray"} ELSE {"clean"}
        /\ UNCHANGED <<stale, clock>>
     \/ /\ \E c \in Callers : at[c] \in {"ask", "schedule", "scheduling"}
        /\ clock' = clock + 1 /\ UNCHANGED <<tree, stale>>
  /\ UNCHANGED <<stored, promotes, head, effects, at, seen, faults>>

Session(c) == PreparationSession(c) \/ GraphSession(c) \/ VerificationSession(c)

Next ==
  \/ \E c \in Callers :
       \/ Start(c) \/ Resume(c) \/ Verify(c) \/ PrepareCandidate(c) \/ Promote(c)
       \/ Session(c) \/ Crash(c)
  \/ Commit \/ Move

Spec == Init /\ [][Next]_vars

Failed == Suites # {} /\ ~ journal[LastSuite].passed /\ ~ RepairedSince
Ready == promotes /\ Suites # {} /\ Verdict(LastSuite)

\* The command that takes the execution on.
GoOn ==
  \/ Commit
  \/ \E c \in Callers :
       \/ Start(c)
       \/ Resume(c) /\ (state = "VERIFYING" => Failed)
       \/ PrepareCandidate(c) /\ tree = "edited"
       \/ /\ Verify(c) /\ ~ Failed
          /\ promotes => tree # "edited"
          /\ Ready => tree = "stray"
       \/ Promote(c)

\* A caller goes on until it returns or dies, and somebody gives the command that takes
\* the execution on, also when others are at work.
FairSpec ==
  /\ Spec
  /\ \A c \in Callers : WF_vars(Session(c))
  /\ SF_vars(GoOn)

-----------------------------------------------------------------------------
(* Properties.                                                             *)

Places == Sections \cup {"idle", "context", "plan", "execute", "reenter", "look",
                         "look at failure", "block", "verify", "ask", "schedule"}

TypeOK ==
  /\ state \in State \cup {"absent"} /\ cursor \in {"work", "end"}
  /\ promotes \in BOOLEAN /\ stale \in BOOLEAN
  /\ tree \in {"clean", "edited", "stray"}
  /\ {head, candidate, clock, moves, faults} \subseteq Nat
  /\ at \in [Callers -> Places]
  /\ \A c \in Callers : seen[c] \in
       [commit : Nat, gates : SUBSET Gates, source : Nat, repair : Nat,
        visit : Nat, deadline : Nat]

\* One caller at a time is in a section, and what the callers wrote in turns, each on
\* what it had read before, still replays: schedules always, suites unless a death
\* interrupted one.
LifecycleInv ==
  /\ TypeOK
  /\ Cardinality({c \in Callers : at[c] \in Sections}) <= 1
  /\ SchedulesReplay
  /\ state = "VERIFYING" /\ Free /\ faults = 0 => SuitesReplay

\* The model is asked for one plan and once in each visit of the node, and a gate runs
\* once in each suite, whatever is interrupted and whoever takes it up; all of it
\* after its start was written, the node on a plan and the plan on a sufficient context.
EffectsOnce ==
  /\ \A i, k \in DOMAIN effects : effects[i] = effects[k] => i = k
  /\ \A i \in DOMAIN effects :
       \E s \in Positions(Attempted) :
         <<journal[s].node, journal[s].attempt>> = effects[i]
  /\ Count({"PLAN_GENERATION_STARTED"}) <= 1
  /\ Visits > 0 => Generated
  /\ Started => Sufficient(LastDecision)

\* The bounds are counted in the journal and hold over deaths and concurrent callers:
\* context attempts, repairs, visits of the node; all repairs share the first
\* deadline, and no two of them follow the same failed suite.
BoundsSurvive ==
  /\ Decisions <= MaxRetrievals + 1
  /\ Cardinality(Schedules) <= RetryMax /\ Visits <= MaxIterations
  /\ \A i, k \in Schedules :
       /\ journal[i].deadline = journal[k].deadline
       /\ journal[i].source = journal[k].source => i = k

\* A completed execution has a last suite that is the full one, with every required
\* gate passed, each by its own result on that commit, and nothing was repaired or
\* visited since; what was promoted is that commit.
VerdictIsEarned ==
  state = "COMPLETED" =>
    /\ SuitesReplay /\ Verdict(LastSuite)
    /\ \A g \in Blocking :
         \E r \in Positions({"VERIFICATION_GATE_RECORDED"}) :
           /\ journal[r].node = g /\ journal[r].passed
           /\ journal[r].attempt = journal[LastSuite].attempt
    /\ Last({"VERIFICATION_REPAIR_SCHEDULED", "NODE_STARTED"}) < LastSuite
    /\ promotes => candidate = journal[LastSuite].commit

Final == {"COMPLETED", "FAILED", "FAILED_BUDGET_EXCEEDED", "FAILED_RETRY_EXHAUSTED",
          "BLOCKED_PREREQUISITE"}

\* Where the commands refuse for good: an interrupted suite, work or a repair that
\* changed nothing, one after which all gates of the policy were targeted, and a commit
\* that came after the verdict.
Stranded ==
  /\ state = "VERIFYING"
  /\ \/ ~ SuitesReplay \/ ~ RepairsWereVerified
     \/ promotes /\ candidate = 0
     \/ RepairedSince /\ head = journal[LastSuite].commit
     \/ Suites # {} /\ journal[LastSuite].passed /\ head # journal[LastSuite].commit

\* An execution that is taken up again after each interruption comes to an end, or
\* stands at an open node or where verification refuses for good.
ComesToRest ==
  <>[](state \in Final \/ (state = "EXECUTING" /\ NodeIsOpen) \/ Stranded)

\* Once the journal shows an excess of a limit, and nobody is at work, the execution
\* is over.
ExcessEndsExecution ==
  (\A c \in Callers : at[c] = "idle") /\ IsExceeded(journal) =>
    state = "FAILED_BUDGET_EXCEEDED"
=============================================================================
