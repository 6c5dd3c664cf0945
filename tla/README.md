# Verification of the ai-engineering-harness runtime

TLA+ modules that model the runtime of `ai_engineering_harness`, TLC configurations that check them on
small instances, and proofs, checked by TLAPS, that hold for every value of the constants. Paths below
are relative to `src/ai_engineering_harness/` unless they start with `docs/` or `tests/`.

## 1. The system

The harness runs a compiled workflow graph on behalf of a language model, locally and without a server:
every operation (`start`, `resume`, `verify`, `request-approval`, `approve`, `prepare-candidate`,
`promote`, `rollback`, `cancel`, `cleanup`) is a process of its own, and all they share is the file
system (`.harness/state`) and two git checkouts: the user's, and a worktree of the execution. So the
hard behaviours are those of a file-based protocol: processes that overlap, processes that die between
two writes, and writes that landed though they were reported as failed.

```
cli/main ──> runtime/execution_lifecycle ──> runtime/graph_executor ──> node executors, tool loop, models
                  │        │      │                    │
                  │        │      └── promotion / rollback managers, workspace/git_worktree (git)
                  │        └── runtime/state_machine ─┐
                  └── runtime/cancellation            ├──> persistence/atomic_file ──> persistence/locks
                      (control files, no lock)        ┘        (journal + snapshot)      (OS locks, fences)
```

### Inventory

| Component | State it keeps | Operations | What is hard | What makes it correct |
|---|---|---|---|---|
| Locks (`persistence/locks.py`) | OS lock file, fence file, in-memory registry per process | acquire, release, validate, the catalog lock | two layers of exclusion (threads, processes), deadlines, death with the lock held, lost fence | one holder; tokens strictly increase; no leak; no circular wait |
| State machine (`runtime/state_machine.py`) | journal of transitions, snapshot, evidence manifest | transition, recover, replay | write-ahead in three files, any of them the last one written | journal and snapshot can always be reconciled; readers see a life along the table |
| State store (`persistence/atomic_file.py`) | per execution: record, journal, payloads, evidence, bundle | create, load, CAS, append, publish, list | torn temporaries, replacement landed but directory flush failed | each operation is all or nothing, also after a crash |
| Lifecycle (`runtime/execution_lifecycle.py`) | none in memory: record + journal | all commands above | each command recovers what another left, with the families of events interleaved | every crash point can be resumed; approvals bind content |
| Promotion (`runtime/promotion_manager.py`, lifecycle) | candidate ref, original branch, record fields, approval | prepare, request, approve, promote, recover | external effect (cherry-pick) between two writes; approval expiry; user edits | only approved, verified content lands, at most once, and the record says so |
| Verification (`verification/*`, lifecycle) | suite attempts, repair schedule | verify, repair, recover attempts | interrupted suite, retry budget, stale commit | a suite counts only for the commit it ran on |
| Worktree (`workspace/git_worktree.py`) | worktree, branch, candidate ref, ownership record | create, load, commit candidate, clean up | partial git effects, interrupted cleanup | the user's checkout is never touched; only owned worktrees are removed |
| Rollback (`runtime/rollback_manager.py`, lifecycle) | revert commit, hook approval | request hook approval, approve, rollback | ambiguous revert, conflict and abort, crash while in progress | one revert, verified, or blocked for a human |
| Graph executor (`runtime/graph_executor.py`) | node events, payloads, retry contexts, current node | execute, resume, pause for a human, retry from verification | crash between node events, tool effects and snapshot; content that changes after a human saw it | no tool effect twice; resume continues where the journal ends; a human node passes only what was approved |
| Tool loop, node executors (`runtime/tool_loop.py`, `runtime/node_executors.py`) | none; records effects through the executor | execute, validate batch | effect without outcome | intent recorded before effect |
| Budget (`governance/budget.py`) | reservations and commits in the journal | reserve, commit, fail, release, materialize exceeded | crash between reservation and commit; commit above the limit | the journal's sum is what was consumed; nothing starts above a limit |
| Approvals (`governance/approval.py`) | projection of the last request | publish, load | projection written after event and CAS; expiry | the projection is never ahead of the journal |
| Cancellation (`runtime/cancellation.py`, terminal adapter) | control files: policy, request, active command, outcome | request, wait, command started / spawned / finished | runner and canceller without a common lock | quiescence means no command lives or can start |
| Knowledge transactions (`knowledge/transaction.py`) | journal, staging, snapshots, pointer | execute, recover, clean up | four files per transaction, retries, retention | pointer never dangles; nothing committed is lost |
| Context and planning (`runtime/context_assembler.py`, `runtime/planner.py`) | context and plan events | prepare, persist, recover | retry of assembly across restarts | at most the allowed attempts |
| Models (`models/*`) | none | route, call, retry over HTTP | timeouts, fallback | pure request/response; see "not modelled" |
| Policies, trust, contracts (`governance/policy_engine.py`, `security/*`, `contracts/*`) | none | decide, validate | no state | pure functions |
| Compiler, detector, indexer, doctor, CLI | files written once | compile, detect, index, probe | none concurrent | pure or reporting |

## 2. Modules

| Module | Models | Composition |
|---|---|---|
| `FencedLock` | what a lock promises its callers | abstract specification |
| `LockManager` | `persistence/locks.py` and the lock nesting of `atomic_file.py` | implements `FencedLock` (checked and proved) |
| `StoredFiles` | what the files of an execution promise | abstract specification |
| `StateStore` | `persistence/atomic_file.py` for one execution | implements `StoredFiles` (checked and proved); assumes `FencedLock` |
| `StateStoreProofs` | | theorems about `StateStore` |
| `ExecutionStates` | the transition table | used by the next two |
| `ExecutionLife` | what a reader of an execution is promised | abstract specification |
| `StateMachine` | `runtime/state_machine.py` on top of the journal and the snapshot | implements `ExecutionLife` (checked and proved); assumes `FencedLock` |
| `Cancellation` | `runtime/cancellation.py`, the command loop of `tools/adapters/terminal.py`, `cancel` | assumes `FencedLock` |
| `ProcessProofs` | | theorems about `LockManager`, about `StateMachine`, which writes the tokens of the locks, and about `Cancellation`, which does without the lock |
| `KnowledgeBase` | what a reader of the knowledge index is promised | abstract specification |
| `KnowledgeTransaction` | `knowledge/transaction.py` | implements `KnowledgeBase` (checked and proved); assumes `FencedLock` |
| `KnowledgeProofs` | | theorems about `KnowledgeTransaction` |
| `Traversal` | what the traversal of a graph promises | abstract specification |
| `Budget` | `governance/budget.py` as operators on a journal | used by `GraphExecutor`, `Service` and `Verification` |
| `Workspace` | what the commands that touch git share: two checkouts, journal, state | base of the next two |
| `Worktree` | creation, use and cleanup of the worktree: `workspace/git_worktree.py`, `runtime/composition.py`, `cleanup_worktree` | assumes `FencedLock` and one-step transitions (`StateMachine`) |
| `Rollback` | `runtime/rollback_manager.py`, `request_rollback_hook_approval`, `approve` of a completed execution, `rollback` | the same |
| `GitEffects` | one execution with both, the user in both checkouts, deaths | composes `Worktree` and `Rollback` |
| `GitProofs` | | theorems about `GitEffects` |
| `Service` | what the commands of `ExecutionLifecycleService` share, and the graph between them | base of the next two; uses `Budget` and `ExecutionStates` |
| `Preparation` | `start` and `resume` up to the plan, with `context_assembler.py` and `planner.py` | assumes `FencedLock` and one-step transitions |
| `Verification` | `verify`, the repair loop, `retry_from_verification`, the gates of `verification/*` | the same; the steps of the candidate are in `Promotion` |
| `Lifecycle` | one execution from start to verdict, by concurrent callers | composes `Preparation` and `Verification` |
| `LifecycleProofs` | | theorems about `Lifecycle` |
| `GraphExecutor` | `runtime/graph_executor.py` (execute, resume) with `runtime/tool_loop.py` and the fallback of `models/router.py` inside a node, and the approval of a human node by `execution_lifecycle.py` | implements `Traversal` (checked and proved); assumes `FencedLock`; recovers a pending transition in one step, as `StateMachine` shows it can |
| `GraphExecutorProofs` | | theorems about `GraphExecutor` with `Budget`: the traversal and the account |
| `GraphReadersProofs` | | extends it: what is read back, and the reasons of moves |
| `Promotion` | `prepare-candidate`, `verify`, `request-approval`, `approve`, `promote` of `runtime/execution_lifecycle.py`, with `promotion_manager.py` and the candidate part of `git_worktree.py` | assumes `FencedLock`; recovers a pending state transition in one step, as `StateMachine` shows it can |
| `PromotionProofs` | | theorems about `Promotion` |

Layering: `LockManager` shows that the lock files give each execution one holder at a time with
increasing tokens (`FencedLock`). The modules above it take that as given: a *session* is a holder of
the lock, only one is open at a time, and what happens outside the lock (the user, a canceller, a
verification suite) is interleaved with its steps. A write to one file is one atomic step in all of
them, followed or not by the failure of its caller: that is `StoredFiles`, and `StateStore` shows that
the code's temporary file, rename and flush give it.

The `MC*` modules only fix constants and symmetry sets.

## 3. How the modules correspond to the code

The exact lines are in `PROJECT.json`, "map". What follows is how to read the state.

### LockManager (`persistence/locks.py`, `persistence/atomic_file.py`)

A thread has a place `pc`, the lock it `want`s, and the operation `op` it runs: `guarded`
(`_execution_guard`), `create` (catalog, then execution) or `list` (catalog, then each execution in
order). `pending` and `active` are the four registries of a `CrossProcessLockManager` instance, one per
process; `osLock` is the `flock`/`msvcrt` owner of each lock file; `fence` is the fence file as read,
`fenceDisk` as it survives a power loss: a replacement that reports a failed directory flush leaves them
different. `issued` is a history variable. Actions, in the order of the code: `Reserve` or `Refuse`
(the registry check under the thread lock), `TakeOsLock` or `TimeOut` (the polling loop),
`AdvanceFence`/`SyncFence`/`FenceFails` (read, increment, replace, flush), `Register` (the second
registry check), `Discard`/`Drop` (the two error paths), `Unlock`/`Unregister` (release). `Crash(m)`
kills the threads of a process and frees its OS locks; `PowerLoss` kills all of them and throws away
what was not flushed.

### StateStore (`persistence/atomic_file.py`)

Nine files in three directories: record, journal and evidence; artifact, configuration and manifest of
the bundle; the initial input and later payloads. `file[f]` is the canonical content, as the sequence of
the writes it shows, `temp[f]` the temporaries beside it, `durable` both as of the last flush of their
directory. A session `Begin`s an operation with the list of files that operation recovers in the code,
recovers them one by one (`RecoverCanonical`, `Promote` with `FlushPromoted`, `RefuseRecovery`), then
either returns (`Answer`: a reader, a repetition, a conflict) or writes: `CreateTemp`, `FillTemp`,
`Replace`, `Flush`, and for a bundle the same for four files. How much of the content a crash before
the `fsync` of a temporary leaves is chosen in `CreateTemp`: nothing, or a torn part. The two differ for
the journal, whose empty temporary `_load_journal_path` accepts. `WriteFails` is an `OSError` anywhere
in a write, whose `finally` removes the temporary; `PowerLoss` throws each directory back to its last
flush, or not. `promised` is a history variable, what was acknowledged by a completed write. An
acknowledgement without a write (`store_payload` of a payload that is there already) does not flush and
is not counted as a promise. The model is that of a POSIX file system with a journal, on which the flush
of a directory also makes its own entry last; on Windows `_fsync_directory` does nothing, and only the
process may die.

### StateMachine (`runtime/state_machine.py`)

`record` is the snapshot (state, revision, time), `journal` the `STATE_TRANSITIONED` events,
`manifest` the evidence, `session` the place of the one that holds the lock under the token last `granted`. `Open` takes the lock, `Recover` replays and applies a pending transition or
`RefuseRecovery` raises, `AppendTransition` writes the event ahead, `HandleCompletion` publishes the
evidence of an evidenced completion and passes over the other transitions,
`CommitTransition` and `UpdateSnapshot` compare and set. Each step may `Fail`, with its write landed or
not, and a session may die anywhere (`Abort`). `ReplaySucceeds` is `_analyze_locked`: chain, order, at
most one pending event, and a snapshot that the committed prefix explains. The transition table itself
is `ExecutionStates`, copied edge by edge.

### Cancellation (`runtime/cancellation.py`, `tools/adapters/terminal.py`, `cancel`)

Four control files and two kinds of process. The runner takes the execution lock, and per command:
looks for a request, reserves the slot (`CreateSlot`, then `FillSlot`: `O_EXCL`, then content), looks
again (`RecheckRequest`), spawns, binds, polls, publishes the outcome, clears the slot. A canceller
writes policy and request (again torn first), looks for a command, polls its outcome, re-reads the slot,
and only when it has concluded that nothing runs takes the lock, records its decision and completion and
enters `CANCELLED`. `slot` is the active command's file, `recorded` what the journal has of a cancellation, and `glimpse` is the outcome it read first in a poll: the code reads outcome and slot in
two steps, and so does the model.

### KnowledgeTransaction (`knowledge/transaction.py`)

`journal`, `staging`, `snapshots` and `pointer` are the four kinds of files; an index stands for its
digest, since files are content addressed. `Ask` is the verification of the commit before the lock,
`Execute`, `RecoverIfNeeded` and `Retain` the three public calls. A session goes through `recover`
(clean, continue, abort or refuse), `prepare` (`Stage`, `Prepare`), `publish`, `point`, `finish`, and
`retain` removes snapshots one file at a time. `Damage` loses or corrupts a staged file, or prunes a
commit: the cases for which the code has explicit branches.

### Promotion (`runtime/execution_lifecycle.py`, `runtime/promotion_manager.py`, `workspace/git_worktree.py`)

`record` is the part of the snapshot these commands read and write, `journal` their events with the
revision each was written for, `projection` the approval file. A session `Begin`s with an operation,
recovers what that operation recovers in the code (`RecoverApproval`, `RecoverFields`, `RecoverState`:
not every command recovers all three, see section 6), then runs its
steps; the cherry-pick (`CherryPick`) is separated from the check before it (`Check`) and from the record
of its outcome after it (`RecordOutcome`, `CompareAndSet`). `verify` reads and runs its suite outside
the lock (`verifier`), in sessions of their own. `Move` is the user and the clock: edit the worktree,
commit on the original branch, leave it dirty, let the approval expire.

### GraphExecutor and Budget (`runtime/graph_executor.py`, `runtime/tool_loop.py`, `governance/budget.py`)

The journal has the event types of the code; its record is a snapshot that follows it by at most one
revision. A payload is named by where it comes from: 0 is the initial input, *i* the output stored by the
outcome at position *i*; a reservation likewise by its position. A session is a holder of the execution
lock: it starts with `Execute` or with `Resume` (after `RecoverState`), whose guard `Replays` is
`_recover_resume_payload`, cut into what it demands of revisions, starts, tools, outcomes and the snapshot.
In the loop it ends (`ResolveTerminal`, `ExhaustRetries`, `DenyAttempt` with `ExceedBudget`), refuses
(`RefuseVisit`), pauses at a human node (`RequestApproval`, `PauseForApproval`) or starts a node. Inside an agent's node each model call is `ReserveModel`, `CallModel`,
`CommitModel`, perhaps `RecordOverrun`, and each tool call `ReserveTool`, `RecordCall`, `DispatchTool`,
`CommitTool`, perhaps `RecordOverrun`, `RecordOutcome`; other nodes just end (`RunPolicy`, `PassGate`). `FinishNode`
appends the outcome and moves the snapshot, `Raise` is an exception out of the backend. `Abort` is the
death of the process, or a write that raises, between any two of them; `WriteAhead` also has it between
an event and the compare-and-set that follows.

The approval of a human node is two more events of the same journal. `Subject` is what an approval is for:
the node and the content it is given, which is why an outcome has an `output`, taken from a small set for
each node; the rest of the digest never changes. `Granted` compares the last request and the last grant with it.
`Approve` is a command of its own. The `resume` of the user is two sessions: `RecoverApproval` and
`PrepareResume` are the first (it also completes a pause that was interrupted), `Resume` begins the second.
Others may come in between, so `Resume` does not ask when its caller looked; that is more than the code can
do (somebody must have looked while the execution was `EXECUTING`), and safe for what is claimed.
`ApprovalHistoryHolds` is what `_recover_approval_locked` demands, in every command.

`Budget` has no state of its own, as in the code: `Usage`, `Active` and `ExceededDimensions` are computed
from the journal, and `LedgerReplays` is what `BudgetLedger._replay` demands before it answers. Three of the
seven dimensions are kept, one for each way in which a limit is charged: attempts by counting node starts,
tool calls by an estimate that is exact, the duration by an estimate of 1 and an actual value known only
after the call. The last one stands for tokens and price too. A gate of the verification has no reservation:
its duration counts from the event that records it (`Metered`), and `Materialized` is the evidence of an excess
that a gate has caused. What a node takes by the clock is charged as well, but only if it ended before the first event
of the budget in the journal (`Historical`, `Elapsed`; `_replay_historical_usage`, written for journals that are older than
reservations and also reached by a new one whose first nodes call nothing). An outcome therefore has a `duration`, free
until that event and 0, that is not looked at, after it (`Time`). The code looks at the balance in few places, and so does
the model: a node is started and a call reserved by what the execution and *that* node would come to (`Fits`), the
whole balance is looked at when a call was settled and when a node ends (`IsExceeded`), and a terminal is reached without a
look. So an excess of another node may go unnoticed for a while (`ExcessUnnoticed`). The evidence of
an excess is validated in the loop of `_replay`, where attempts, gates and those times are not counted yet (`EvidenceAgrees`): evidence
that counts them is refused by every replay from then on, `RecordOverrun` of a tool call stops at once, `Raise` follows for the
node of a model call, and the node stays open (`EvidenceRefused`). A sum over events is the number of their units (`Total`): it is the same number, and
finite sets can be reasoned about without an induction.

### Workspace, Worktree, Rollback, GitEffects

One execution, and one session at a time, at `pc`. Three things have to agree that cannot be written
together: `branch` (`harness/<execution>`), `dir` (the directory: absent, unfinished, whole or somebody
else's; `edited` if it has changes) and `reference` (the durable file with its status). `LoadWorktree`,
`CreateWorktree`, `AddWorktree`, `PublishActive` are `OperationalAgentBackend._worktree` and
`create_worktree` cut at each effect; `DecideCleanup`, `InspectWorktree`, `RemoveWorktree`,
`RecordRemoval`, `ReportCleanup` are `cleanup_worktree` of the lifecycle and of the manager. `original` is
the original branch as the makers of its commits since the base, `work` the original checkout.
`DecideRollback` to `SettleRollback` are `rollback`: the decision, the state, the look at the checkout
(`previous`), the revert, its proof or its reconciliation, the hook, the report and the final state.
`RequestHookApproval`, `ApproveHook` and the checks in `DecideRollback` and `TryRollback` are the approval of
a destructive hook; `ApprovalsReplay` is `_latest_rollback_hook_approval`. Git is another program: what it
leaves when it fails, is killed or runs into a timeout is chosen in `UnfinishedAdd`, `RemoveWorktree`,
`UnfinishedRevert` and, when the session dies with it, in `DiesInGit` and `DiesInRevert`. `reverts` and
`hookRuns` are history. `MoveWorktree` and `MoveOriginal` are the user, the clock and a new configuration of
the hook. `CommitCandidate` and `Finish` are the short form of what `Promotion` has in full.

### Service, Preparation, Verification, Lifecycle

Several callers, each `at` a place with what it has `seen`. A command of the service is a chain of sections
under the execution lock, and the lock is free between them: `Enters` begins a section, `Sections` are the
places inside one. `resume` reads the state under the lock, gives the lock up and acts on what it has read;
`verify` and the repair look at the worktree without the lock; the repair is requested in one section
(`AskRepair`) and carried out in another (`ScheduleRepair`), which compares the request with the journal
(`RequestHolds`). All bounds are counted in the `journal`, as in the code: `Decisions` (context attempts),
`Started` and `Generated` (the plan), `Suites`, `Schedules` and `Visits`. `SuitesReplay`, `SchedulesReplay` and
`RepairsWereVerified` are the three readers that decide whether verification goes on. The first walks the events of the
suites and demands that each follows on the one before it (`Continues`) and that each suite is whole (`IsWhole`: the gates in
the order of the policy, the first suite all of them, the verdict that of its results). `GatesToRun` and
`MayComplete` are the cases of `_verify_execution`; a caller carries the gates that are left as a set, and `NextGate` takes them
in the order of the policy. `StartGate` and `RunGate` are `before_gate`, the command
and `after_gate`. The graph is one agent's node and its end, with one model call in a visit
(`Called`: reservation, call, commit and evidence in one step, since an interruption anywhere in it leaves
the node open). `effects` is a history of what was done outside; a death may leave an effect that is not
recorded (`Unrecorded`). The user edits the worktree, commits there or goes back, the knowledge changes and
the clock advances (`Move`). `promotes` says whether the service has a promotion manager: without one a
passed suite completes the execution, with one `Promote` does.

## 4. What the runs check

A run passes unless the row says *refuted*: a refuted run checks one statement of the documentation, and
TLC's counterexample is the behaviour described in section 6.

| Run | Bounds | What it shows |
|---|---|---|
| `locks` | 2 processes, 3 threads, 1 execution and the catalog, 3 operations, 1 fault, deadlines on | `OwnershipInv`, `ImplementsFencedLock`: one holder per execution, tokens that grow over crashes and power loss; `NoLeakedRegistration`: no error path makes a lock unusable in its process; `NoCircularWait`; `ListingIsExact`; `OperationsTerminate`: every operation ends though no deadline ever helps it |
| `store` | 5 operations, 2 events, 1 payload, 2 faults | `KeepsPromises`: files grow by whole writes, and no crash, failed write or power loss takes back what was acknowledged; `StoreInv`: types, no record without its bundle (`RecordHasBundle`), no event twice (`EventsAreUnique`), no second temporary to choose from (`OneCandidate`), and recovery refuses only a file of which nothing was ever acknowledged (`RefusalLosesNothing`) |
| `machine` | 4 revisions, 2 tokens, 2 clock readings, 2 faults | `ReplayNeverFails`: no crash or failed write leaves a history that replay rejects; `ReadyIsSettled`: nothing is written ahead on top of something pending; `EvidenceMatches`; `InterruptedTransitionsResume`: what was written ahead, with its evidence if it needs one, comes to be shown; `ImplementsExecutionLife` |
| `machine_completion` (refuted) | the same, 1 clock reading | a completion interrupted before its evidence is not resumed |
| `cancellation` | 2 cancellers, 2 commands, 1 fault | `QuiescentMeansQuiet`: who concludes quiescence is right, now and later; `ControlInv`: types, no live process outside the slot (`SlotCoversProcess`), one decision for all (`DecisionsAgree`), a second completion only after a death (`CompletionRepeatsOnlyAfterDeath`); `RequestConcludes` |
| `knowledge` | 3 transactions, 2 on one item, 4 sessions, 1 fault, 1 damage, retention 1 | `HistoryInv`: types, a journal that is one chain (`HistoryIsAChain`) and a pointer that never dangles (`PointerResolves`); `InterruptedResolves`; `ImplementsKnowledgeBase`: transactions enter the index whole, once, and lose nothing |
| `graph` | four nodes, an analysis and a verification that call nothing and a correction behind a human approval (nodes of `defaults/graphs/bug-fix.yaml` and `migration.yaml`), 2 providers, 3 tool calls per visit, calls and nodes that take 1 or 4 units of time, 2 crashes or failed writes; 7 attempts, 3 tool calls and 6 units of time in all, 2, 2 and 7 per node, but 3 units for the verification; 17634 states | `ReadersAccept`: none of the three replays (resume, ledger, approvals) rejects what was left, unless evidence of an excess counts the time of nodes that called nothing, which closes the journal of an open node (`LedgerRefusesEvidenceOnly`), or an approval was requested twice, which needs a death and a resume that had looked before it; `AccountInv`: types, no call without reservation and write-ahead, none on an unknown balance (`CallsAreAccounted`), and limits that hold over restarts (`LimitsHold`); `NothingAfterExcess`: no start, reservation or call on an excess, but for the one visit that may not notice the time of an earlier node; `MovesAreEarned`: a node is visited again only for a reason in the journal (`RetriesHaveReason`), a human node passes what was approved for it and nothing else (`GatesAreApproved`), and the end is the one the last outcome leads to (`EndIsEarned`); `ComesToAnEnd`; `ImplementsTraversal`: no attempt twice, no call repeated, no edge skipped |
| `promotion` | 2 contents, 2 moves of the user or clock, 2 requests, 1 crash | `LandsAuthorized`: only the approved and verified commit lands; `LandsOnce`; `ApprovalRecoversUnlessBlocked`; `FilesInv`: types, no reader of the projection ahead of the snapshot (`ProjectionNeverAhead`), and a record that names what has landed (`RecordTellsTheTruth`); `WrittenAheadReachesReaders` |
| `git` | 2 agents' nodes, 2 cleanups or requests, 2 moves of the user or clock, 1 death | `GitInv`: types, half-done effects always show in what is recorded (`PartialEffectsShow`), and an approval history that the next command accepts (`HookHistoryReplays`); `CompensationIsProven`: a compensation has its decision, its revert on what the session had seen and its hook, and neither is ever done twice (`RevertsOnce`); `HookRunsApproved`; `NoWorkIsLost`: a directory goes only after a decision, under a pending reference, with nothing uncommitted in it; `RollbackSettles` |
| `lifecycle` | 2 callers (symmetric), 2 gates, 1 context attempt, 2 repairs, 3 visits, 1 death or move | `LifecycleInv`: types, one caller in a section, and readable schedules and suites; `EffectsOnce`: one plan, one call in a visit, one run of a gate in a suite, whoever takes up what; `BoundsSurvive`: attempts, repairs and visits stay bounded over restarts, under one deadline, and no suite is repaired twice; `VerdictIsEarned`: what completed has a full suite that passed on the final commit, with nothing done since |
| `lifecycle_rest` | 1 caller, 2 gates, 2 context attempts, 1 repair, 2 visits, 1 death or move | `ComesToRest`: an execution that is taken up again comes to an end, stands at an open node, or at one of the listed places where verification refuses for good (`Stranded`) |
| `lifecycle_overrun` (refuted) | 1 caller, no death or move | an excess reached together with the durations of gates never ends the execution |

Why these bounds are enough to be of use. *Locks*: the races are between two threads of one process, or
two processes, for one lock; three threads over two processes have both at once, the catalog is the
second lock that a circular wait needs, and the fault may strike at each place. *State store*: five
operations are a bundle, a record, two appends or replacements and one more to recover after them; two
faults let a recovery be interrupted, and an unflushed rename be followed by a power loss (six
operations also pass). *State machine*: four
revisions reach the evidenced completion, two faults let a recovery be interrupted itself.
*Cancellation*: two cancellers can each have written the policy and lost the request; two commands let
one be observed while the next is reserved. *Knowledge*: three transactions give a competitor and a
bystander; four sessions let an interrupted one be followed by a commit and by retention. *Promotion*:
two contents distinguish the verified commit from the one edited since, two requests a live one from an
invalidated one; the safety properties also hold with three moves (1.3 million states). *Graph*: the
analysis may exhaust its retries and calls nothing, so that time adds up before there is an event of the budget: 4 and 4 are an excess of
the execution that stops the next node, 4 in the verification one of that node only, which the correction does not notice, and 4 with a
call of 4 an excess whose evidence is refused; where the calls alone are over, it is accepted, and where the
verification is the last node the terminal is reached on an excess. The edge from the approval back to the verification has the
human node visited again, with the same content or with another; tool calls run out in
a node (three calls may be asked for, two fit), the duration over the execution, and the last of the visits finds no
attempt left; two faults let a resumed session be interrupted again, between request and pause too. *Git*: two
moves let the user drop the revert and commit something else where it was, or remove a branch and put a
directory in its place; two commands are an approval that is requested again after it ended, or a cleanup that
is repeated; one death is enough, since a second session finds what the first has left. *Lifecycle*: two
gates are the least of which a proper part can fail; two repairs share a deadline; two callers meet between
any two sections; the second attempt at a context concerns one caller, and `lifecycle_rest` has it. The budgets are such that a long call exceeds the limit of any node but the agent's, and
that of the execution together with the gates that ran before. The denials that only a budget without room
for one plan or one call could produce (three arms in `CallPlanner`, `EnterPlan` and `WorkOnNode`) are not
reached. The bounds are constants in guards: where a theorem exists it holds for all of them.

`CHECK_DEADLOCK FALSE` appears in every configuration because the bounds make each model stop: when
operations, revisions, commands, sessions or faults are used up nothing is left to do, and an execution
that is over really has no next step. That nothing waits for ever is stated by `NoCircularWait` and the
liveness properties, which every passing run but `store` and `lifecycle` includes (for the latter
`lifecycle_rest` does).

Every property has a mutant in `PROJECT.json`: a plausible bug in one definition, written next to it in
the module, under which TLC finds the property violated.

## 5. Fairness

- `LockManager`: weak fairness of the steps of a thread inside an operation. The code polls in a loop
  and its body makes progress. Nothing makes a caller start one. There is no fairness between
  contenders for the OS lock: operations are finitely many, so whoever wins finishes.
- `StateStore`: none; it states safety only. An operation is straight-line code, and `LockManager` shows
  that it gets its lock.
- `StateMachine`: weak fairness of `Run`, the steps of an open session and of opening one: somebody
  calls the harness again after a crash, which is how the code recovers (there is no daemon).
- `Cancellation`: the runner's steps, a canceller's steps inside a call, and repeating a failed call
  while the execution still runs (the command line tells the user to).
- `KnowledgeTransaction`: a session's steps, and `recover_if_needed`, which every consumer of the
  knowledge base calls first.
- `GraphExecutor`: weak fairness of `Proceed`, the steps of a session and, when there is none, of
  `RecoverState`, `RecoverApproval`, `Execute`, `PrepareResume` and `Resume`: the user resumes what was
  interrupted. Nobody has to approve. `ComesToAnEnd` excepts what the code leaves to a human: a node that is open
  (`InterruptedNodeExecutionError`), a revisit that no retry context covers (`GraphCycleExecutionError`), a
  pending approval, and the repeated request of section 6.
- `Promotion`: a session's steps; strong fairness of calling `promote` (which is only enabled when no
  other session has the lock), and the user cleaning up a checkout left dirty.

- `GitEffects`: weak fairness of `Proceed`, the steps of a session, and of `Repeat`: the user resumes the
  execution and repeats a rollback that was interrupted, which its error tells him to look at.
- `Lifecycle` (run `lifecycle_rest`): weak fairness of the steps of each caller, and strong fairness of `GoOn`:
  somebody gives the command that takes the execution on, though it is not enabled all the time while others
  hold the lock. `ComesToRest` excepts what the code leaves to a human.

No fairness is assumed of the user's edits, of approval, of request, or of faults.

## 6. Findings

Places where the code does something else than its documentation, comments or tests say. Each is the
counterexample of a run; the quotations are in `PROJECT.json`.

| Run | Where | What happens |
|---|---|---|
| `machine_completion` | `state_machine.py:398` | crash between the completion event and its evidence: every later command refuses, nothing publishes it again |
| `lifecycle_overrun` | `budget.py:1616` | evidence of an excess names what only gates and attempts explain; replay validates it before it counts them, and rejects the ledger for ever: the node stays open, the state `EXECUTING` |

Other behaviours of the same kind that the models have and no run is spent on:

- `budget.py:864`: the same with the time of nodes that ended before the first event of the budget. The snapshot from which `_commit`
  writes its evidence (1616) counts it, the replay that validates the evidence (772, 995) does not yet: the ledger is
  refused for ever and the node stays open (`EvidenceRefused`, the exception in `ReadersAccept`).
- `graph_executor.py:864`: the loop does not look at the balance between two nodes. A node that called nothing may pass its own limit of
  time, and the next is started and makes its first call (`ExcessUnnoticed`, the exception in `NothingAfterExcess`); a graph
  in which nothing was called ends in `VERIFYING` or `FAILED` (1183) on an excess (the exception in `EndIsEarned`).
  `docs/tasks/completed/F5.4.md:98-100` wants any excess to end in `FAILED_BUDGET_EXCEEDED`.
- `knowledge/transaction.py:312`: staging left by a crash is compared with an index merged on a newer base, for
  ever, once another transaction has committed; `docs/user_guide.md:309` promises that it is reused.
- `execution_lifecycle.py:4065`: `approve` expires a request while a candidate is pending and takes its
  revision, so that the fields are never recovered; `docs/user_guide.md:278` promises a retry.
- `execution_lifecycle.py:1045`: the expiry of the approval is checked before the cherry-pick is looked for: an
  effect that landed is not reconciled; `docs/user_guide.md:281` promises that it is.
- `rollback_manager.py:552`: when git does not answer during the abort of a conflict, the result says that
  nothing was attempted; `docs/tasks/completed/F5.7.md:201-203` wants conflict and abort reported.
- `rollback_manager.py:462`: the proof of a revert is one commit on what was found; a user who drops the revert
  and commits something else in its place has a compensated execution.
- `rollback_manager.py:421`: a dirty checkout blocks the rollback for good, since `BLOCKED_ROLLBACK` is never
  retried.
- `git_worktree.py:349`: a death during creation leaves its node open, and `resume` raises; so the resumable
  `CREATING` reference is only ever taken up by another node, and `docs/user_guide.md:274` promises more.
- `git_worktree.py:360`: a collision raises outside the handler and leaves `CREATING`, so a second node adopts a
  pristine branch and directory that somebody else has made (`tests/unit/test_git_worktree.py:453` and
  `docs/tasks/completed/F3.6.md:62-63` want a collision to stay one).
- `git_worktree.py:580`: a death between the candidate's commit and its reference, followed by `cancel`, leaves a
  worktree that no cleanup accepts.
- `execution_lifecycle.py:2100`: when every gate of the full suite fails, the targeted suite is a full one, which
  `_validate_repair_verification_sequence` refuses: every later `verify` raises. Without a promotion manager the
  suite has completed the execution by then (`docs/tasks/completed/F4.8.md`, item 5, wants a full suite after it).
- `execution_lifecycle.py:2431`: a suite that was interrupted is never taken up again, `verify` and `promote`
  raise for good; `docs/tasks/completed/F4.8.md:64` wants it resumed.
- `execution_lifecycle.py:1979`: a repair that changes nothing, or work that changes nothing when there is a promotion
  manager, leaves `VERIFYING` with no command that goes on.
- `execution_lifecycle.py:1904`: an edit, or a candidate prepared by somebody else, between the look at the
  worktree and the section that acts on it blocks the execution.
- `execution_lifecycle.py:2983`: `verify` blocks an execution in a session that does not recover
  approvals, and takes the revision of a pending one. `ApprovalRecoversUnlessBlocked` is the property
  with this case excepted; `docs/user_guide.md:280` promises it without exception.
- `execution_lifecycle.py:4967`: `pause_for_approval` does not look whether an approval is pending. A resume that
  found the execution running, and gets the lock after another session has died between its request and its
  pause, requests a second time; from then on `_recover_approval_locked` raises in every command, `cancel`
  included (`RequestRepeated`; `docs/tasks/completed/F2.5.md:46` says that workers do not duplicate approvals).
- `execution_lifecycle.py:1016`: no command accepts an execution that died in `GENERATING_EVIDENCE`.
- `promotion_manager.py:215`: a commit of the user between the check of the base and the cherry-pick is
  noticed only afterwards. `docs/tasks/completed/F3.7.md:137` promises that nothing is picked.
- `execution_lifecycle.py:4359`: a cancel repeated after a death under the lock appends a second
  completion event, one per death (`CompletionRepeatsOnlyAfterDeath`); `F5.7.md:182` promises none.
- `cancellation.py:347`: outcome and slot are read in this order, so a command that ends in between is
  reported as having disappeared; the cancel has to be repeated (`RequestConcludes` counts on that).
- `transaction.py:507`: a committed transaction cannot be repeated once retention removed its snapshot;
  `F6.7.md:72` promises idempotence.

## 7. What is proved

The eight proof modules hold for every value of the constants: any number of processes, threads,
executions, files, revisions, operations, sessions and faults. They assume what the modules name, and TLC
evaluates those assumptions in the runs. `LockManager`: each thread belongs to a process
(`ThreadsBelong`), executions are a finite set of numbers, since the code sorts their identifiers
(`ExecutionsAreOrdered`), the catalog is not one of them (`CatalogIsApart`), no thread is called nobody
(`NobodyIsApart`), bounds are naturals (`BoundsAreNat`). `StateStore`: events are naturals
(`EventsAreNat`), a payload is not named as one of the fixed files (`PayloadsAreApart`),
`StoreBoundsAreNat`. `StateMachine`: `MachineBoundsAreNat`. `Cancellation`: the runner, the cancellers and
the marks of an absent or a torn file have different names (`NamesAreApart`), `CommandBoundsAreNat`.
`KnowledgeTransaction`: each transaction has an item (`ItemsAreNamed`), no transaction is called none
(`NoneIsNoTx`), an absent or damaged file shows no index (`FilesAreApart`), retention keeps at least one
snapshot, as the code demands, and the bounds are naturals (`KnowledgeBoundsAreNat`). `GitEffects`:
`WorkspaceBoundsAreNat`, `WorktreeBoundsAreNat`. `Promotion`: `PromotionBoundsAreNat`, with at least one
content of the worktree. `GraphExecutor` and `Budget`: the graph is what the compiler lets through, its entry a node, its
edges to nodes or terminals, agents and human nodes apart (`GraphIsCompiled`); a provider, a tool call per visit
and durations that are naturals (`LoopIsBounded`), and limits that are naturals (`LimitIsNat`). `Service`: a policy names
each of its gates once and requires at least one, as `verification/resolver.py` demands; gates are not called as the plan or
the node are (names of effects only); a node has at least one iteration, as the contract of the graph demands (`gt=0`); the
other limits are naturals (`ServiceIsConfigured`). Types are proved where a theorem needs them, so no run spends a property
on them alone.

| Theorem | States |
|---|---|
| `LockTypeOK` | `[]TypeOK` of the lock manager |
| `LockOwnership` | `[]OwnershipInv` |
| `LockNoCircularWait` | `[]NoCircularWait` |
| `LockListingIsExact` | `[]ListingIsExact` |
| `LockRegistryIsExact` | `[]NoLeakedRegistration` |
| `LockImplementsFencedLock` | the lock manager implements `FencedLock` |
| `StoreKeepsItsFiles` | `[]StoreInv` |
| `StoreImplementsStoredFiles` | the store implements `StoredFiles` |
| `MachineTypeOK` | `[]TypeOK` of the state machine |
| `MachineReplayNeverFails` | `[]ReplayNeverFails` |
| `MachineReadyIsSettled` | `[]ReadyIsSettled` |
| `MachineEvidenceMatches` | `[]EvidenceMatches` |
| `MachineImplementsLife` | the state machine implements `ExecutionLife` |
| `ControlIsSound` | `[]ControlInv` of the cancellation |
| `QuiescenceLasts` | `[]QuiescentMeansQuiet` |
| `HistoryHolds` | `[]HistoryInv` of the knowledge transactions |
| `KnowledgeImplementsBase` | the transactions implement `KnowledgeBase` |
| `GitStateIsSound` | `[]GitInv` of the git effects |
| `RollbackIsProven` | `[]CompensationIsProven` |
| `HookIsApproved` | no hook runs without an approval (`HookRunsApproved`) |
| `WorkIsNotLost` | no step loses the work of the worktree (`NoWorkIsLost`) |
| `OneCherryPick` | `[]LandsOnce` of the promotion |
| `OnlyTheApprovedLands` | a cherry-pick is approved, verified and recorded (`LandsAuthorized`) |
| `ApprovalRecovers` | `[]ApprovalRecoversUnlessBlocked` |
| `RecordIsTrue` | `[]FilesInv` |
| `ExecutorImplementsTraversal` | the graph executor implements `Traversal` |
| `AccountsAreKept` | `[]AccountInv` of the graph executor |
| `NothingRunsOnExcess` | nothing is started, reserved or called on an excess, but for the one that is named (`NothingAfterExcess`) |
| `ReadersAlwaysAccept` | `[]ReadersAccept`: resume, ledger and approval history read what was written, with their named exceptions |
| `MovesHaveReason` | `[]MovesAreEarned` |
| `SectionsAreExclusive` | `[]LifecycleInv` of the lifecycle |
| `EffectsAreMadeOnce` | `[]EffectsOnce` |
| `BoundsAreKept` | `[]BoundsSurvive` |
| `CompletionIsEarned` | `[]VerdictIsEarned` |

*Locks.* That one thread holds a handle does not follow from one step to the next by itself. The
inductive invariant `OwnershipInv` has three parts: `PlaceInv`, what a thread's place says about its
operation and the lock it wants; `OsLockInv`, that a thread past the poll is the owner of the OS lock it
wants, and an owner is there or on one of the two error paths, so that two holders would own one lock
file; `TokenInv`, that no token was handed out above the fence on disk, and that a token about to be
handed out is above all of them and already durable. Each part is preserved by every action given the
ones before it, which is how the lemmas are laid out. `LockNoCircularWait` needs `OsLockInv` only: whoever
owns an execution's OS lock is past its poll, so all threads of a circle would wait for the catalog, whose
owner then waits for something else. `LockListingIsExact` strengthens with `ListInv`: in each place of a
listing, what it has seen, has in hand and has yet to do are together the executions that exist. The
registry of a process (`NoLeakedRegistration`) follows its threads: a lemma says which steps move a
registration (`MovesRegistration`), and all others leave place and registry alone. The refinement maps
a lock's holders to the threads that use its handle; `Register` is a `Grant`, `Unlock` and the deaths are a
`Yield`, the rest stutters.

*State machine.* `MachineInv` is `HistoryInv` (the journal is a chain of edges whose revisions increase,
whose tokens and times do not decrease, of which at most the last event is pending and then carries the
snapshot's next revision; the snapshot is in the state of the last committed event; tokens come from the
lock), `SessionInv` (what its place says a session has left pending, and that its evidence is there),
`EvidenceIsLast` (nothing after the evidenced event needs evidence) and `EvidenceMatches`.
`ReplayNeverFails` is nearly `HistoryInv` itself, but `HistoryInv` alone is not inductive: an append is
sound only because a ready session has nothing pending. The refinement maps the reader's state to the
snapshot's and the evidence to the manifest: steps that change neither stutter, the others are a `Move`
along an edge or an `Attest`.

*Store.* There are three versions of each file: what was promised, what is durable, and what the next
reader is shown, which is the canonical file or, without one, its only whole temporary. `DiskInv` says
that each is a prefix of the next, and that a file never has two temporaries (`OneCandidate`). That is
preserved only because of what the session is doing: `WriteInv` says that the draft of a write is
exactly one write longer than the file, and that what a power loss could show is a prefix of the file;
`RecoverInv`, that whatever the write needs is still to be recovered or was, so that no temporary of an
earlier death is left beside a new one; `CallInv`, what the operation's target is. `ContentInv` is the
order of the bundle's files, its manifest last, from which `RecordHasBundle` and `EventsAreUnique` follow.
Recovery refuses only a file that shows nothing, hence of which nothing is promised
(`RefusalLosesNothing`). For the refinement a lemma says where the versions of a file come from in a step
(`VersionsCome`) and another what becomes of what is shown (`ShownStep`): it stays, grows by one write, or
goes back to what was durable.

*Cancellation.* `CancellationInv` adds to the types what each place stands for. `RunnerInv`: from which
places on the slot is there, whole, and in which no process can be alive. `DecisionInv`: a canceller that is past
the policy has its decision in the policy, past the request in the request too, and only one of them writes a
file at a time, which is what makes a torn file its writer's. `LockInv`: a canceller past its decision
owns the lock and the execution still runs. `CompletionInv` pays for each completion with a death.
`QuietInv` is the argument for `QuiescentMeansQuiet`: quiet is that no process is alive *and* the runner
is not between its second look and the spawn; once the request is there it lasts, since the runner looks again after it has
reserved its slot, and a canceller that waits for a command has quiet as soon as the slot shows another
command or none.

*Knowledge.* The journal is a sequence of pairs, PREPARED and how it ended, of which at most the last is
open (`InPairs`, `InOrder`), and each commit names the one before it (`IsChain`, `IsHeadBefore`). `PointerInv`
has the one subtlety: the pointer is at the last commit, or one swap ahead at the open record, which was merged
into exactly what the last commit shows. `SessionInv` says which of the two a place stands for. For the
refinement the swap of the pointer is the `Put` of the abstract base, the record of an abort its `GiveUp`,
and everything else, recovery and retention included, stutters: a snapshot that retention removes
is never the one that the pointer names.

*Rollback.* `CompensationIsProven` relates the journal, the branch, which the user also moves, and two
counters of effects. The invariant `RollbackInv` adds what each place of a session says of them
(`PlaceInv`): before a revert or a hook its counter is zero, and the state `ROLLBACK_IN_PROGRESS` has
been entered; what the commits on the branch say of the counter, and that a revert which counts stands on
what the session had seen (`BranchInv`); and what each state and outcome has behind it in the journal
(`EventInv`). The state is entered before the effect and outlives the session, and this is why a rollback
whose session died is never repeated: from there a new session only blocks it, and outside of the three
states of a rollback both counters are zero. The journal only grows (`JournalGrows`), and what the user does to
the branch leaves what an earlier event attested (`BranchMoves`).

*Worktree and approvals of a hook.* `WorkIsNotLost` follows from `WorktreeInv`: what a place says of
reference, directory and state, so that a directory which is removed was inspected in a terminal state
and its reference had been set to `CLEANUP_PENDING` before. The other part of `GitInv` is that the approvals of a
hook replay in every command: the invariant is stated as an operator on the journal (`Replays`), with the
latest approval below a position described by what it is instead of by a maximum (`IsLastBelow`), so that one
lemma says what an append may add (`ReplayGrows`, `MayFollow`). `HookIsApproved` needs that no approval
comes after the decision while a session is past it (`DecidedLast`).

*Promotion.* An event written ahead is one revision ahead of the snapshot; the session that wrote it may die, and
any later command may apply it or write another. `JournalInv` says what each event has behind it, that the revisions
of a kind increase, and that beside a pending decision of the approver only a block may be pending
(`BlockOvertakes`). Three things carry the proof: a write-ahead event is the only pending one of its kind
(`WrittenAhead`); applying any event makes every other one void, since the revision has moved
(`ApplyKeepsAll`); and from the authorization to the cherry-pick nothing of what was checked can change
(`Authorized`). `LandInv` relates branch and snapshot, `CandidateInv` what was verified to what was recorded,
`SessionInv` says which events a place excludes. `LandsAuthorized` and `LandsOnce` are about the cherry-pick, which
is one step of the user's repository among moves of the user; `FilesInv` says that the record names what did land,
and `ApprovalRecoversUnlessBlocked` that the recovery of the approval raises only after verify has blocked the execution.

*Graph executor.* The journal alone says where a traversal is. `WalkInv`: a node has as many visits as outcomes, one more
where a visit is open, and the last outcome is that of its node's last attempt. The record is at most one outcome behind;
a session brings it up to date first and knows whether a node is open (`PlaceInv`), and within a visit it
knows how much it has called (`EffectInv`, by `SessionFits`), which is what makes a call that is repeated
impossible: a session that dies leaves its node open, and no session enters a node that is open. `GraphInv` is these with the
types of what events carry. Most steps are `Quiet`: they may write, but neither an outcome nor a start, and
the traversal stutters. `StartNode` is a `Visit` of the abstract walk, `CallModel` and `DispatchTool` are a `Call`, `FinishNode` is
a `Leave`.

*Account.* `LedgerInv` stands on `GraphInv`. `HoldInv`: one reservation at most is active, that of the session
or, if it died, one in the open node. `CountInv`: the calls of a kind are those settled in the journal,
and one that the session is about to settle or that was lost with its session; a tool call is made only after its event is
written. `RoomInv`: what is reserved has room within the limits of the execution and of the node, so that
settling it cannot exceed what is known beforehand, attempts and tool calls; the duration may. `ExcessInv`:
an excess keeps the session from every place out of which it would start, reserve or call, and between two
visits it can only be the evidence of an attempt that was denied; nothing gives back what was used, so the next
session, which may resume after a crash before the execution was failed, is denied the same attempt. The other
excess between two visits is new (`ExcessIsNew`): it came with the last outcome, while there was no event of the budget, and the
balance before that outcome was within the limits, because no node ends on an excess. Either the next attempt does not fit, and the denial
makes it an excess of the first kind, or it fits and the excess stays `Unnoticed`, as no event until the first commit adds to what the
execution or the node has used. Two journals
that differ in other events only have the same account (`Same`), so that
the steps which write neither a start nor an event of the budget are done by one group of lemmas. `UsageIs` and the lemmas after it
say what one event adds to a sum.

*Readers and moves* (`GraphReadersProofs`). `ReaderInv` stands on `GraphInv` and `LedgerInv`. Both theorems need it whole, because what
a reader accepts and why a move was made are the same facts about the journal. The readers of visits and tool calls look
at every prefix: `LoopInv` says that a session is given what the journal says (payload and context), `ToolInv` that within a
visit tool calls and outcomes take turns, `DispatchInv` that a call is dispatched and settled under the
reservation that the session holds. `ReplayInv`: the ledger replays, or the journal is `Closed`. Evidence of a commit is accepted
if no time of nodes was counted, for then the account of the limits and that of the loop are over in the same dimensions (`OverIs`). Otherwise
it may be refused, and is: from then on the node is open, no session enters it, and the session that is in it can
neither end it nor fail the execution, because each of these reads the ledger first (`ClosedStays`); so the evidence stays the last event. `RevisionInv` counts: the record is at the number of events that move it
(`Settled`), or one behind (`Ahead`), and while an event is ahead `Awaits` says what the record lacks. This is what
makes a second event ahead impossible, in spite of the sessions that die between journal and record: every
command first shows what is pending, or finds the place from which it would write closed. `ApprovalInv`: requests and grants take
turns (`Turns`), and the record shows the last one that is committed; the exception, a request repeated by a session that had read the
execution before another one died, costs a fault. `GateInv` carries an approval from the grant to the end of the
human node's visit, `RetryInv` a failure from its outcome to the visit that corrects it: the context survives every
node in between but is dropped where the origin completes. `EndInv` demands the reason (`Earned`) not only of the state
that the record shows but of a transition that is written and not shown yet, for its session may be dead when
it is applied; and that the last outcome was written within the budget (`EndedWithin`), which bounds the excess on which a terminal may be
reached. Every step either shows an event (`Shows`), writes one (`Posts`), or leaves both alone (`Steady`; lemma
`StepRevises`), so that what depends on revisions is proved for three kinds of steps and not for each action.

*Lifecycle.* The four invariants follow from one, `ServiceInv`, which is needed whole: that a gate is not run twice is read off
the suites in the journal, and that these can be read needs that one caller at a time has written them. It has six parts.
`JournalInv` speaks of the journal alone: attempts of the context, plan and visits are counted
(`HistoryInv`), what is started has a number that was not used (`StartsInv`), the suites are numbered and what belongs
to none yet has the next number (`SuitesInv`), and the schedules replay, under one deadline and each after a suite of its own
(`SchedulesInv`). `StateInv` says what each state has behind it in the journal: no event of the graph before `EXECUTING`, no open node in
`VERIFYING`, a visit left where the node is to be visited again. `LockInv` is that one caller is in a section, and `PlaceOf` what its place says of state
and journal. `MadeOnce` with `DueOf`: an effect that is about to be made, or that a death may leave, is new, though its
start is written. `RequestOf` is the argument for callers that are *not* alone: a request for a repair, decided under one
lock and carried out under the next, either still holds, or a repair was scheduled in between and its number shows that it
is late; `Further` says what the steps of others may do to it. Last, as long as nobody died the suites replay but for one that
is going on, and of that one `Recorded` says how far it has come: what it has run and what is left are, for the first suite, the policy,
and nothing is both, which is why the suite that is written is whole. A death is where this ends: the suite stays torn and no reader accepts it any
more, but everything else is as it was.
Most steps either write nothing that is counted (`Keeps`: a call to the model writes the ledger's events only) or exactly one
event (`Adds`), and leave out whole families of types (`Without`); the lemmas of each part say which families it does not
depend on, so that an action has to be followed only through the parts it touches.

*What stays with TLC.* Liveness under fairness and everything with ENABLED, for all modules: induction over what is still
to be done, with fairness for the commands that somebody has to give, is out of the prover's reach. Every safety invariant and
every refinement that a run checks is also a theorem.

## 8. What is not modelled, and why

- The invalidation of a human node's approval by `cancel` (`APPROVAL_INVALIDATED`), after which nothing runs.
  `status` and `inspect` only read.
- Of the lifecycle's readers: artifacts, policies and payloads that were damaged or changed; a prerequisite
  that fails for such a reason is one choice (`BLOCKED_PREREQUISITE`).
- Of the graph executor: the look at the cancellation token between
  two calls (module `Cancellation` has the commands), and journals written before tool effects or
  reservations were durable; of these the budget would also count the calls (`_add_historical_model`), where the model has
  only the time of their nodes. In `Lifecycle` the graph is a single node, after a plan whose reservation comes before it, so
  no time is counted before the first event of the budget; a lifecycle without a planner is not modelled.
- Of the verification: an optional gate that is not configured, outputs and digests, and the token and cost
  limits of the repair loop, which end it as its deadline does. Of the planner: how sufficiency is judged and
  what a plan says.
- Of the rollback: a wall clock that goes back, and a revert or merge of the user that is in progress when the
  session looks. Of the worktree: files git ignores, and `workspace/sandbox.py`.
- Pure decisions and transformations: policies, trust, path guard, redaction, contracts, compiler,
  detector, indexer, selection of models. They keep no state between calls, and unit tests reach them.
- Single calls: HTTP requests to models, edits by tools, git plumbing, the doctor and the command line.
  What matters of them here is that they may fail or die, and that is in the modules that call them.
- Damage to canonical files from outside. The code detects it by hashes and refuses; the models have
  only what the code itself, crashes, power loss and the user's git commands can leave behind
  (`KnowledgeTransaction` also has the damaged staging that the code repairs).
- Contents: digests, identifiers, wording and timestamps beyond their order.

## 9. Plan

1. Two questions that are left from reading the code. A retryable failure inside a correction path replaces the
   outer context; is its origin then visited again without one (this needs a policy of three iterations,
   `docs/tasks/completed/F2.6.md`)? A failure that is not retryable on an edge back to its own node leaves
   `EXECUTING` with a revisit that is refused (`RevisitRefused`); does the lifecycle have a way out besides
   `cancel`?
