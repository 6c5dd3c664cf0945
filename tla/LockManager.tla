---------------------------- MODULE LockManager ----------------------------
(***************************************************************************)
(* persistence/locks.py, CrossProcessLockManager, and the lock nesting of  *)
(* persistence/atomic_file.py.                                             *)
(*                                                                         *)
(* Several processes, each with one manager, share the lock directory.     *)
(* Threads of one manager are told apart by its in-memory registry         *)
(* (_pending, _active), processes by the OS lock of the lock file.  After  *)
(* it owns the OS lock of an execution a thread advances the durable       *)
(* fencing counter and only then hands the handle out.                     *)
(*                                                                         *)
(* A caller runs one of three operations: "guarded" (_execution_guard:     *)
(* load, CAS, append and the lifecycle under one execution lock),          *)
(* "create" (catalog lock, then the execution lock) and "list" (catalog    *)
(* lock, then every known execution in turn).                              *)
(***************************************************************************)
EXTENDS Naturals, FiniteSets

CONSTANTS
  Thread,        \* calling threads, over all processes
  Manager,       \* one manager per process
  ManagerOf,     \* the manager a thread belongs to
  Execution,     \* executions, named by their place in the sorted listing
  Catalog,       \* the catalog lock
  Nobody,        \* the OS lock is free
  Deadlines,     \* whether the finite lock timeout may pass while waiting
  MaxOps,        \* bound: operations started
  MaxFaults      \* bound: crashes, power losses and I/O errors

ASSUME ThreadsBelong == ManagerOf \in [Thread -> Manager]
ASSUME ExecutionsAreOrdered == Execution \subseteq Nat /\ IsFiniteSet(Execution)
ASSUME CatalogIsApart == Catalog \notin Execution
ASSUME NobodyIsApart == Nobody \notin Thread
ASSUME BoundsAreNat ==
  MaxOps \in Nat /\ MaxFaults \in Nat /\ Deadlines \in BOOLEAN

LockName == Execution \cup {Catalog}

VARIABLES
  pc,         \* where the thread is in acquire, body or release
  op,         \* the operation it runs
  want,       \* the lock it is acquiring, using or releasing
  todo,       \* executions its create or list has still to visit
  seen,       \* executions its list has read
  pending,    \* pending[m]: _pending and _catalog_pending of manager m
  active,     \* active[m]: _active_by_execution and _catalog_active of m
  osLock,     \* owner of the OS lock of each lock file
  fence,      \* the fence file of each execution, as read
  fenceDisk,  \* the same, as it survives a power loss
  token,      \* fencing token of the handle under construction or in use
  issued,     \* history: the last token handed out for each execution
  created,    \* executions that have a record
  ops, faults \* counters for the bounds

threadVars == <<pc, op, want, todo, seen, token>>
registry == <<pending, active>>
fences == <<fence, fenceDisk, issued>>
bounds == <<ops, faults>>
vars == <<threadVars, registry, osLock, fences, created, bounds>>

Operations == {"none", "guarded", "create", "list"}
Places == {"idle", "reserve", "poll", "fence", "sync", "register", "walk",
           "body", "unlock", "unregister", "discard", "drop"}

Init ==
  /\ pc = [t \in Thread |-> "idle"]
  /\ op = [t \in Thread |-> "none"]
  /\ want = [t \in Thread |-> Catalog]
  /\ todo = [t \in Thread |-> {}]
  /\ seen = [t \in Thread |-> {}]
  /\ token = [t \in Thread |-> 0]
  /\ pending = [m \in Manager |-> {}]
  /\ active = [m \in Manager |-> {}]
  /\ osLock = [l \in LockName |-> Nobody]
  /\ fence = [e \in Execution |-> 0]
  /\ fenceDisk = [e \in Execution |-> 0]
  /\ issued = [e \in Execution |-> 0]
  /\ created = {}
  /\ ops = 0
  /\ faults = 0

GoTo(t, place) == pc' = [pc EXCEPT ![t] = place]

\* The thread asks for lock l: the next thing it does is to reserve it.
Ask(t, l) ==
  /\ want' = [want EXCEPT ![t] = l]
  /\ GoTo(t, "reserve")

-----------------------------------------------------------------------------
(* Operations of the provider.                                             *)

BeginGuarded(t, e) ==
  /\ pc[t] = "idle" /\ ops < MaxOps
  /\ op' = [op EXCEPT ![t] = "guarded"]
  /\ Ask(t, e)
  /\ ops' = ops + 1
  /\ UNCHANGED <<todo, seen, token, registry, osLock, fences, created, faults>>

\* Mutant of BeginCreate: it takes the execution lock at once.
CreateSkipsCatalog(t, e) ==
  /\ pc[t] = "idle" /\ ops < MaxOps
  /\ op' = [op EXCEPT ![t] = "create"]
  /\ Ask(t, e)
  /\ ops' = ops + 1
  /\ UNCHANGED <<todo, seen, token, registry, osLock, fences, created, faults>>

\* create_execution and list_executions take the catalog lock first.
BeginCreate(t, e) ==
  /\ pc[t] = "idle" /\ ops < MaxOps
  /\ op' = [op EXCEPT ![t] = "create"]
  /\ todo' = [todo EXCEPT ![t] = {e}]
  /\ Ask(t, Catalog)
  /\ ops' = ops + 1
  /\ UNCHANGED <<seen, token, registry, osLock, fences, created, faults>>

BeginList(t) ==
  /\ pc[t] = "idle" /\ ops < MaxOps
  /\ op' = [op EXCEPT ![t] = "list"]
  /\ seen' = [seen EXCEPT ![t] = {}]
  /\ Ask(t, Catalog)
  /\ ops' = ops + 1
  /\ UNCHANGED <<todo, token, registry, osLock, fences, created, faults>>

\* Inside the catalog lock: the next execution in order, or the way out.
Walk(t) ==
  /\ pc[t] = "walk"
  /\ \/ \E e \in todo[t] :
          /\ \A other \in todo[t] : e <= other
          /\ todo' = [todo EXCEPT ![t] = @ \ {e}]
          /\ Ask(t, e)
     \/ /\ todo[t] = {}
        /\ want' = [want EXCEPT ![t] = Catalog]
        /\ GoTo(t, "unlock")
        /\ UNCHANGED todo
  /\ UNCHANGED <<op, seen, token, registry, osLock, fences, created, bounds>>

\* What the operation does while it holds the execution lock.
Body(t) ==
  /\ pc[t] = "body"
  /\ want[t] \in active[ManagerOf[t]]
  /\ created' = IF op[t] = "create" THEN created \cup {want[t]} ELSE created
  /\ seen' = IF op[t] = "list" THEN [seen EXCEPT ![t] = @ \cup {want[t]}]
                               ELSE seen
  /\ GoTo(t, "unlock")
  /\ UNCHANGED <<op, want, todo, token, registry, osLock, fences, bounds>>

\* The finally clauses: an operation whose acquisition failed gives the
\* catalog back if it held it, and is over.
Leave(t) ==
  /\ todo' = [todo EXCEPT ![t] = {}]
  /\ IF op[t] \in {"create", "list"} /\ want[t] # Catalog
     THEN /\ want' = [want EXCEPT ![t] = Catalog]
          /\ GoTo(t, "unlock")
          /\ UNCHANGED op
     ELSE /\ GoTo(t, "idle")
          /\ op' = [op EXCEPT ![t] = "none"]
          /\ UNCHANGED want

-----------------------------------------------------------------------------
(* acquire and acquire_catalog.                                            *)

Reserve(t) ==
  LET m == ManagerOf[t] IN
  /\ pc[t] = "reserve"
  /\ want[t] \notin active[m] \cup pending[m]
  /\ pending' = [pending EXCEPT ![m] = @ \cup {want[t]}]
  /\ GoTo(t, "poll")
  /\ UNCHANGED <<op, want, todo, seen, token, active, osLock, fences,
                 created, bounds>>

\* LockOwnershipError: the lock is not reentrant within a manager.
Refuse(t) ==
  /\ pc[t] = "reserve"
  /\ want[t] \in active[ManagerOf[t]] \cup pending[ManagerOf[t]]
  /\ Leave(t)
  /\ UNCHANGED <<seen, token, registry, osLock, fences, created, bounds>>

TakeOsLock(t) ==
  /\ pc[t] = "poll"
  /\ osLock[want[t]] = Nobody
  /\ osLock' = [osLock EXCEPT ![want[t]] = t]
  /\ GoTo(t, IF want[t] = Catalog THEN "register" ELSE "fence")
  /\ UNCHANGED <<op, want, todo, seen, token, registry, fences, created, bounds>>

\* The deadline is looked at only after a failed attempt.
TimeOut(t) ==
  /\ pc[t] = "poll"
  /\ Deadlines
  /\ osLock[want[t]] # Nobody
  /\ GoTo(t, "discard")
  /\ UNCHANGED <<op, want, todo, seen, token, registry, osLock, fences,
                 created, bounds>>

\* _advance_fence: read, add one, replace the file; then flush the directory.
AdvanceFence(t) ==
  /\ pc[t] = "fence"
  /\ token' = [token EXCEPT ![t] = fence[want[t]] + 1]
  /\ fence' = [fence EXCEPT ![want[t]] = fence[want[t]] + 1]
  /\ GoTo(t, "sync")
  /\ UNCHANGED <<op, want, todo, seen, registry, osLock, fenceDisk, issued,
                 created, bounds>>

\* Mutant of SyncFence: the directory is not flushed.
FenceNotFlushed(t) ==
  /\ pc[t] = "sync"
  /\ GoTo(t, "register")
  /\ UNCHANGED <<op, want, todo, seen, token, registry, osLock, fences,
                 created, bounds>>

SyncFence(t) ==
  /\ pc[t] = "sync"
  /\ fenceDisk' = [fenceDisk EXCEPT ![want[t]] = fence[want[t]]]
  /\ GoTo(t, "register")
  /\ UNCHANGED <<op, want, todo, seen, token, registry, osLock, fence, issued,
                 created, bounds>>

\* An I/O error before the replacement or in the directory flush.
FenceFails(t) ==
  /\ pc[t] \in {"fence", "sync"}
  /\ faults < MaxFaults
  /\ faults' = faults + 1
  /\ GoTo(t, "discard")
  /\ UNCHANGED <<op, want, todo, seen, token, registry, osLock, fences,
                 created, ops>>

\* The handle is registered and returned to the caller.
Register(t) ==
  LET m == ManagerOf[t] IN
  /\ pc[t] = "register"
  /\ active' = [active EXCEPT ![m] = @ \cup {want[t]}]
  /\ pending' = [pending EXCEPT ![m] = @ \ {want[t]}]
  /\ IF want[t] = Catalog
     THEN /\ todo' = IF op[t] = "list" THEN [todo EXCEPT ![t] = created]
                                       ELSE todo
          /\ GoTo(t, "walk")
          /\ UNCHANGED issued
     ELSE /\ issued' = [issued EXCEPT ![want[t]] = token[t]]
          /\ GoTo(t, "body")
          /\ UNCHANGED todo
  /\ UNCHANGED <<op, want, seen, token, osLock, fence, fenceDisk, created, bounds>>

\* Mutant of Discard: the error path forgets the reservation.
DiscardForgets(t) ==
  /\ pc[t] = "discard"
  /\ GoTo(t, "drop")
  /\ UNCHANGED <<op, want, todo, seen, token, registry, osLock, fences,
                 created, bounds>>

\* finally of a failed acquisition: the reservation goes first ...
Discard(t) ==
  LET m == ManagerOf[t] IN
  /\ pc[t] = "discard"
  /\ pending' = [pending EXCEPT ![m] = @ \ {want[t]}]
  /\ GoTo(t, "drop")
  /\ UNCHANGED <<op, want, todo, seen, token, active, osLock, fences,
                 created, bounds>>

\* Mutant of Drop: it frees the OS lock whoever owns it.
DropFreesAnyone(t) ==
  /\ pc[t] = "drop"
  /\ osLock' = [osLock EXCEPT ![want[t]] = Nobody]
  /\ Leave(t)
  /\ UNCHANGED <<seen, token, registry, fences, created, bounds>>

\* ... then the OS lock, if it was obtained.
Drop(t) ==
  /\ pc[t] = "drop"
  /\ osLock' = IF osLock[want[t]] = t THEN [osLock EXCEPT ![want[t]] = Nobody]
                                      ELSE osLock
  /\ Leave(t)
  /\ UNCHANGED <<seen, token, registry, fences, created, bounds>>

-----------------------------------------------------------------------------
(* release and release_catalog: the OS lock first, the registry after it.  *)

\* Mutant of Unlock: the descriptor of the lock file stays open.
UnlockKeepsLease(t) ==
  /\ pc[t] = "unlock"
  /\ GoTo(t, "unregister")
  /\ UNCHANGED <<op, want, todo, seen, token, registry, osLock, fences,
                 created, bounds>>

Unlock(t) ==
  /\ pc[t] = "unlock"
  /\ osLock' = [osLock EXCEPT ![want[t]] = Nobody]
  /\ GoTo(t, "unregister")
  /\ UNCHANGED <<op, want, todo, seen, token, registry, fences, created, bounds>>

Unregister(t) ==
  LET m == ManagerOf[t] IN
  /\ pc[t] = "unregister"
  /\ active' = [active EXCEPT ![m] = @ \ {want[t]}]
  /\ IF op[t] \in {"create", "list"} /\ want[t] # Catalog
     THEN /\ GoTo(t, "walk")
          /\ UNCHANGED op
     ELSE /\ GoTo(t, "idle")
          /\ op' = [op EXCEPT ![t] = "none"]
  /\ UNCHANGED <<want, todo, seen, token, pending, osLock, fences, created, bounds>>

-----------------------------------------------------------------------------
(* Faults.                                                                 *)

\* Processes die: the OS closes their descriptors, their memory is gone.
Die(dying) ==
  LET gone == {t \in Thread : ManagerOf[t] \in dying} IN
  /\ faults < MaxFaults
  /\ faults' = faults + 1
  /\ pc' = [t \in Thread |-> IF t \in gone THEN "idle" ELSE pc[t]]
  /\ op' = [t \in Thread |-> IF t \in gone THEN "none" ELSE op[t]]
  /\ want' = [t \in Thread |-> IF t \in gone THEN Catalog ELSE want[t]]
  /\ todo' = [t \in Thread |-> IF t \in gone THEN {} ELSE todo[t]]
  /\ seen' = [t \in Thread |-> IF t \in gone THEN {} ELSE seen[t]]
  /\ token' = [t \in Thread |-> IF t \in gone THEN 0 ELSE token[t]]
  /\ pending' = [m \in Manager |-> IF m \in dying THEN {} ELSE pending[m]]
  /\ active' = [m \in Manager |-> IF m \in dying THEN {} ELSE active[m]]
  /\ osLock' = [l \in LockName |->
                  IF osLock[l] \in gone THEN Nobody ELSE osLock[l]]
  /\ UNCHANGED <<fenceDisk, issued, created, ops>>

Crash(m) == Die({m}) /\ UNCHANGED fence

\* The machine stops: what was not flushed is lost.
PowerLoss == Die(Manager) /\ fence' = fenceDisk

-----------------------------------------------------------------------------
Acquiring(t) ==
  \/ Reserve(t) \/ Refuse(t) \/ TakeOsLock(t)
  \/ AdvanceFence(t) \/ SyncFence(t) \/ Register(t) \/ Discard(t) \/ Drop(t)

Using(t) == Walk(t) \/ Body(t) \/ Unlock(t) \/ Unregister(t)

Begin(t) ==
  \/ \E e \in Execution : BeginGuarded(t, e) \/ BeginCreate(t, e)
  \/ BeginList(t)

Fault == (\E m \in Manager : Crash(m)) \/ PowerLoss

Next ==
  \/ \E t \in Thread : Begin(t) \/ Acquiring(t) \/ Using(t) \/ TimeOut(t)
                        \/ FenceFails(t)
  \/ Fault

Spec == Init /\ [][Next]_vars

\* A thread inside an operation keeps running until its process dies; that a
\* deadline passes is left to chance, so that nothing can rely on it.
FairSpec == Spec /\ \A t \in Thread : WF_vars(Acquiring(t) \/ Using(t))

-----------------------------------------------------------------------------
(* Properties.                                                             *)

TypeOK ==
  /\ pc \in [Thread -> Places]
  /\ op \in [Thread -> Operations]
  /\ want \in [Thread -> LockName]
  /\ todo \in [Thread -> SUBSET Execution]
  /\ seen \in [Thread -> SUBSET Execution]
  /\ token \in [Thread -> Nat]
  /\ pending \in [Manager -> SUBSET LockName]
  /\ active \in [Manager -> SUBSET LockName]
  /\ osLock \in [LockName -> Thread \cup {Nobody}]
  /\ fence \in [Execution -> Nat]
  /\ fenceDisk \in [Execution -> Nat]
  /\ issued \in [Execution -> Nat]
  /\ created \subseteq Execution
  /\ ops \in Nat
  /\ faults \in Nat

\* The caller has the handle of execution e and may write under it.
Holds(t, e) == want[t] = e /\ pc[t] \in {"body", "unlock"}

\* The lock manager implements the fenced lock: whatever the interleaving of
\* threads and processes, crashes and power losses, one holder per execution
\* and tokens that never repeat nor decrease from grant to grant.
Promise == INSTANCE FencedLock WITH
  holders <- [e \in Execution |-> {t \in Thread : Holds(t, e)}],
  last <- issued

ImplementsFencedLock == Promise!FencedSpec

\* A reservation of a manager always belongs to a thread that is still
\* acquiring that lock, and a registered handle to a thread that has it: an
\* error path that forgot one would make the lock unusable in that process.
Reserving(t, l) ==
  want[t] = l /\ pc[t] \in {"poll", "fence", "sync", "register", "discard"}

Registered(t, l) ==
  \/ want[t] = l /\ pc[t] \in {"body", "unlock", "unregister"}
  \/ l = Catalog /\ pc[t] = "walk"
  \/ l = Catalog /\ op[t] \in {"create", "list"} /\ want[t] # Catalog

NoLeakedRegistration ==
  \A m \in Manager, l \in LockName :
    /\ l \in pending[m] => \E t \in Thread : ManagerOf[t] = m /\ Reserving(t, l)
    /\ l \in active[m] => \E t \in Thread : ManagerOf[t] = m /\ Registered(t, l)

\* No set of threads wait for each other's OS locks: the catalog is always
\* taken before, and never after, an execution lock.
NoCircularWait ==
  \A S \in (SUBSET Thread) \ {{}} :
    \E t \in S : ~ (pc[t] = "poll" /\ osLock[want[t]] \in S)

\* When list_executions is about to return it has read exactly the executions
\* that exist: no create slips in while it goes through them.
ListingIsExact ==
  \A t \in Thread :
    op[t] = "list" /\ pc[t] = "walk" /\ todo[t] = {} => seen[t] = created

\* Who is inside a lock: past the OS lock of that name and not yet out.
Inside(t, l) ==
  \/ want[t] = l /\ pc[t] \in {"fence", "sync", "register", "body", "unlock"}
  \/ l = Catalog /\ pc[t] = "walk"
  \/ l = Catalog /\ op[t] \in {"create", "list"} /\ want[t] # Catalog

\* Positions, operations and wanted locks go together.
PlaceInv ==
  \A t \in Thread :
    /\ pc[t] \in {"fence", "sync", "body"} => want[t] # Catalog
    /\ (pc[t] = "idle") = (op[t] = "none")
    /\ pc[t] = "walk" => op[t] # "guarded"
    /\ op[t] = "guarded" => want[t] # Catalog

\* The OS locks and the threads' positions agree.
OsLockInv ==
  \A t \in Thread, l \in LockName :
    /\ Inside(t, l) => osLock[l] = t
    /\ osLock[l] = t =>
         Inside(t, l) \/ (want[t] = l /\ pc[t] \in {"discard", "drop"})

\* A token about to be handed out is newer than every token handed out for
\* that execution, and survives a power loss before it is handed out.
TokenInv ==
  /\ \A e \in Execution : issued[e] <= fenceDisk[e] /\ fenceDisk[e] <= fence[e]
  /\ \A t \in Thread :
       want[t] # Catalog =>
         /\ pc[t] = "sync" =>
              token[t] = fence[want[t]] /\ token[t] > issued[want[t]]
         /\ pc[t] = "register" =>
              token[t] = fenceDisk[want[t]] /\ token[t] > issued[want[t]]

\* The inductive core of what the manager promises.
OwnershipInv == PlaceInv /\ OsLockInv /\ TokenInv

\* Even if no deadline ever passes, and whoever dies, every operation comes to its end.
OperationsTerminate == \A t \in Thread : pc[t] # "idle" ~> pc[t] = "idle"
=============================================================================
