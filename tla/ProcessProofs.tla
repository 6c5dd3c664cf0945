--------------------------- MODULE ProcessProofs ---------------------------
(***************************************************************************)
(* What processes that share nothing but files may rely on: one writer at  *)
(* a time, what it leaves behind is replayed, and who cancels may trust    *)
(* what he sees.                                                           *)
(*                                                                         *)
(* The lock manager keeps its types, is deadlock free by lock order, and   *)
(* implements the fenced lock, for every set of threads, processes and     *)
(* executions: one holder of an execution's lock, with tokens that never   *)
(* decrease.                                                               *)
(*                                                                         *)
(* On this the sessions of the state machine stand, which write the token  *)
(* into each event.  For every bound on revisions, clock readings and      *)
(* failures: types, that replay never fails, that evidence matches, and    *)
(* that the snapshot lives the life ExecutionLife describes.               *)
(*                                                                         *)
(* Cancellers do not wait for the lock.  One that has found the execution  *)
(* quiescent is right and stays right, one decision stands for all of      *)
(* them, and the slot covers every process: for every number of            *)
(* cancellers, commands and faults.                                        *)
(***************************************************************************)
EXTENDS LockManager, StateMachine, Cancellation, TLAPS

-----------------------------------------------------------------------------
(* The lock manager.                                                       *)

USE DEF GoTo, Ask, threadVars, registry, fences, bounds, vars

-----------------------------------------------------------------------------
(* Types, and the positions they depend on.                                *)

\* Every thread starts idle, in its place.
LEMMA PlaceInit == Init => TypeOK /\ PlaceInv
  BY DEF Init, TypeOK, PlaceInv, Places, Operations, LockName

\* Every step leaves every thread in a place that fits its operation and the lock it wants.
LEMMA PlaceStep == TypeOK /\ PlaceInv /\ [Next]_vars => TypeOK' /\ PlaceInv'
  <2> SUFFICES ASSUME TypeOK, PlaceInv, [Next]_vars PROVE (TypeOK /\ PlaceInv)'
    OBVIOUS
  <2> USE DEF TypeOK, PlaceInv, Places, Operations, LockName
  <2> USE ThreadsBelong, BoundsAreNat, CatalogIsApart
  <2>1. ASSUME NEW t \in Thread, NEW e \in Execution, BeginGuarded(t, e)
        PROVE (TypeOK /\ PlaceInv)'
    BY <2>1 DEF BeginGuarded
  <2>2. ASSUME NEW t \in Thread, NEW e \in Execution, BeginCreate(t, e)
        PROVE (TypeOK /\ PlaceInv)'
    BY <2>2 DEF BeginCreate
  <2>3. ASSUME NEW t \in Thread, BeginList(t)
        PROVE (TypeOK /\ PlaceInv)'
    BY <2>3 DEF BeginList
  <2>4. ASSUME NEW t \in Thread, Walk(t)
        PROVE (TypeOK /\ PlaceInv)'
    <3>1. CASE todo[t] # {}
      <4>1. PICK e \in todo[t] :
              /\ todo' = [todo EXCEPT ![t] = @ \ {e}]
              /\ want' = [want EXCEPT ![t] = e]
              /\ pc' = [pc EXCEPT ![t] = "reserve"]
        BY <2>4, <3>1 DEF Walk
      <4>2. UNCHANGED <<op, seen, token, pending, active, osLock, fence,
                        fenceDisk, issued, created, ops, faults>>
        BY <2>4 DEF Walk
      <4>3. pc[t] = "walk"
        BY <2>4 DEF Walk
      <4>4. e \in Execution
        OBVIOUS
      <4>5. TypeOK'
        BY <4>1, <4>2, <4>4
      <4>6. PlaceInv'
        BY <4>1, <4>2, <4>3, <4>4
      <4>7. QED BY <4>5, <4>6
    <3>2. CASE todo[t] = {}
      BY <2>4, <3>2 DEF Walk
    <3>3. QED BY <3>1, <3>2
  <2>5. ASSUME NEW t \in Thread, Body(t)
        PROVE (TypeOK /\ PlaceInv)'
    <3>1. TypeOK'
      BY SMTT(30), <2>5 DEF Body
    <3>2. PlaceInv'
      BY SMTT(30), <2>5 DEF Body
    <3>3. QED  BY <3>1, <3>2
  <2>6. ASSUME NEW t \in Thread, Reserve(t)
        PROVE (TypeOK /\ PlaceInv)'
    <3>1. TypeOK'
      BY SMTT(30), <2>6 DEF Reserve
    <3>2. PlaceInv'
      BY SMTT(30), <2>6 DEF Reserve
    <3>3. QED  BY <3>1, <3>2
  <2>7. ASSUME NEW t \in Thread, Refuse(t)
        PROVE (TypeOK /\ PlaceInv)'
    <3>1. TypeOK'
      BY SMTT(30), <2>7 DEF Refuse, Leave
    <3>2. PlaceInv'
      BY SMTT(30), <2>7 DEF Refuse, Leave
    <3>3. QED  BY <3>1, <3>2
  <2>8. ASSUME NEW t \in Thread, TakeOsLock(t)
        PROVE (TypeOK /\ PlaceInv)'
    <3>1. TypeOK'
      BY SMTT(30), <2>8 DEF TakeOsLock
    <3>2. PlaceInv'
      BY SMTT(30), <2>8 DEF TakeOsLock
    <3>3. QED  BY <3>1, <3>2
  <2>9. ASSUME NEW t \in Thread, TimeOut(t)
        PROVE (TypeOK /\ PlaceInv)'
    <3>1. TypeOK'
      BY SMTT(30), <2>9 DEF TimeOut
    <3>2. PlaceInv'
      BY SMTT(30), <2>9 DEF TimeOut
    <3>3. QED  BY <3>1, <3>2
  <2>10. ASSUME NEW t \in Thread, AdvanceFence(t)
        PROVE (TypeOK /\ PlaceInv)'
    <3>1. TypeOK'
      BY SMTT(30), <2>10 DEF AdvanceFence
    <3>2. PlaceInv'
      BY SMTT(30), <2>10 DEF AdvanceFence
    <3>3. QED  BY <3>1, <3>2
  <2>11. ASSUME NEW t \in Thread, SyncFence(t)
        PROVE (TypeOK /\ PlaceInv)'
    <3>1. TypeOK'
      BY SMTT(30), <2>11 DEF SyncFence
    <3>2. PlaceInv'
      BY SMTT(30), <2>11 DEF SyncFence
    <3>3. QED  BY <3>1, <3>2
  <2>12. ASSUME NEW t \in Thread, FenceFails(t)
        PROVE (TypeOK /\ PlaceInv)'
    <3>1. TypeOK'
      BY SMTT(30), <2>12 DEF FenceFails
    <3>2. PlaceInv'
      BY SMTT(30), <2>12 DEF FenceFails
    <3>3. QED  BY <3>1, <3>2
  <2>13. ASSUME NEW t \in Thread, Register(t)
        PROVE (TypeOK /\ PlaceInv)'
    <3>1. TypeOK'
      BY SMTT(30), <2>13 DEF Register
    <3>2. PlaceInv'
      BY SMTT(30), <2>13 DEF Register
    <3>3. QED  BY <3>1, <3>2
  <2>14. ASSUME NEW t \in Thread, Discard(t)
        PROVE (TypeOK /\ PlaceInv)'
    <3>1. TypeOK'
      BY SMTT(30), <2>14 DEF Discard
    <3>2. PlaceInv'
      BY SMTT(30), <2>14 DEF Discard
    <3>3. QED  BY <3>1, <3>2
  <2>15. ASSUME NEW t \in Thread, Drop(t)
        PROVE (TypeOK /\ PlaceInv)'
    <3>1. TypeOK'
      BY SMTT(30), <2>15 DEF Drop, Leave
    <3>2. PlaceInv'
      BY SMTT(30), <2>15 DEF Drop, Leave
    <3>3. QED  BY <3>1, <3>2
  <2>16. ASSUME NEW t \in Thread, Unlock(t)
        PROVE (TypeOK /\ PlaceInv)'
    <3>1. TypeOK'
      BY SMTT(30), <2>16 DEF Unlock
    <3>2. PlaceInv'
      BY SMTT(30), <2>16 DEF Unlock
    <3>3. QED  BY <3>1, <3>2
  <2>17. ASSUME NEW t \in Thread, Unregister(t)
        PROVE (TypeOK /\ PlaceInv)'
    <3>1. TypeOK'
      BY SMTT(30), <2>17 DEF Unregister, Leave
    <3>2. PlaceInv'
      BY SMTT(30), <2>17 DEF Unregister, Leave
    <3>3. QED  BY <3>1, <3>2
  <2>18. ASSUME NEW m \in Manager, Crash(m) PROVE (TypeOK /\ PlaceInv)'
    <3>1. TypeOK'
      BY SMTT(30), <2>18 DEF Crash, Die
    <3>2. PlaceInv'
      BY SMTT(30), <2>18 DEF Crash, Die
    <3>3. QED  BY <3>1, <3>2
  <2>19. CASE PowerLoss
    <3>1. TypeOK'
      BY SMTT(30), <2>19 DEF PowerLoss, Die
    <3>2. PlaceInv'
      BY SMTT(30), <2>19 DEF PowerLoss, Die
    <3>3. QED  BY <3>1, <3>2
  <2>20. CASE UNCHANGED vars
    <3>1. TypeOK'
      BY SMTT(30), <2>20
    <3>2. PlaceInv'
      BY SMTT(30), <2>20
    <3>3. QED  BY <3>1, <3>2
  <2>21. QED
    BY <2>1, <2>2, <2>3, <2>4, <2>5, <2>6, <2>7, <2>8, <2>9, <2>10, <2>11, <2>12, <2>13, <2>14, <2>15, <2>16, <2>17, <2>18, <2>19, <2>20
       DEF Next, Begin, Acquiring, Using, Fault

\* The variables of LockManager always have their types, and a thread that
\* advances a fence or runs an operation's body does so on an execution.
THEOREM LockTypeOK == Spec => [](TypeOK /\ PlaceInv)
  BY PlaceInit, PlaceStep, PTL DEF Spec

-----------------------------------------------------------------------------
(* Ownership of the OS locks.                                              *)

\* At the start nobody owns an OS lock.
LEMMA OsLockInit == Init => OsLockInv
  BY NobodyIsApart DEF Init, OsLockInv, Inside, LockName

\* Who is past the poll owns the OS lock it wants, after a failed step and a death too.
LEMMA OsLockStep ==
  TypeOK /\ PlaceInv /\ OsLockInv /\ [Next]_vars => OsLockInv'
  <2> SUFFICES ASSUME TypeOK, PlaceInv, OsLockInv, [Next]_vars
               PROVE OsLockInv'
    OBVIOUS
  <2> USE DEF TypeOK, PlaceInv, OsLockInv, Inside, Places, Operations, LockName
  <2> USE ThreadsBelong, NobodyIsApart, CatalogIsApart
  <2>1. ASSUME NEW t \in Thread, NEW e \in Execution, BeginGuarded(t, e)
        PROVE OsLockInv'
    BY <2>1 DEF BeginGuarded
  <2>2. ASSUME NEW t \in Thread, NEW e \in Execution, BeginCreate(t, e)
        PROVE OsLockInv'
    BY <2>2 DEF BeginCreate
  <2>3. ASSUME NEW t \in Thread, BeginList(t)
        PROVE OsLockInv'
    BY <2>3 DEF BeginList
  <2>4. ASSUME NEW t \in Thread, Walk(t)
        PROVE OsLockInv'
    BY <2>4 DEF Walk
  <2>5. ASSUME NEW t \in Thread, Body(t)
        PROVE OsLockInv'
    BY <2>5 DEF Body
  <2>6. ASSUME NEW t \in Thread, Reserve(t)
        PROVE OsLockInv'
    BY <2>6 DEF Reserve
  <2>7. ASSUME NEW t \in Thread, Refuse(t)
        PROVE OsLockInv'
    BY <2>7 DEF Refuse, Leave
  <2>8. ASSUME NEW t \in Thread, TakeOsLock(t)
        PROVE OsLockInv'
    BY <2>8 DEF TakeOsLock
  <2>9. ASSUME NEW t \in Thread, TimeOut(t)
        PROVE OsLockInv'
    BY <2>9 DEF TimeOut
  <2>10. ASSUME NEW t \in Thread, AdvanceFence(t)
        PROVE OsLockInv'
    BY <2>10 DEF AdvanceFence
  <2>11. ASSUME NEW t \in Thread, SyncFence(t)
        PROVE OsLockInv'
    BY <2>11 DEF SyncFence
  <2>12. ASSUME NEW t \in Thread, FenceFails(t)
        PROVE OsLockInv'
    BY <2>12 DEF FenceFails
  <2>13. ASSUME NEW t \in Thread, Register(t)
        PROVE OsLockInv'
    BY <2>13 DEF Register
  <2>14. ASSUME NEW t \in Thread, Discard(t)
        PROVE OsLockInv'
    BY <2>14 DEF Discard
  <2>15. ASSUME NEW t \in Thread, Drop(t)
        PROVE OsLockInv'
    BY <2>15 DEF Drop, Leave
  <2>16. ASSUME NEW t \in Thread, Unlock(t)
        PROVE OsLockInv'
    BY <2>16 DEF Unlock
  <2>17. ASSUME NEW t \in Thread, Unregister(t)
        PROVE OsLockInv'
    BY <2>17 DEF Unregister
  <2>18. ASSUME NEW m \in Manager, Crash(m) PROVE OsLockInv'
    BY <2>18 DEF Crash, Die
  <2>19. CASE PowerLoss
    BY <2>19 DEF PowerLoss, Die
  <2>20. CASE UNCHANGED vars
    BY <2>20
  <2>21. QED
    BY <2>1, <2>2, <2>3, <2>4, <2>5, <2>6, <2>7, <2>8, <2>9, <2>10, <2>11, <2>12, <2>13, <2>14, <2>15, <2>16, <2>17, <2>18, <2>19, <2>20
       DEF Next, Begin, Acquiring, Using, Fault

-----------------------------------------------------------------------------
(* Fencing tokens.                                                         *)

\* At the start no token was handed out.
LEMMA TokenInit == Init => TokenInv
  BY DEF Init, TokenInv, LockName

\* Tokens come from the fence on disk: none is handed out twice, whatever a power loss takes back.
LEMMA TokenStep ==
  TypeOK /\ PlaceInv /\ OsLockInv /\ TokenInv /\ [Next]_vars => TokenInv'
  <2> SUFFICES ASSUME TypeOK, PlaceInv, OsLockInv, TokenInv, [Next]_vars
               PROVE TokenInv'
    OBVIOUS
  <2> USE DEF TypeOK, PlaceInv, OsLockInv, TokenInv, Inside, Places, Operations,
              LockName
  <2> USE ThreadsBelong, CatalogIsApart
  <2>1. ASSUME NEW t \in Thread, NEW e \in Execution, BeginGuarded(t, e)
        PROVE TokenInv'
    BY <2>1 DEF BeginGuarded
  <2>2. ASSUME NEW t \in Thread, NEW e \in Execution, BeginCreate(t, e)
        PROVE TokenInv'
    BY <2>2 DEF BeginCreate
  <2>3. ASSUME NEW t \in Thread, BeginList(t)
        PROVE TokenInv'
    BY <2>3 DEF BeginList
  <2>4. ASSUME NEW t \in Thread, Walk(t)
        PROVE TokenInv'
    BY <2>4 DEF Walk
  <2>5. ASSUME NEW t \in Thread, Body(t)
        PROVE TokenInv'
    BY <2>5 DEF Body
  <2>6. ASSUME NEW t \in Thread, Reserve(t)
        PROVE TokenInv'
    BY <2>6 DEF Reserve
  <2>7. ASSUME NEW t \in Thread, Refuse(t)
        PROVE TokenInv'
    BY <2>7 DEF Refuse, Leave
  <2>8. ASSUME NEW t \in Thread, TakeOsLock(t)
        PROVE TokenInv'
    BY <2>8 DEF TakeOsLock
  <2>9. ASSUME NEW t \in Thread, TimeOut(t)
        PROVE TokenInv'
    BY <2>9 DEF TimeOut
  <2>10. ASSUME NEW t \in Thread, AdvanceFence(t)
        PROVE TokenInv'
    BY <2>10 DEF AdvanceFence
  <2>11. ASSUME NEW t \in Thread, SyncFence(t)
        PROVE TokenInv'
    BY <2>11 DEF SyncFence
  <2>12. ASSUME NEW t \in Thread, FenceFails(t)
        PROVE TokenInv'
    BY <2>12 DEF FenceFails
  <2>13. ASSUME NEW t \in Thread, Register(t)
        PROVE TokenInv'
    <3>1. CASE want[t] = Catalog
      BY <2>13, <3>1 DEF Register
    <3>2. CASE want[t] # Catalog
      <4>1. /\ pc[t] = "register"
            /\ issued' = [issued EXCEPT ![want[t]] = token[t]]
            /\ pc' = [pc EXCEPT ![t] = "body"]
            /\ UNCHANGED <<want, token, fence, fenceDisk>>
        BY <2>13, <3>2 DEF Register
      <4>2. ASSUME NEW u \in Thread, u # t, pc[u] \in {"sync", "register"}
            PROVE want[u] # want[t]
        BY <4>1, <4>2
      <4>3. QED BY <3>2, <4>1, <4>2
    <3>3. QED BY <3>1, <3>2
  <2>14. ASSUME NEW t \in Thread, Discard(t)
        PROVE TokenInv'
    BY <2>14 DEF Discard
  <2>15. ASSUME NEW t \in Thread, Drop(t)
        PROVE TokenInv'
    BY <2>15 DEF Drop, Leave
  <2>16. ASSUME NEW t \in Thread, Unlock(t)
        PROVE TokenInv'
    BY <2>16 DEF Unlock
  <2>17. ASSUME NEW t \in Thread, Unregister(t)
        PROVE TokenInv'
    BY <2>17 DEF Unregister
  <2>18. ASSUME NEW m \in Manager, Crash(m) PROVE TokenInv'
    BY <2>18 DEF Crash, Die
  <2>19. CASE PowerLoss
    BY <2>19 DEF PowerLoss, Die
  <2>20. CASE UNCHANGED vars
    BY <2>20
  <2>21. QED
    BY <2>1, <2>2, <2>3, <2>4, <2>5, <2>6, <2>7, <2>8, <2>9, <2>10, <2>11, <2>12, <2>13, <2>14, <2>15, <2>16, <2>17, <2>18, <2>19, <2>20
       DEF Next, Begin, Acquiring, Using, Fault

\* OS locks and threads' positions agree, and a token about to be handed out
\* is newer than all before it and already durable.
THEOREM LockOwnership == Spec => []OwnershipInv
  BY PlaceInit, PlaceStep, OsLockInit, OsLockStep, TokenInit, TokenStep, PTL
     DEF Spec, OwnershipInv

-----------------------------------------------------------------------------
(* Lock order.                                                             *)

\* Threads never wait for each other in a circle: whoever owns the OS lock of
\* an execution waits for nothing, and whoever owns the catalog's waits only
\* for an execution.
THEOREM LockNoCircularWait == Spec => []NoCircularWait
<1>1. TypeOK /\ OsLockInv => NoCircularWait
  <2> SUFFICES ASSUME TypeOK, OsLockInv, NEW S \in SUBSET Thread, S # {},
                      \A t \in S : pc[t] = "poll" /\ osLock[want[t]] \in S
               PROVE FALSE
    BY DEF NoCircularWait
  <2> USE DEF TypeOK, OsLockInv, Inside, LockName
  <2>1. PICK t \in S : TRUE
    OBVIOUS
  <2>2. \A u \in S : want[u] = Catalog
    \* The owner of an execution's OS lock is past its poll for it.
    BY CatalogIsApart
  <2>3. osLock[Catalog] \in S
    BY <2>1, <2>2
  <2>4. want[osLock[Catalog]] # Catalog
    BY <2>3
  <2>5. QED BY <2>2, <2>3, <2>4
<1>2. QED
  BY <1>1, PlaceInit, PlaceStep, OsLockInit, OsLockStep, PTL DEF Spec

-----------------------------------------------------------------------------
(* The listing.                                                            *)

\* What a listing has read and has still to read are the existing executions.
ListInv ==
  \A t \in Thread :
    op[t] = "list" =>
      /\ pc[t] = "walk" => seen[t] \cup todo[t] = created
      /\ want[t] # Catalog /\ pc[t] \in {"unlock", "unregister"}
           => seen[t] \cup todo[t] = created
      /\ want[t] # Catalog
         /\ pc[t] \in {"reserve", "poll", "fence", "sync", "register", "body"}
           => seen[t] \cup todo[t] \cup {want[t]} = created
      /\ want[t] = Catalog /\ pc[t] \in {"reserve", "poll", "register"}
           => seen[t] = {}

\* At the start nobody lists.
LEMMA ListInit == Init => ListInv
  BY DEF Init, ListInv

\* list_executions: what was seen, is in hand and is yet to do are what exists.
LEMMA ListStep ==
  TypeOK /\ PlaceInv /\ OsLockInv /\ ListInv /\ [Next]_vars => ListInv'
  <2> SUFFICES ASSUME TypeOK, PlaceInv, OsLockInv, ListInv, [Next]_vars
               PROVE ListInv'
    OBVIOUS
  <2> USE DEF TypeOK, PlaceInv, OsLockInv, ListInv, Inside, Places, Operations,
              LockName
  <2> USE ThreadsBelong, CatalogIsApart
  <2>1. ASSUME NEW t \in Thread, NEW e \in Execution, BeginGuarded(t, e)
        PROVE ListInv'
    BY <2>1 DEF BeginGuarded
  <2>2. ASSUME NEW t \in Thread, NEW e \in Execution, BeginCreate(t, e)
        PROVE ListInv'
    BY <2>2 DEF BeginCreate
  <2>3. ASSUME NEW t \in Thread, BeginList(t)
        PROVE ListInv'
    BY <2>3 DEF BeginList
  <2>4. ASSUME NEW t \in Thread, Walk(t)
        PROVE ListInv'
    BY <2>4 DEF Walk
  <2>5. ASSUME NEW t \in Thread, Body(t)
        PROVE ListInv'
    BY <2>5 DEF Body
  <2>6. ASSUME NEW t \in Thread, Reserve(t)
        PROVE ListInv'
    BY <2>6 DEF Reserve
  <2>7. ASSUME NEW t \in Thread, Refuse(t)
        PROVE ListInv'
    BY <2>7 DEF Refuse, Leave
  <2>8. ASSUME NEW t \in Thread, TakeOsLock(t)
        PROVE ListInv'
    BY <2>8 DEF TakeOsLock
  <2>9. ASSUME NEW t \in Thread, TimeOut(t)
        PROVE ListInv'
    BY <2>9 DEF TimeOut
  <2>10. ASSUME NEW t \in Thread, AdvanceFence(t)
        PROVE ListInv'
    BY <2>10 DEF AdvanceFence
  <2>11. ASSUME NEW t \in Thread, SyncFence(t)
        PROVE ListInv'
    BY <2>11 DEF SyncFence
  <2>12. ASSUME NEW t \in Thread, FenceFails(t)
        PROVE ListInv'
    BY <2>12 DEF FenceFails
  <2>13. ASSUME NEW t \in Thread, Register(t)
        PROVE ListInv'
    BY <2>13 DEF Register
  <2>14. ASSUME NEW t \in Thread, Discard(t)
        PROVE ListInv'
    BY <2>14 DEF Discard
  <2>15. ASSUME NEW t \in Thread, Drop(t)
        PROVE ListInv'
    BY <2>15 DEF Drop, Leave
  <2>16. ASSUME NEW t \in Thread, Unlock(t)
        PROVE ListInv'
    BY <2>16 DEF Unlock
  <2>17. ASSUME NEW t \in Thread, Unregister(t)
        PROVE ListInv'
    BY <2>17 DEF Unregister
  <2>18. ASSUME NEW m \in Manager, Crash(m) PROVE ListInv'
    BY <2>18 DEF Crash, Die
  <2>19. CASE PowerLoss
    BY <2>19 DEF PowerLoss, Die
  <2>20. CASE UNCHANGED vars
    BY <2>20
  <2>21. QED
    BY <2>1, <2>2, <2>3, <2>4, <2>5, <2>6, <2>7, <2>8, <2>9, <2>10, <2>11, <2>12, <2>13, <2>14, <2>15, <2>16, <2>17, <2>18, <2>19, <2>20
       DEF Next, Begin, Acquiring, Using, Fault

\* list_executions returns exactly the executions that exist when it returns.
THEOREM LockListingIsExact == Spec => []ListingIsExact
<1>1. ListInv => ListingIsExact
  BY DEF ListInv, ListingIsExact
<1>2. QED
  BY <1>1, PlaceInit, PlaceStep, OsLockInit, OsLockStep, ListInit, ListStep, PTL
     DEF Spec

-----------------------------------------------------------------------------
(* Refinement.                                                             *)

\* The refinement mapping of Promise, named.
holders == [e \in Execution |-> {t \in Thread : Holds(t, e)}]

\* A grant is a step of the fenced lock.
LEMMA GrantIsAStep ==
  ASSUME NEW t \in Thread, NEW e \in Execution, Promise!Grant(t, e)
  PROVE Promise!FencedNext
  BY Zenon DEF Promise!FencedNext

\* The registration of a handle under the OS lock is such a grant, with a newer token.
LEMMA RegisterGrants ==
  ASSUME TypeOK, OsLockInv, TokenInv, NEW t \in Thread, Register(t),
         want[t] # Catalog
  PROVE Promise!FencedNext
<1> DEFINE e == want[t]
<1>1. /\ e \in Execution
      /\ pc[t] = "register"
      /\ issued' = [issued EXCEPT ![e] = token[t]]
      /\ pc' = [pc EXCEPT ![t] = "body"]
      /\ want' = want
  BY DEF Register, TypeOK, LockName
<1>2. \A u \in Thread : u # t => ~ Holds(u, e)
  BY <1>1, CatalogIsApart DEF OsLockInv, Inside, Holds, LockName
<1>3. \A f \in Execution : ~ Holds(t, f) /\ (Holds(t, f)' <=> f = e)
  BY <1>1 DEF Holds, TypeOK
<1>4. \A u \in Thread, f \in Execution :
         u # t => (Holds(u, f)' <=> Holds(u, f))
  BY <1>1 DEF Holds, TypeOK
<1>5. holders[e] = {}
  BY <1>1, <1>2, <1>3 DEF holders
<1>6. holders' = [holders EXCEPT ![e] = {t}]
  <2>1. ASSUME NEW f \in Execution
        PROVE holders'[f] = IF f = e THEN {t} ELSE holders[f]
    <3>1. CASE f = e
      BY <1>1, <1>2, <1>3, <1>4, <3>1 DEF holders
    <3>2. CASE f # e
      BY <1>3, <1>4, <3>2 DEF holders
    <3>3. QED BY <3>1, <3>2
  <2>2. QED BY <2>1 DEF holders
<1>7. /\ issued'[e] \in Nat /\ issued'[e] > issued[e]
      /\ issued' = [issued EXCEPT ![e] = issued'[e]]
  BY <1>1 DEF TypeOK, TokenInv
<1>8. Promise!Grant(t, e)
  BY <1>5, <1>6, <1>7 DEF Promise!Grant, holders
<1> HIDE DEF e
<1>9. e \in Execution
  BY <1>1
<1>10. QED
  BY <1>8, <1>9, GrantIsAStep

\* Registering the handle of an execution is the grant, dropping its OS lock
\* the yield, a crash the yield of all the threads that died; no other step
\* shows.
LEMMA PromiseStep ==
  TypeOK /\ PlaceInv /\ OsLockInv /\ TokenInv /\ [Next]_vars
    => [Promise!FencedNext]_(Promise!fencedVars)
  <2> SUFFICES ASSUME TypeOK, PlaceInv, OsLockInv, TokenInv, [Next]_vars
               PROVE Promise!FencedNext \/ UNCHANGED <<holders, issued>>
    BY DEF Promise!fencedVars, holders
  <2> USE DEF TypeOK, PlaceInv, OsLockInv, TokenInv, Inside, LockName, holders,
              Holds
  <2> USE ThreadsBelong, CatalogIsApart, NobodyIsApart
  <2> DEFINE Idle == UNCHANGED <<holders, issued>>
  <2>1. ASSUME NEW t \in Thread, NEW e \in Execution, BeginGuarded(t, e)
        PROVE Idle
    BY <2>1 DEF BeginGuarded
  <2>2. ASSUME NEW t \in Thread, NEW e \in Execution, BeginCreate(t, e)
        PROVE Idle
    BY <2>2 DEF BeginCreate
  <2>3. ASSUME NEW t \in Thread, BeginList(t)
        PROVE Idle
    BY <2>3 DEF BeginList
  <2>4. ASSUME NEW t \in Thread, Walk(t)
        PROVE Idle
    BY <2>4 DEF Walk
  <2>5. ASSUME NEW t \in Thread, Body(t)
        PROVE Idle
    BY <2>5 DEF Body
  <2>6. ASSUME NEW t \in Thread, Reserve(t)
        PROVE Idle
    BY <2>6 DEF Reserve
  <2>7. ASSUME NEW t \in Thread, Refuse(t)
        PROVE Idle
    BY <2>7 DEF Refuse, Leave
  <2>8. ASSUME NEW t \in Thread, TakeOsLock(t)
        PROVE Idle
    BY <2>8 DEF TakeOsLock
  <2>9. ASSUME NEW t \in Thread, TimeOut(t)
        PROVE Idle
    BY <2>9 DEF TimeOut
  <2>10. ASSUME NEW t \in Thread, AdvanceFence(t)
        PROVE Idle
    BY <2>10 DEF AdvanceFence
  <2>11. ASSUME NEW t \in Thread, SyncFence(t)
        PROVE Idle
    BY <2>11 DEF SyncFence
  <2>12. ASSUME NEW t \in Thread, FenceFails(t)
        PROVE Idle
    BY <2>12 DEF FenceFails
  <2>13. ASSUME NEW t \in Thread, Discard(t)
        PROVE Idle
    BY <2>13 DEF Discard
  <2>14. ASSUME NEW t \in Thread, Drop(t)
        PROVE Idle
    BY <2>14 DEF Drop, Leave
  <2>15. ASSUME NEW t \in Thread, Unregister(t)
        PROVE Idle
    BY <2>15 DEF Unregister
  <2>16. ASSUME NEW t \in Thread, Register(t)
        PROVE Promise!FencedNext \/ Idle
    <3>1. CASE want[t] = Catalog
      BY <2>16, <3>1 DEF Register
    <3>2. CASE want[t] # Catalog
      BY <2>16, <3>2, RegisterGrants
    <3>3. QED BY <3>1, <3>2
  <2>17. ASSUME NEW t \in Thread, Unlock(t)
        PROVE Promise!FencedNext
    <3>1. /\ pc[t] = "unlock"
          /\ pc' = [pc EXCEPT ![t] = "unregister"]
          /\ UNCHANGED <<want, issued>>
      BY <2>17 DEF Unlock
    <3>2. \A u \in Thread, e \in Execution :
             u # t \/ want[t] # e => (Holds(u, e)' <=> Holds(u, e))
      BY <3>1
    <3>3. \A e \in Execution : holders'[e] = holders[e] \ {t}
      BY <3>1
    <3>4. Promise!Yield({t})
      BY <3>1, <3>3 DEF Promise!Yield
    <3>5. QED BY <3>4 DEF Promise!FencedNext
  <2>18. ASSUME NEW dying \in SUBSET Manager, Die(dying)
        PROVE Promise!FencedNext
    <3> DEFINE gone == {t \in Thread : ManagerOf[t] \in dying}
    <3>1. /\ pc' = [t \in Thread |-> IF t \in gone THEN "idle" ELSE pc[t]]
          /\ want' = [t \in Thread |-> IF t \in gone THEN Catalog ELSE want[t]]
          /\ UNCHANGED issued
      BY <2>18 DEF Die
    <3>2. \A e \in Execution : holders'[e] = holders[e] \ gone
      BY <3>1
    <3>3. Promise!Yield(gone)
      BY <3>1, <3>2 DEF Promise!Yield
    <3>4. gone \in SUBSET Thread
      OBVIOUS
    <3>5. QED BY <3>3, <3>4 DEF Promise!FencedNext
  <2>19. ASSUME NEW m \in Manager, Crash(m) PROVE Promise!FencedNext
    BY <2>18, <2>19 DEF Crash
  <2>20. CASE PowerLoss
    BY <2>18, <2>20 DEF PowerLoss
  <2>21. CASE UNCHANGED vars
    BY <2>21 DEF vars, threadVars, fences
  <2>22. QED
    BY <2>1, <2>2, <2>3, <2>4, <2>5, <2>6, <2>7, <2>8, <2>9, <2>10, <2>11, <2>12, <2>13, <2>14, <2>15, <2>16, <2>17, <2>19, <2>20, <2>21
       DEF Next, Begin, Acquiring, Using, Fault

\* The lock manager implements the fenced lock for any number of processes,
\* threads and executions: at most one holder of an execution, and every
\* token granted for it greater than all the tokens granted before.
THEOREM LockImplementsFencedLock == Spec => ImplementsFencedLock
<1>1. Init => Promise!FencedInit
  BY DEF Init, Promise!FencedInit, Holds
<1>2. QED
  BY <1>1, PlaceInit, PlaceStep, OsLockInit, OsLockStep, TokenInit, TokenStep,
     PromiseStep, PTL
     DEF Spec, ImplementsFencedLock, Promise!FencedSpec

-----------------------------------------------------------------------------
(* The in-memory registry.                                                 *)

\* What thread t may do to the registry: what it stood for it gives back or still stands
\* for, it adds what it now stands for, and it disturbs nobody else.
MovesRegistration(t) ==
  /\ \A u \in Thread \ {t} : pc'[u] = pc[u] /\ want'[u] = want[u] /\ op'[u] = op[u]
  /\ \A l \in LockName :
       /\ Reserving(t, l) => Reserving(t, l)' \/ l \notin pending'[ManagerOf[t]]
       /\ Registered(t, l) => Registered(t, l)' \/ l \notin active'[ManagerOf[t]]
  /\ \A m \in Manager, l \in LockName :
       /\ l \in pending'[m] => l \in pending[m] \/ (m = ManagerOf[t] /\ Reserving(t, l)')
       /\ l \in active'[m] => l \in active[m] \/ (m = ManagerOf[t] /\ Registered(t, l)')

\* A thread that moves its own registrations leaves none behind.
LEMMA MovesKeepRegistry ==
  ASSUME NEW t \in Thread, MovesRegistration(t), NoLeakedRegistration
  PROVE  NoLeakedRegistration'
<1> SUFFICES ASSUME NEW m \in Manager, NEW l \in LockName
             PROVE  /\ l \in pending'[m] =>
                         \E u \in Thread : ManagerOf[u] = m /\ Reserving(u, l)'
                    /\ l \in active'[m] =>
                         \E u \in Thread : ManagerOf[u] = m /\ Registered(u, l)'
  BY DEF NoLeakedRegistration
<1>1. ASSUME l \in pending'[m]
      PROVE  \E u \in Thread : ManagerOf[u] = m /\ Reserving(u, l)'
  <2>1. CASE m = ManagerOf[t] /\ Reserving(t, l)'
    BY <2>1
  <2>2. CASE l \in pending[m]
    <3>1. PICK u \in Thread : ManagerOf[u] = m /\ Reserving(u, l)
      BY <2>2 DEF NoLeakedRegistration
    <3> QED
      BY <1>1, <3>1 DEF MovesRegistration, Reserving
  <2> QED
    BY <1>1, <2>1, <2>2 DEF MovesRegistration
<1>2. ASSUME l \in active'[m]
      PROVE  \E u \in Thread : ManagerOf[u] = m /\ Registered(u, l)'
  <2>1. CASE m = ManagerOf[t] /\ Registered(t, l)'
    BY <2>1
  <2>2. CASE l \in active[m]
    <3>1. PICK u \in Thread : ManagerOf[u] = m /\ Registered(u, l)
      BY <2>2 DEF NoLeakedRegistration
    <3> QED
      BY <1>2, <3>1 DEF MovesRegistration, Registered
  <2> QED
    BY <1>2, <2>1, <2>2 DEF MovesRegistration
<1> QED
  BY <1>1, <1>2

\* Every way in and out of acquire, release and list_executions, a failed one and a death
\* included, moves a registration together with the thread that it stands for.
LEMMA RegistryStep ==
  ASSUME TypeOK, PlaceInv, NoLeakedRegistration, [Next]_vars
  PROVE  NoLeakedRegistration'
<1> USE DEF TypeOK, PlaceInv, Reserving, Registered, MovesRegistration, Places,
            Operations, LockName
<1> USE ThreadsBelong, CatalogIsApart
<1>1. ASSUME NEW t \in Thread, NEW e \in Execution, BeginGuarded(t, e)
      PROVE  MovesRegistration(t)
  BY <1>1 DEF BeginGuarded
<1>2. ASSUME NEW t \in Thread, NEW e \in Execution, BeginCreate(t, e)
      PROVE  MovesRegistration(t)
  BY <1>2 DEF BeginCreate
<1>3. ASSUME NEW t \in Thread, BeginList(t)
      PROVE  MovesRegistration(t)
  BY <1>3 DEF BeginList
<1>4. ASSUME NEW t \in Thread, Walk(t)
      PROVE  MovesRegistration(t)
  BY <1>4 DEF Walk
<1>5. ASSUME NEW t \in Thread, Body(t)
      PROVE  MovesRegistration(t)
  BY <1>5 DEF Body
<1>6. ASSUME NEW t \in Thread, Reserve(t)
      PROVE  MovesRegistration(t)
  BY <1>6 DEF Reserve
<1>7. ASSUME NEW t \in Thread, Refuse(t)
      PROVE  MovesRegistration(t)
  BY <1>7 DEF Refuse, Leave
<1>8. ASSUME NEW t \in Thread, TakeOsLock(t)
      PROVE  MovesRegistration(t)
  BY <1>8 DEF TakeOsLock
<1>9. ASSUME NEW t \in Thread, TimeOut(t)
      PROVE  MovesRegistration(t)
  BY <1>9 DEF TimeOut
<1>10. ASSUME NEW t \in Thread, AdvanceFence(t)
      PROVE  MovesRegistration(t)
  BY <1>10 DEF AdvanceFence
<1>11. ASSUME NEW t \in Thread, SyncFence(t)
      PROVE  MovesRegistration(t)
  BY <1>11 DEF SyncFence
<1>12. ASSUME NEW t \in Thread, FenceFails(t)
      PROVE  MovesRegistration(t)
  BY <1>12 DEF FenceFails
<1>13. ASSUME NEW t \in Thread, Register(t)
      PROVE  MovesRegistration(t)
  BY <1>13 DEF Register
<1>14. ASSUME NEW t \in Thread, Discard(t)
      PROVE  MovesRegistration(t)
  BY <1>14 DEF Discard
<1>15. ASSUME NEW t \in Thread, Drop(t)
      PROVE  MovesRegistration(t)
  BY <1>15 DEF Drop, Leave
<1>16. ASSUME NEW t \in Thread, Unlock(t)
      PROVE  MovesRegistration(t)
  BY <1>16 DEF Unlock
<1>17. ASSUME NEW t \in Thread, Unregister(t)
      PROVE  MovesRegistration(t)
  BY <1>17 DEF Unregister
<1>18. ASSUME NEW m \in Manager, Crash(m) PROVE NoLeakedRegistration'
  BY <1>18 DEF NoLeakedRegistration, Crash, Die
<1>19. CASE PowerLoss
  BY <1>19 DEF NoLeakedRegistration, PowerLoss, Die
<1>20. CASE UNCHANGED vars
  BY <1>20 DEF NoLeakedRegistration
<1> QED
  BY MovesKeepRegistry, <1>1, <1>2, <1>3, <1>4, <1>5, <1>6, <1>7, <1>8, <1>9, <1>10,
     <1>11, <1>12, <1>13, <1>14, <1>15, <1>16, <1>17, <1>18, <1>19, <1>20
     DEF Next, Begin, Acquiring, Using, Fault

\* No error path of acquire, and no death, leaves a lock reserved or registered that no
\* thread is acquiring or using: nobody's process is locked out of a lock by its own past.
THEOREM LockRegistryIsExact == Spec => []NoLeakedRegistration
<1>1. Init => NoLeakedRegistration
  BY DEF Init, NoLeakedRegistration
<1> QED
  BY <1>1, LockTypeOK, RegistryStep, PTL DEF Spec

HIDE DEF GoTo, Ask, threadVars, registry, fences, bounds, vars

-----------------------------------------------------------------------------
(* The state machine.                                                      *)

\* Where an execution completed with evidence can still be.
AfterEvidence ==
  {"COMPLETED", "ROLLBACK_IN_PROGRESS", "BLOCKED_ROLLBACK", "COMPENSATED"}

\* The state the snapshot must be in, read off the end of the journal.
Shown ==
  IF journal = << >> THEN "INITIATED"
  ELSE IF HasPending THEN Last.from ELSE Last.to

\* A pending transition exists exactly where the session says so, and carries
\* its evidence once attested.
SessionInv ==
  /\ session = "ready" => ~ HasPending
  /\ session \in {"appended", "attested"} => HasPending
  /\ session = "attested" => RecoveryAllowed

\* Tokens come from the lock.
TokensIssued == \A i \in DOMAIN journal : journal[i].token <= granted

\* Nothing evidenced, nor anything but a rollback, follows the evidenced event.
EvidenceIsLast ==
  \A i \in DOMAIN journal :
    Evidenced(journal[i].from, journal[i].to) =>
      \A j \in DOMAIN journal : j > i => journal[j].from \in AfterEvidence

\* The parts of the inductive invariant beside the types.
HistoryInv ==
  /\ ChainHolds /\ OrderHolds /\ PendingIsNext
  /\ record.state = Shown
  /\ TokensIssued

MachineInv ==
  /\ HistoryInv
  /\ SessionInv
  /\ EvidenceIsLast
  /\ EvidenceMatches

-----------------------------------------------------------------------------
(* Lemmas.                                                                 *)

\* A rollback never leads back to an evidenced completion.
LEMMA AfterEvidenceIsClosed ==
  \A s \in AfterEvidence : Edges[s] \subseteq AfterEvidence
  BY DEF AfterEvidence, Edges, Successors, State, Stop, Blocked, Terminal

\* What _analyze_locked computes of the snapshot's state from all events is
\* decided by the last one.
LEMMA ShownIsCommitted ==
  ASSUME MachineTyped, HistoryInv
  PROVE  CommittedIsSnapshot
<1> DEFINE n == Len(journal)
<1>1. /\ n = Len(journal) /\ n \in Nat /\ DOMAIN journal = 1 .. n
      /\ (journal # << >>) <=> (n > 0)
  BY DEF MachineTyped
<1> HIDE DEF n
<1>2. \A i \in 1 .. n : i # n => Committed(i)
  BY <1>1 DEF HistoryInv, PendingIsNext
<1>3. CASE journal = << >>
  BY <1>1, <1>3 DEF HistoryInv, Shown, CommittedIsSnapshot
<1>4. CASE journal # << >> /\ ~ HasPending
  <2>1. n \in DOMAIN journal /\ Committed(n) /\ record.state = journal[n].to
    BY <1>1, <1>4 DEF HistoryInv, Shown, HasPending, Last
  <2>2. QED BY <1>1, <2>1 DEF CommittedIsSnapshot
<1>5. CASE journal # << >> /\ HasPending
  <2>1. n \in DOMAIN journal /\ ~ Committed(n) /\ record.state = journal[n].from
    BY <1>1, <1>5 DEF HistoryInv, Shown, HasPending, Last
  <2>2. CASE n = 1
    BY <1>1, <2>1, <2>2 DEF HistoryInv, ChainHolds, CommittedIsSnapshot
  <2>3. CASE n # 1
    <3>1. n - 1 \in DOMAIN journal /\ Committed(n - 1)
      <4>1. n - 1 \in 1 .. n /\ n - 1 # n
        BY <1>1, <1>5, <2>3
      <4>2. QED BY <1>1, <1>2, <4>1
    <3>2. record.state = journal[n - 1].to
      BY <2>1, <2>3 DEF HistoryInv, ChainHolds
    <3>3. \A j \in DOMAIN journal : Committed(j) => j <= n - 1
      BY <1>1, <2>1
    <3>4. QED BY <3>1, <3>2, <3>3 DEF CommittedIsSnapshot
  <2>4. QED BY <2>2, <2>3
<1>6. QED BY <1>3, <1>4, <1>5

-----------------------------------------------------------------------------
(* Types.                                                                  *)

\* What is pending is the last event of the journal.
LEMMA LastIsAnEvent ==
  ASSUME MachineTyped, HasPending
  PROVE  Last \in Event
<1>1. Len(journal) \in Nat \ {0} /\ Len(journal) \in DOMAIN journal
  BY DEF HasPending, MachineTyped
<1>2. QED BY <1>1 DEF MachineTyped, Last

\* INITIATED, with nothing written, is well typed,
LEMMA TypeInit == MachineInit => MachineTyped
  BY DEF MachineInit, MachineTyped, State, Event, SessionPlaces

\* and so is what a session, its failure or its death leaves.
LEMMA TypeStep == MachineTyped /\ SessionInv /\ [MachineNext]_machineVars => MachineTyped'
<1> SUFFICES ASSUME MachineTyped, SessionInv, [MachineNext]_machineVars PROVE MachineTyped'
  OBVIOUS
<1> USE MachineBoundsAreNat
<1> USE DEF MachineTyped, Event, SessionPlaces, Reach, Fail, disk, Clock
<1>1. HasPending => Last \in Event
  BY LastIsAnEvent
<1>2. CASE Open
  BY <1>2 DEF Open
<1>3. CASE Recover
  BY <1>1, <1>3 DEF Recover, Publish
<1>4. CASE RefuseRecovery
  BY <1>4 DEF RefuseRecovery
<1>5. CASE HandleCompletion
  BY <1>5 DEF HandleCompletion
<1>6. CASE CommitTransition
  BY <1>1, <1>6 DEF CommitTransition, Publish, SessionInv
<1>7. CASE Close
  BY <1>7 DEF Close
<1>8. CASE Abort
  BY <1>8 DEF Abort
<1>9. ASSUME NEW now \in Clock, NEW to \in State, AppendTransition(to, now)
      PROVE  MachineTyped'
  <2>1. [from |-> record.state, to |-> to, revision |-> record.revision + 1,
         token |-> granted, at |-> now] \in Event
    OBVIOUS
  <2>2. journal' \in Seq(Event)
    BY <1>9, <2>1 DEF AppendTransition
  <2>3. QED BY <1>9, <2>2 DEF AppendTransition
<1>10. ASSUME NEW now \in Clock, UpdateSnapshot(now)
       PROVE  MachineTyped'
  BY <1>10 DEF UpdateSnapshot, Publish
<1>11. CASE UNCHANGED machineVars
  BY <1>11 DEF machineVars
<1>12. QED
  BY <1>2, <1>3, <1>4, <1>5, <1>6, <1>7, <1>8, <1>9, <1>10, <1>11
     DEF MachineNext, Transition

-----------------------------------------------------------------------------
(* The steps that change the disk, each with what it does to the history.  *)

\* Applying the pending transition settles it.
LEMMA ApplyPending ==
  ASSUME MachineTyped, MachineInv, HasPending, RecoveryAllowed,
         Publish(Last.to, Last.revision, Last.at),
         UNCHANGED <<journal, manifest, granted>>
  PROVE  HistoryInv' /\ EvidenceIsLast' /\ EvidenceMatches' /\ ~ HasPending'
<1> DEFINE n == Len(journal)
<1>1. /\ n = Len(journal) /\ n \in Nat \ {0} /\ DOMAIN journal = 1 .. n
      /\ Last = journal[n]
  BY DEF HasPending, MachineTyped, Last
<1> HIDE DEF n
<1>2. \A i \in 1 .. n : journal[i] \in Event
  BY <1>1 DEF MachineTyped
<1>3. Last.revision = record.revision + 1 /\ Last.at >= record.updated
  BY <1>1 DEF MachineInv, HistoryInv, PendingIsNext, HasPending
<1>4. /\ record'.revision = record.revision + 1
      /\ record'.updated = Last.at
      /\ record'.state = Last.to
  BY <1>3 DEF Publish
<1>5. \A i \in 1 .. n : i # n => journal[i].revision <= record.revision
  BY <1>1 DEF MachineInv, HistoryInv, PendingIsNext, Committed
<1>6. \A i \in 1 .. n : journal[i].revision <= record'.revision
  BY <1>1, <1>2, <1>3, <1>4, <1>5 DEF MachineTyped, Event
<1>7. ~ HasPending'
  BY <1>1, <1>6 DEF HasPending, Committed
<1>8. ChainHolds' /\ OrderHolds' /\ TokensIssued' /\ EvidenceIsLast'
  BY DEF MachineInv, HistoryInv, ChainHolds, OrderHolds, TokensIssued,
         EvidenceIsLast
<1>9. PendingIsNext'
  <2>1. ASSUME NEW i \in 1 .. n PROVE journal[i].at <= record'.updated
    <3>1. CASE i = n
      BY <1>1, <1>2, <1>4, <3>1 DEF Event
    <3>2. CASE i # n
      <4>1. journal[i].at <= record.updated
        BY <1>1, <1>5, <3>2 DEF MachineInv, HistoryInv, PendingIsNext, Committed
      <4>2. journal[i].at \in Nat /\ record.updated \in Nat /\ Last.at \in Nat
        BY <1>1, <1>2 DEF MachineTyped, Event
      <4>3. QED BY <1>3, <1>4, <4>1, <4>2
    <3>3. QED BY <3>1, <3>2
  <2>2. QED BY <1>1, <1>6, <2>1 DEF PendingIsNext, Committed
<1>10. record'.state = Shown'
  BY <1>1, <1>4, <1>7 DEF Shown, Last, HasPending
<1>11. EvidenceMatches'
  <2>1. ASSUME NEW i \in 1 .. n, Evidenced(journal[i].from, journal[i].to)
        PROVE  manifest = i
    <3>1. CASE i = n
      BY <1>1, <2>1, <3>1 DEF RecoveryAllowed
    <3>2. CASE i # n
      BY <1>1, <1>5, <2>1, <3>2 DEF MachineInv, EvidenceMatches, Committed
    <3>3. QED BY <3>1, <3>2
  <2>2. QED BY <1>1, <2>1 DEF MachineInv, EvidenceMatches
<1>12. QED
  BY <1>7, <1>8, <1>9, <1>10, <1>11 DEF HistoryInv

\* The appended event is pending and continues the history.
LEMMA AppendEvent ==
  ASSUME MachineTyped, MachineInv, NEW to \in State, NEW now \in Clock,
         AppendTransition(to, now)
  PROVE  HistoryInv' /\ EvidenceIsLast' /\ EvidenceMatches' /\ HasPending'
<1> DEFINE n == Len(journal)
           e == [from |-> record.state, to |-> to,
                 revision |-> record.revision + 1, token |-> granted, at |-> now]
<1> USE DEF MachineInv, HistoryInv
<1>1. /\ n = Len(journal) /\ n \in Nat /\ DOMAIN journal = 1 .. n
      /\ \A i \in 1 .. n : journal[i] \in Event
      /\ (journal # << >>) <=> (n > 0)
  BY DEF MachineTyped
<1> HIDE DEF n
<1>2. /\ session = "ready" /\ ~ HasPending
      /\ journal' = Append(journal, e)
      /\ to \in Edges[record.state] /\ now >= record.updated
      /\ UNCHANGED <<record, manifest, granted>>
  BY DEF AppendTransition, SessionInv
<1> HIDE DEF e
<1>3. /\ Len(journal') = n + 1 /\ DOMAIN journal' = 1 .. n + 1
      /\ \A i \in 1 .. n : journal'[i] = journal[i]
      /\ journal'[n + 1] = e
      /\ Last' = e
  BY <1>1, <1>2 DEF MachineTyped, Last
<1>4. /\ e.from = record.state /\ e.to = to
      /\ e.revision = record.revision + 1 /\ e.token = granted /\ e.at = now
      /\ record.revision \in Nat /\ record.updated \in Nat
      /\ now \in Nat /\ granted \in Nat
  BY MachineBoundsAreNat DEF e, MachineTyped, Clock
<1>5. \A i \in 1 .. n : /\ journal[i].revision <= record.revision
                        /\ journal[i].at <= record.updated
  BY <1>1, <1>2 DEF PendingIsNext, HasPending, Committed
<1>6. ~ (e.revision <= record.revision)
  BY <1>4
<1>7. HasPending'
  BY <1>1, <1>2, <1>3, <1>6 DEF HasPending, Committed
<1>8. n > 0 => /\ record.state = journal[n].to
               /\ journal[n].revision <= record.revision
               /\ journal[n].at <= record.updated
  BY <1>1, <1>2, <1>5 DEF Shown, Last
<1>9. ChainHolds'
  <2> USE DEF ChainHolds
  <2>1. e.from = IF n + 1 = 1 THEN "INITIATED" ELSE journal'[n].to
    BY <1>1, <1>2, <1>3, <1>4, <1>8 DEF Shown, MachineTyped
  <2>2. ASSUME NEW i \in 1 .. n
        PROVE /\ journal'[i].from = IF i = 1 THEN "INITIATED"
                                             ELSE journal'[i - 1].to
              /\ journal'[i].to \in Edges[journal'[i].from]
    <3>1. i # 1 => i - 1 \in 1 .. n
      BY <1>1
    <3>2. QED BY <1>1, <1>3, <3>1
  <2>3. QED BY <1>1, <1>2, <1>3, <1>4, <2>1, <2>2 DEF ChainHolds
<1>10. OrderHolds'
  <2>1. n > 0 => /\ e.revision > journal[n].revision
                 /\ e.token >= journal[n].token
                 /\ e.at >= journal[n].at
    BY <1>1, <1>2, <1>4, <1>8 DEF TokensIssued, Event
  <2>2. ASSUME NEW i \in 1 .. n, i > 1
        PROVE  /\ journal'[i].revision > journal'[i - 1].revision
               /\ journal'[i].token >= journal'[i - 1].token
               /\ journal'[i].at >= journal'[i - 1].at
    <3>1. i - 1 \in 1 .. n
      BY <1>1, <2>2
    <3>2. QED BY <1>1, <1>3, <2>2, <3>1 DEF OrderHolds
  <2>3. ASSUME NEW i \in 1 .. n + 1
        PROVE  journal'[i].revision > 0
    <3>1. CASE i \in 1 .. n
      BY <1>1, <1>3, <3>1 DEF OrderHolds
    <3>2. CASE i = n + 1
      <4>1. journal'[i] = e
        BY <1>3, <3>2
      <4> QED
        BY <1>4, <4>1
    <3>3. i \in 1 .. n \/ i = n + 1
      BY <1>1
    <3> QED
      BY <3>1, <3>2, <3>3
  <2>4. QED BY <1>1, <1>3, <2>1, <2>2, <2>3 DEF OrderHolds
<1>11. PendingIsNext'
  BY <1>1, <1>2, <1>3, <1>4, <1>5, <1>6 DEF PendingIsNext, Committed
<1>12. record'.state = Shown'
  BY <1>1, <1>2, <1>3, <1>4, <1>7 DEF Shown
<1>13. TokensIssued'
  BY <1>1, <1>2, <1>3, <1>4 DEF TokensIssued, MachineTyped
<1>14. EvidenceIsLast'
  <2>1. ASSUME NEW i \in 1 .. n, Evidenced(journal[i].from, journal[i].to)
        PROVE  e.from \in AfterEvidence
    <3>1. CASE i = n
      BY <1>4, <1>8, <2>1, <3>1 DEF Evidenced, AfterEvidence
    <3>2. CASE i # n
      <4>1. journal[n].from \in AfterEvidence
        BY <1>1, <2>1, <3>2 DEF EvidenceIsLast
      <4>2. journal[n].to \in AfterEvidence
        BY <1>1, <4>1, AfterEvidenceIsClosed DEF ChainHolds
      <4>3. QED BY <1>1, <1>4, <1>8, <4>2
    <3>3. QED BY <3>1, <3>2
  <2>2. ~ (n + 1 > n + 1) /\ \A j \in 1 .. n : ~ (j > n + 1)
    BY <1>1
  <2>3. QED BY <1>1, <1>3, <2>1, <2>2 DEF EvidenceIsLast
<1>15. EvidenceMatches'
  BY <1>1, <1>2, <1>3, <1>5, <1>6 DEF EvidenceMatches, Committed
<1>16. QED
  BY <1>7, <1>9, <1>10, <1>11, <1>12, <1>13, <1>14, <1>15

\* An update of the snapshot leaves nothing pending behind.
LEMMA UpdateKeepsHistory ==
  ASSUME MachineTyped, MachineInv, NEW now \in Clock, UpdateSnapshot(now)
  PROVE  HistoryInv' /\ EvidenceIsLast' /\ EvidenceMatches' /\ ~ HasPending'
<1> DEFINE n == Len(journal)
<1> USE DEF MachineInv, HistoryInv
<1>1. /\ n = Len(journal) /\ n \in Nat /\ DOMAIN journal = 1 .. n
      /\ \A i \in 1 .. n : journal[i] \in Event
      /\ (journal # << >>) <=> (n > 0)
  BY DEF MachineTyped
<1> HIDE DEF n
<1>2. /\ ~ HasPending
      /\ record'.state = record.state
      /\ record'.revision = record.revision + 1
      /\ record'.updated = now /\ now >= record.updated
      /\ record.revision \in Nat /\ record.updated \in Nat /\ now \in Nat
      /\ UNCHANGED <<journal, manifest, granted>>
  BY DEF UpdateSnapshot, SessionInv, Publish, MachineTyped, Clock
<1>3. \A i \in 1 .. n : /\ journal[i].revision <= record.revision
                        /\ journal[i].at <= record.updated
  BY <1>1, <1>2 DEF PendingIsNext, HasPending, Committed
<1>4. \A i \in 1 .. n : /\ journal[i].revision <= record'.revision
                        /\ journal[i].at <= record'.updated
  <2>1. ASSUME NEW i \in 1 .. n
        PROVE  journal[i].revision \in Nat /\ journal[i].at \in Nat
    BY <1>1 DEF Event
  <2>2. QED BY <1>2, <1>3, <2>1
<1>5. ~ HasPending'
  BY <1>1, <1>2, <1>4 DEF HasPending, Committed
<1>6. ChainHolds' /\ OrderHolds' /\ TokensIssued' /\ EvidenceIsLast'
  BY <1>2 DEF ChainHolds, OrderHolds, TokensIssued, EvidenceIsLast
<1>7. PendingIsNext'
  BY <1>1, <1>2, <1>4 DEF PendingIsNext, Committed
<1>8. record'.state = Shown'
  BY <1>2, <1>5 DEF Shown, Last
<1>9. EvidenceMatches'
  BY <1>1, <1>2, <1>3, <1>4 DEF EvidenceMatches, Committed
<1>10. QED
  BY <1>5, <1>6, <1>7, <1>8, <1>9

\* Steps that leave the disk alone, the lock's token growing at most.
LEMMA SameDisk ==
  ASSUME MachineTyped, MachineInv, UNCHANGED disk, granted' \in Nat, granted' >= granted
  PROVE  /\ HistoryInv' /\ EvidenceIsLast' /\ EvidenceMatches'
         /\ HasPending' <=> HasPending
         /\ RecoveryAllowed' <=> RecoveryAllowed
<1> USE DEF MachineInv, HistoryInv
<1>1. UNCHANGED <<record, journal, manifest>>
  BY DEF disk
<1>2. TokensIssued'
  <2>1. ASSUME NEW i \in DOMAIN journal PROVE journal[i].token \in Nat
    <3>1. journal[i] \in Event
      BY DEF MachineTyped
    <3>2. QED BY <3>1 DEF Event
  <2>2. granted \in Nat
    BY DEF MachineTyped
  <2>3. QED BY <1>1, <2>1, <2>2 DEF TokensIssued
<1>3. (HasPending' <=> HasPending) /\ (RecoveryAllowed' <=> RecoveryAllowed)
  BY <1>1 DEF HasPending, RecoveryAllowed, Committed, Last
<1>4. ChainHolds' /\ OrderHolds' /\ PendingIsNext' /\ record'.state = Shown'
  BY <1>1 DEF ChainHolds, OrderHolds, PendingIsNext, Committed, Shown,
              HasPending, Last
<1>5. EvidenceIsLast' /\ EvidenceMatches'
  BY <1>1 DEF EvidenceIsLast, EvidenceMatches, Committed
<1>6. QED BY <1>2, <1>3, <1>4, <1>5

\* Publishing the evidence of the pending completion: it is the first.
LEMMA AttestPending ==
  ASSUME MachineTyped, MachineInv, HasPending, Evidenced(Last.from, Last.to),
         manifest' = Len(journal), UNCHANGED <<record, journal, granted>>
  PROVE  HistoryInv' /\ EvidenceIsLast' /\ EvidenceMatches' /\ HasPending'
<1> DEFINE n == Len(journal)
<1>1. /\ n = Len(journal) /\ n \in Nat \ {0} /\ DOMAIN journal = 1 .. n
      /\ Last = journal[n]
  BY DEF HasPending, MachineTyped, Last
<1> HIDE DEF n
<1>2. HistoryInv' /\ EvidenceIsLast' /\ HasPending'
  BY DEF MachineInv, HistoryInv, ChainHolds, OrderHolds, PendingIsNext,
         Committed, Shown, HasPending, Last, TokensIssued, EvidenceIsLast
<1>3. ASSUME NEW i \in 1 .. n, Evidenced(journal[i].from, journal[i].to), i # n
      PROVE  FALSE
  <2>1. Last.from \in AfterEvidence
    BY <1>1, <1>3 DEF MachineInv, EvidenceIsLast
  <2>2. QED BY <2>1 DEF Evidenced, AfterEvidence
<1>4. EvidenceMatches'
  BY <1>1, <1>3 DEF EvidenceMatches
<1>5. QED BY <1>2, <1>4

-----------------------------------------------------------------------------
(* The inductive invariant.                                                *)

\* Nothing is pending at the start and nothing was attested.
LEMMA MachineBegins == MachineInit => MachineInv
  BY DEF MachineInit, MachineInv, HistoryInv, ChainHolds, OrderHolds, PendingIsNext,
         Shown, TokensIssued, SessionInv, HasPending, EvidenceIsLast,
         EvidenceMatches

\* Append, evidence and snapshot in this order keep the history one that replay accepts,
\* wherever the session fails or dies.
LEMMA MachineStep == MachineTyped /\ MachineInv /\ [MachineNext]_machineVars => MachineInv'
<1> SUFFICES ASSUME MachineTyped, MachineInv, [MachineNext]_machineVars PROVE MachineInv'
  OBVIOUS
<1>1. SessionInv /\ granted \in Nat /\ granted >= granted
  BY DEF MachineInv, MachineTyped
<1> USE DEF SessionInv, Reach, Fail
<1>2. CASE Open
  <2>1. UNCHANGED disk /\ session' = "opened" /\ granted' \in Nat /\ granted' >= granted
    BY <1>1, <1>2 DEF Open
  <2>2. QED BY <2>1, SameDisk DEF MachineInv
<1>3. CASE Recover
  <2>1. CASE HasPending
    <3>1. /\ RecoveryAllowed
          /\ Publish(Last.to, Last.revision, Last.at)
          /\ UNCHANGED <<journal, manifest, granted>>
          /\ session' \in {"ready", "opened", "closed"}
      BY <1>3, <2>1 DEF Recover
    <3>2. QED BY <2>1, <3>1, ApplyPending DEF MachineInv
  <2>2. CASE ~ HasPending
    <3>1. UNCHANGED <<disk, granted>> /\ session' = "ready"
      BY <1>3, <2>2 DEF Recover, disk
    <3>2. QED BY <1>1, <2>2, <3>1, SameDisk DEF MachineInv
  <2>3. QED BY <2>1, <2>2
<1>4. CASE RefuseRecovery
  BY <1>1, <1>4, SameDisk DEF RefuseRecovery, MachineInv
<1>5. CASE HandleCompletion
  <2>1. /\ HasPending /\ session' \in {"attested", "opened", "closed"}
        /\ UNCHANGED <<record, journal, granted>>
    BY <1>1, <1>5 DEF HandleCompletion
  <2>2. CASE Evidenced(Last.from, Last.to)
    <3>1. manifest' = Len(journal)
      BY <1>5, <2>2 DEF HandleCompletion
    <3>2. RecoveryAllowed'
      BY <2>1, <3>1 DEF RecoveryAllowed
    <3>3. QED BY <2>1, <2>2, <3>1, <3>2, AttestPending DEF MachineInv
  <2>3. CASE ~ Evidenced(Last.from, Last.to)
    <3>1. UNCHANGED disk
      BY <1>5, <2>3 DEF HandleCompletion, disk
    <3>2. RecoveryAllowed
      BY <2>3 DEF RecoveryAllowed
    <3>3. QED BY <1>1, <2>1, <3>1, <3>2, SameDisk DEF MachineInv
  <2>4. QED BY <2>2, <2>3
<1>6. CASE CommitTransition
  <2>1. /\ HasPending /\ RecoveryAllowed
        /\ Publish(Last.to, Last.revision, Last.at)
        /\ UNCHANGED <<journal, manifest, granted>>
        /\ session' \in {"ready", "opened", "closed"}
    BY <1>1, <1>6 DEF CommitTransition
  <2>2. QED BY <2>1, ApplyPending DEF MachineInv
<1>7. CASE Close
  BY <1>1, <1>7, SameDisk DEF Close, MachineInv
<1>8. CASE Abort
  BY <1>1, <1>8, SameDisk DEF Abort, MachineInv
<1>9. ASSUME NEW now \in Clock, NEW to \in State, AppendTransition(to, now)
      PROVE  MachineInv'
  <2>1. session' \in {"appended", "opened", "closed"}
    BY <1>9 DEF AppendTransition
  <2>2. QED BY <1>9, <2>1, AppendEvent DEF MachineInv
<1>10. ASSUME NEW now \in Clock, UpdateSnapshot(now)
       PROVE  MachineInv'
  <2>1. session' \in {"ready", "opened", "closed"}
    BY <1>10 DEF UpdateSnapshot
  <2>2. QED BY <1>10, <2>1, UpdateKeepsHistory DEF MachineInv
<1>11. CASE UNCHANGED machineVars
  <2>1. UNCHANGED <<disk, granted, session>>
    BY <1>11 DEF machineVars
  <2>2. QED BY <1>1, <2>1, SameDisk DEF MachineInv
<1>12. QED
  BY <1>2, <1>3, <1>4, <1>5, <1>6, <1>7, <1>8, <1>9, <1>10, <1>11
     DEF MachineNext, Transition

-----------------------------------------------------------------------------
(* The theorems.                                                           *)

\* The types of the machine, and the invariant the others follow from.
THEOREM MachineTypeOK == MachineSpec => [](MachineTyped /\ MachineInv)
<1>1. MachineTyped /\ MachineInv => SessionInv
  BY DEF MachineInv
<1>2. QED
  BY <1>1, TypeInit, TypeStep, MachineBegins, MachineStep, PTL DEF MachineSpec

\* Whatever died or failed between the writes, replay accepts the journal
\* against the snapshot (_analyze_locked never raises).
THEOREM MachineReplayNeverFails == MachineSpec => []ReplayNeverFails
<1>1. MachineTyped /\ MachineInv => ReplayNeverFails
  BY ShownIsCommitted DEF MachineInv, HistoryInv, ReplayNeverFails,
     ReplaySucceeds
<1>2. QED BY <1>1, MachineTypeOK, PTL

\* No second transition is written ahead of the first.
THEOREM MachineReadyIsSettled == MachineSpec => []ReadyIsSettled
<1>1. MachineInv => ReadyIsSettled
  BY DEF MachineInv, SessionInv, ReadyIsSettled
<1>2. QED BY <1>1, MachineTypeOK, PTL

\* The evidence attests the evidenced completion and nothing else.
THEOREM MachineEvidenceMatches == MachineSpec => []EvidenceMatches
<1>1. MachineInv => EvidenceMatches
  BY DEF MachineInv
<1>2. QED BY <1>1, MachineTypeOK, PTL

-----------------------------------------------------------------------------
(* Refinement.                                                             *)

\* Where a pending transition comes from: the state the snapshot shows.
LEMMA PendingIsAnEdge ==
  ASSUME MachineTyped, MachineInv, HasPending
  PROVE  /\ Last.from = record.state /\ Last.to \in Edges[record.state]
         /\ Last.to \in State
<1>1. Len(journal) \in DOMAIN journal
  BY DEF HasPending, MachineTyped
<1>2. QED
  BY <1>1, LastIsAnEvent
     DEF MachineInv, HistoryInv, ChainHolds, Shown, HasPending, Last, Event

\* Both modules take the table from ExecutionStates.
LEMMA SameTable ==
  /\ Life!State = State
  /\ Life!Edges = Edges
  /\ \A from, to : Life!Evidenced(from, to) <=> Evidenced(from, to)
<1>1. Life!State = State
  BY DEF Life!State, State, Life!Blocked, Blocked, Life!Terminal, Terminal
<1>2. \A s \in State : Life!Successors(s) = Successors(s)
  BY DEF Life!Successors, Successors, Life!Stop, Stop
<1>3. QED
  BY <1>1, <1>2 DEF Life!Edges, Edges, Life!Evidenced, Evidenced

\* A move along an edge is a step in the life of an execution.
LEMMA MoveIsAStep ==
  ASSUME NEW to \in Life!State, Life!Move(to)
  PROVE  Life!LifeNext
  BY Zenon DEF Life!LifeNext

\* Applying the pending transition is a move of the abstract execution.
LEMMA PendingMoves ==
  ASSUME MachineTyped, MachineInv, HasPending, RecoveryAllowed,
         Publish(Last.to, Last.revision, Last.at), UNCHANGED manifest
  PROVE  Life!LifeNext
<1>1. Len(journal) # 0
  BY DEF HasPending, MachineTyped
<1>2. record'.state = Last.to
  BY DEF Publish
<1> DEFINE to == Last.to
<1>3. /\ to \in State /\ to \in Edges[record.state]
      /\ Evidenced(record.state, to) => manifest # 0
  BY <1>1, PendingIsAnEdge DEF RecoveryAllowed
<1>4. record'.state = to /\ UNCHANGED manifest
  BY <1>2
<1> HIDE DEF to
<1>5. Life!Move(to)
  BY <1>3, <1>4, SameTable DEF Life!Move
<1>6. QED BY <1>3, <1>5, SameTable, MoveIsAStep

\* Every step of a session is a move or an attestation to its reader, or nothing at all.
LEMMA LifeStep ==
  MachineTyped /\ MachineInv /\ [MachineNext]_machineVars => [Life!LifeNext]_(Life!lifeVars)
<1> SUFFICES ASSUME MachineTyped, MachineInv, [MachineNext]_machineVars
             PROVE  Life!LifeNext \/ UNCHANGED <<record.state, manifest>>
  BY DEF Life!lifeVars
<1>1. CASE Open \/ RefuseRecovery \/ Close \/ Abort
  BY <1>1 DEF Open, RefuseRecovery, Close, Abort, disk
<1>2. CASE Recover
  <2>1. CASE HasPending
    BY <1>2, <2>1, PendingMoves DEF Recover
  <2>2. CASE ~ HasPending
    BY <1>2, <2>2 DEF Recover
  <2>3. QED BY <2>1, <2>2
<1>3. CASE HandleCompletion
  <2>1. CASE Evidenced(Last.from, Last.to)
    <3>1. HasPending /\ manifest' = Len(journal) /\ UNCHANGED record
      BY <1>3, <2>1 DEF HandleCompletion, MachineInv, SessionInv
    <3>2. record.state = "GENERATING_EVIDENCE"
      BY <2>1, <3>1, PendingIsAnEdge DEF Evidenced
    <3>3. Len(journal) # 0
      BY <3>1 DEF HasPending, MachineTyped
    <3>4. Life!Attest
      BY <3>1, <3>2, <3>3 DEF Life!Attest
    <3>5. QED BY <3>4 DEF Life!LifeNext
  <2>2. CASE ~ Evidenced(Last.from, Last.to)
    BY <1>3, <2>2 DEF HandleCompletion
  <2>3. QED BY <2>1, <2>2
<1>4. CASE CommitTransition
  BY <1>4, PendingMoves DEF CommitTransition, MachineInv, SessionInv
<1>5. ASSUME NEW now \in Clock, NEW to \in State, AppendTransition(to, now)
      PROVE  UNCHANGED <<record.state, manifest>>
  BY <1>5 DEF AppendTransition
<1>6. ASSUME NEW now \in Clock, UpdateSnapshot(now)
      PROVE  UNCHANGED <<record.state, manifest>>
  BY <1>6 DEF UpdateSnapshot, Publish
<1>7. CASE UNCHANGED machineVars
  BY <1>7 DEF machineVars, disk
<1>8. QED
  BY <1>1, <1>2, <1>3, <1>4, <1>5, <1>6, <1>7 DEF MachineNext, Transition

\* The snapshot lives along the closed table, and completes with evidence
\* only once that evidence is published, whatever crashed in between.
THEOREM MachineImplementsLife == MachineSpec => ImplementsExecutionLife
<1>1. MachineInit => Life!LifeInit
  BY DEF MachineInit, Life!LifeInit
<1>2. QED
  BY <1>1, LifeStep, MachineTypeOK, PTL
     DEF MachineSpec, ImplementsExecutionLife, Life!LifeSpec

-----------------------------------------------------------------------------
(* Cancellation.                                                           *)

USE DEF Proceed, Advance, Return, Mishap, IsCancelled, NoSlot, NoOutcome

-----------------------------------------------------------------------------
(* The inductive invariant.                                                *)

\* Places of the runner in which the slot is its own, and whole.
SlotIsWhole == {"reserved", "cleared", "spawned", "polling", "reaped", "recorded"}

\* Places in which no process can be alive: before the spawn and after the end.
NotAlive == {"creating", "reserved", "cleared", "reaped", "recorded"}

\* What its place says of a runner, its slot and its process.
RunnerInv ==
  /\ lock = Runner <=> runner \notin {"out", "asking"}
  /\ started <= MaxCommands
  /\ runner = "checked" => started < MaxCommands
  /\ runner = "creating" => slot.cmd # 0
  /\ runner \in SlotIsWhole => slot.cmd # 0 /\ slot.whole
  /\ runner \in NotAlive => running = {}
  /\ SlotCoversProcess

\* Places of a canceller, by what it has behind it.
Decides == {"publish", "fill_policy"}
PolicyStands == {"request", "fill_request"}
RequestStands == {"look", "poll", "compare", "lock", "decide", "complete", "enter"}
Locked == {"decide", "complete", "enter"}

\* What its place says of a canceller's decision, and of the files that carry it.
DecisionInv ==
  /\ \A c \in Canceller :
       /\ canceller[c] \in Decides \cup PolicyStands \cup RequestStands =>
            decision[c] \in Canceller
       /\ canceller[c] = "fill_policy" =>
            policy = Torn /\ \A d \in Canceller : canceller[d] = "fill_policy" => d = c
       /\ canceller[c] \in PolicyStands \cup RequestStands => policy = decision[c]
       /\ canceller[c] = "fill_request" =>
            request = Torn /\ \A d \in Canceller : canceller[d] = "fill_request" => d = c
       /\ canceller[c] \in RequestStands => request = decision[c]
       /\ canceller[c] \in {"complete", "enter"} => recorded.decided = decision[c]
  /\ DecisionsAgree

\* A canceller past its decision has the lock, and the execution is still running.
LockInv ==
  \A c \in Canceller :
    /\ canceller[c] \in Locked <=> lock = c
    /\ canceller[c] \in Locked => state = "EXECUTING"

\* Completions are paid for: by a death, or by the one that is about to be shown.
CompletionInv ==
  /\ CompletionRepeatsOnlyAfterDeath
  /\ state = "EXECUTING" /\ (\A c \in Canceller : canceller[c] # "enter") =>
       recorded.completed <= mishaps

\* Nothing is alive, and the runner is not where it may spawn.
Quiet == running = {} /\ runner # "cleared"

\* The request makes quiet last; a canceller that waits for a command has quiet as soon
\* as the slot shows another one, or none.
QuietInv ==
  /\ \A c \in Canceller :
       /\ canceller[c] \in {"lock", "decide", "complete", "enter"} => Quiet
       /\ canceller[c] \in {"poll", "compare"} => (slot.cmd # watched[c] => Quiet)
  /\ state = "CANCELLED" => Quiet /\ request \in Canceller

CancellationInv ==
  ControlTyped /\ RunnerInv /\ DecisionInv /\ LockInv /\ CompletionInv /\ QuietInv

-----------------------------------------------------------------------------
(* The steps preserve it, part by part.                                    *)

\* Processes, the runner and the marks of an absent or torn file have different names.
LEMMA Apart ==
  /\ None # Runner /\ None # Torn
  /\ \A c \in Canceller : c # Runner /\ c # None /\ c # Torn
BY NamesAreApart

\* The control files, the journal and the places keep their types: a command that is
\* started has a number within the bound.
LEMMA ControlTypeStep ==
  ASSUME ControlTyped, RunnerInv, [ControlNext]_controlVars
  PROVE  ControlTyped'
<1> USE CommandBoundsAreNat, Apart DEF ControlTyped, RunnerInv, Decision, RunnerPlaces,
        CallerPlaces, Results, Reports, SlotIsWhole, files, runnerVars, callerVars
<1>0. runner \in SlotIsWhole => slot.cmd \in Command
  OBVIOUS
<1>1. CASE Resume
  BY <1>1 DEF Resume
<1>2. CASE TakeLock
  BY <1>2 DEF TakeLock
<1>3. CASE CheckRequest
  BY <1>3 DEF CheckRequest
<1>4. CASE CreateSlot
  <2>1. started + 1 \in Command
    BY <1>4 DEF CreateSlot, Command
  <2>2. slot' \in [cmd : Command \cup {0}, whole : BOOLEAN]
    <3>1. CASE slot.cmd = 0
      <4>1. slot' = [cmd |-> started + 1, whole |-> FALSE]
        BY <1>4, <3>1 DEF CreateSlot
      <4> QED
        BY <2>1, <4>1
    <3>2. CASE slot.cmd # 0
      BY <1>4, <3>2 DEF CreateSlot
    <3> QED
      BY <3>1, <3>2
  <2>3. runner' \in RunnerPlaces /\ started' \in Nat
    BY <1>4, <2>1 DEF CreateSlot
  <2> QED
    BY <1>4, <2>1, <2>2, <2>3 DEF CreateSlot
<1>5. CASE FillSlot
  <2>1. slot.cmd \in Command \cup {0}
    BY <1>0, <1>5 DEF FillSlot
  <2>2. slot' \in [cmd : Command \cup {0}, whole : BOOLEAN]
    <3>1. CASE slot' = [slot EXCEPT !.whole = TRUE]
      BY <3>1
    <3>2. CASE slot' = NoSlot
      BY <3>2
    <3> QED
      BY <1>5, <3>1, <3>2 DEF FillSlot
  <2>3. runner' \in RunnerPlaces /\ mishaps' \in Nat
    BY <1>0, <1>5 DEF FillSlot
  <2> QED
    BY <1>5, <2>1, <2>2, <2>3 DEF FillSlot
<1>6. CASE RecheckRequest
  BY <1>6 DEF RecheckRequest
<1>7. CASE RefuseCommand
  BY <1>7 DEF RefuseCommand
<1>8. CASE Spawn
  <2>1. running' \subseteq Command
    BY <1>0, <1>8 DEF Spawn
  <2>2. mishaps' \in Nat
    BY <1>0, <1>8 DEF Spawn
  <2>3. runner' \in RunnerPlaces /\ result' \in Results
    BY <1>0, <1>8 DEF Spawn
  <2> QED
    BY <1>8, <2>1, <2>2, <2>3 DEF Spawn
<1>9. CASE BindProcess
  <2>1. running' \subseteq Command
    BY <1>0, <1>9 DEF BindProcess
  <2>2. mishaps' \in Nat
    BY <1>0, <1>9 DEF BindProcess
  <2>3. runner' \in RunnerPlaces /\ result' \in Results
    BY <1>0, <1>9 DEF BindProcess
  <2> QED
    BY <1>9, <2>1, <2>2, <2>3 DEF BindProcess
<1>10. CASE ObserveExit
  BY <1>10 DEF ObserveExit
<1>11. CASE Terminate
  <2>1. running' \subseteq Command
    BY <1>0, <1>11 DEF Terminate
  <2>2. mishaps' \in Nat
    BY <1>0, <1>11 DEF Terminate
  <2>3. runner' \in RunnerPlaces /\ result' \in Results
    BY <1>0, <1>11 DEF Terminate
  <2> QED
    BY <1>11, <2>1, <2>2, <2>3 DEF Terminate
<1>12. CASE PublishOutcome
  BY <1>12 DEF PublishOutcome
<1>13. CASE ClearSlot
  BY <1>13 DEF ClearSlot
<1>14. CASE EndRun
  BY <1>14 DEF EndRun
<1>15. CASE ProcessExits
  BY <1>15 DEF ProcessExits
<1>16. CASE RunnerCrash
  BY <1>16 DEF RunnerCrash
<1>17. ASSUME NEW c \in Canceller, Preflight(c) PROVE ControlTyped'
  <2>1. canceller' \in [Canceller -> CallerPlaces]
    BY <1>17 DEF Preflight
  <2>2. report' \in [Canceller -> Reports]
    BY <1>17 DEF Preflight
  <2> QED
    BY <1>17, <2>1, <2>2 DEF Preflight
<1>18. ASSUME NEW c \in Canceller, ReadPolicy(c) PROVE ControlTyped'
  <2>1. decision' \in [Canceller -> Canceller \cup {None}]
    BY <1>18 DEF ReadPolicy
  <2>2. canceller' \in [Canceller -> CallerPlaces]
    BY <1>18 DEF ReadPolicy
  <2>3. report' \in [Canceller -> Reports]
    BY <1>18 DEF ReadPolicy
  <2> QED
    BY <1>18, <2>1, <2>2, <2>3 DEF ReadPolicy
<1>19. ASSUME NEW c \in Canceller, PublishPolicy(c) PROVE ControlTyped'
  <2>1. canceller' \in [Canceller -> CallerPlaces] /\ report' \in [Canceller -> Reports]
    BY <1>19 DEF PublishPolicy
  <2>2. policy' \in Decision
    BY <1>19 DEF PublishPolicy
  <2> QED
    BY <1>19, <2>1, <2>2 DEF PublishPolicy
<1>20. ASSUME NEW c \in Canceller, FillPolicy(c) PROVE ControlTyped'
  <2>1. canceller' \in [Canceller -> CallerPlaces] /\ report' \in [Canceller -> Reports]
    BY <1>20 DEF FillPolicy
  <2>2. policy' \in Decision /\ mishaps' \in Nat
    BY <1>20 DEF FillPolicy
  <2> QED
    BY <1>20, <2>1, <2>2 DEF FillPolicy
<1>21. ASSUME NEW c \in Canceller, PublishRequest(c) PROVE ControlTyped'
  <2>1. canceller' \in [Canceller -> CallerPlaces] /\ report' \in [Canceller -> Reports]
    BY <1>21 DEF PublishRequest
  <2>2. request' \in Decision
    BY <1>21 DEF PublishRequest
  <2> QED
    BY <1>21, <2>1, <2>2 DEF PublishRequest
<1>22. ASSUME NEW c \in Canceller, FillRequest(c) PROVE ControlTyped'
  <2>1. canceller' \in [Canceller -> CallerPlaces] /\ report' \in [Canceller -> Reports]
    BY <1>22 DEF FillRequest
  <2>2. request' \in Decision /\ mishaps' \in Nat
    BY <1>22 DEF FillRequest
  <2> QED
    BY <1>22, <2>1, <2>2 DEF FillRequest
<1>23. ASSUME NEW c \in Canceller, LookForCommand(c) PROVE ControlTyped'
  <2>1. canceller' \in [Canceller -> CallerPlaces]
    BY <1>0, <1>23 DEF LookForCommand
  <2>2. report' \in [Canceller -> Reports]
    BY <1>0, <1>23 DEF LookForCommand
  <2>3. watched' \in [Canceller -> Command \cup {0}]
    BY <1>0, <1>23 DEF LookForCommand
  <2> QED
    BY <1>23, <2>1, <2>2, <2>3 DEF LookForCommand
<1>24. ASSUME NEW c \in Canceller, PollOutcome(c) PROVE ControlTyped'
  BY <1>24 DEF PollOutcome
<1>25. ASSUME NEW c \in Canceller, CompareSlot(c) PROVE ControlTyped'
  <2>1. canceller' \in [Canceller -> CallerPlaces]
    BY <1>25 DEF CompareSlot
  <2>2. report' \in [Canceller -> Reports]
    BY <1>25 DEF CompareSlot
  <2> QED
    BY <1>25, <2>1, <2>2 DEF CompareSlot
<1>26. ASSUME NEW c \in Canceller, LockExecution(c) PROVE ControlTyped'
  <2>1. canceller' \in [Canceller -> CallerPlaces]
    BY <1>0, <1>26 DEF LockExecution
  <2>2. report' \in [Canceller -> Reports]
    BY <1>0, <1>26 DEF LockExecution
  <2>3. lock' \in Canceller \cup {None, Runner}
    BY <1>0, <1>26 DEF LockExecution
  <2> QED
    BY <1>26, <2>1, <2>2, <2>3 DEF LockExecution
<1>27. ASSUME NEW c \in Canceller, RecordDecision(c) PROVE ControlTyped'
  <2>1. recorded' \in [decided : Canceller \cup {None}, completed : Nat]
    BY <1>27 DEF RecordDecision
  <2>2. lock' \in Canceller \cup {None, Runner}
    BY <1>27 DEF RecordDecision
  <2>3. canceller' \in [Canceller -> CallerPlaces]
    BY <1>27 DEF RecordDecision
  <2>4. report' \in [Canceller -> Reports]
    BY <1>27 DEF RecordDecision
  <2> QED
    BY <1>27, <2>1, <2>2, <2>3, <2>4 DEF RecordDecision
<1>28. ASSUME NEW c \in Canceller, RecordCompletion(c) PROVE ControlTyped'
  BY <1>28 DEF RecordCompletion
<1>29. ASSUME NEW c \in Canceller, EnterCancelled(c) PROVE ControlTyped'
  BY <1>29 DEF EnterCancelled
<1>30. ASSUME NEW c \in Canceller, CancellerCrash(c) PROVE ControlTyped'
  BY <1>30 DEF CancellerCrash
<1>31. CASE UNCHANGED controlVars
  BY <1>31 DEF controlVars, files, runnerVars, callerVars
<1>32. QED
  BY <1>1, <1>2, <1>3, <1>4, <1>5, <1>6, <1>7, <1>8, <1>9, <1>10, <1>11, <1>12,
     <1>13, <1>14, <1>15, <1>16, <1>17, <1>18, <1>19, <1>20, <1>21, <1>22,
     <1>23, <1>24, <1>25, <1>26, <1>27, <1>28, <1>29, <1>30, <1>31
  DEF ControlNext, Running, Cancelling

\* The slot is created before the command is spawned and cleared after its outcome: no
\* step of anybody leaves a process that the slot does not show.
LEMMA RunnerStep ==
  ASSUME ControlTyped, RunnerInv, LockInv, QuietInv, [ControlNext]_controlVars
  PROVE  RunnerInv'
<1> USE CommandBoundsAreNat, Apart DEF ControlTyped, RunnerInv, LockInv, Locked,
        SlotIsWhole, NotAlive, SlotCoversProcess, Command, files, runnerVars,
        callerVars
<1>1. CASE Resume
  BY <1>1 DEF Resume
<1>2. CASE TakeLock
  BY <1>2 DEF TakeLock
<1>3. CASE CheckRequest
  BY <1>3 DEF CheckRequest
<1>4. CASE CreateSlot
  BY <1>4 DEF CreateSlot
<1>5. CASE FillSlot
  BY <1>5 DEF FillSlot
<1>6. CASE RecheckRequest
  BY <1>6 DEF RecheckRequest
<1>7. CASE RefuseCommand
  BY <1>7 DEF RefuseCommand
<1>8. CASE Spawn
  BY <1>8 DEF Spawn
<1>9. CASE BindProcess
  BY <1>9 DEF BindProcess
<1>10. CASE ObserveExit
  BY <1>10 DEF ObserveExit
<1>11. CASE Terminate
  BY <1>11 DEF Terminate
<1>12. CASE PublishOutcome
  BY <1>12 DEF PublishOutcome
<1>13. CASE ClearSlot
  BY <1>13 DEF ClearSlot
<1>14. CASE EndRun
  BY <1>14 DEF EndRun
<1>15. CASE ProcessExits
  BY <1>15 DEF ProcessExits
<1>16. CASE RunnerCrash
  BY <1>16 DEF RunnerCrash
<1>17. ASSUME NEW c \in Canceller, Preflight(c) PROVE RunnerInv'
  BY <1>17 DEF Preflight
<1>18. ASSUME NEW c \in Canceller, ReadPolicy(c) PROVE RunnerInv'
  BY <1>18 DEF ReadPolicy
<1>19. ASSUME NEW c \in Canceller, PublishPolicy(c) PROVE RunnerInv'
  BY <1>19 DEF PublishPolicy
<1>20. ASSUME NEW c \in Canceller, FillPolicy(c) PROVE RunnerInv'
  BY <1>20 DEF FillPolicy
<1>21. ASSUME NEW c \in Canceller, PublishRequest(c) PROVE RunnerInv'
  BY <1>21 DEF PublishRequest
<1>22. ASSUME NEW c \in Canceller, FillRequest(c) PROVE RunnerInv'
  BY <1>22 DEF FillRequest
<1>23. ASSUME NEW c \in Canceller, LookForCommand(c) PROVE RunnerInv'
  BY <1>23 DEF LookForCommand
<1>24. ASSUME NEW c \in Canceller, PollOutcome(c) PROVE RunnerInv'
  BY <1>24 DEF PollOutcome
<1>25. ASSUME NEW c \in Canceller, CompareSlot(c) PROVE RunnerInv'
  BY <1>25 DEF CompareSlot
<1>26. ASSUME NEW c \in Canceller, LockExecution(c) PROVE RunnerInv'
  BY <1>26 DEF LockExecution
<1>27. ASSUME NEW c \in Canceller, RecordDecision(c) PROVE RunnerInv'
  <2>1. lock' # Runner <=> lock # Runner
    BY <1>27 DEF RecordDecision
  <2> QED
    BY <1>27, <2>1 DEF RecordDecision
<1>28. ASSUME NEW c \in Canceller, RecordCompletion(c) PROVE RunnerInv'
  BY <1>28 DEF RecordCompletion
<1>29. ASSUME NEW c \in Canceller, EnterCancelled(c) PROVE RunnerInv'
  <2>1. lock' # Runner <=> lock # Runner
    BY <1>29 DEF EnterCancelled
  <2> QED
    BY <1>29, <2>1 DEF EnterCancelled
<1>30. ASSUME NEW c \in Canceller, CancellerCrash(c) PROVE RunnerInv'
  BY <1>30 DEF CancellerCrash
<1>31. CASE UNCHANGED controlVars
  BY <1>31 DEF controlVars, files, runnerVars, callerVars
<1>32. QED
  BY <1>1, <1>2, <1>3, <1>4, <1>5, <1>6, <1>7, <1>8, <1>9, <1>10, <1>11, <1>12,
     <1>13, <1>14, <1>15, <1>16, <1>17, <1>18, <1>19, <1>20, <1>21, <1>22,
     <1>23, <1>24, <1>25, <1>26, <1>27, <1>28, <1>29, <1>30, <1>31
  DEF ControlNext, Running, Cancelling

\* The exclusive files and the re-reading of the policy keep all cancellers on the one
\* decision, also when a write fails and takes its own torn file away.
LEMMA DecisionStep ==
  ASSUME ControlTyped, DecisionInv, LockInv, [ControlNext]_controlVars
  PROVE  DecisionInv'
<1> USE CommandBoundsAreNat, Apart DEF ControlTyped, DecisionInv, LockInv, DecisionsAgree,
        Decides, PolicyStands, RequestStands, Locked, Decision, files, runnerVars,
        callerVars
<1>1. CASE Resume
  BY <1>1 DEF Resume
<1>2. CASE TakeLock
  BY <1>2 DEF TakeLock
<1>3. CASE CheckRequest
  BY <1>3 DEF CheckRequest
<1>4. CASE CreateSlot
  BY <1>4 DEF CreateSlot
<1>5. CASE FillSlot
  BY <1>5 DEF FillSlot
<1>6. CASE RecheckRequest
  BY <1>6 DEF RecheckRequest
<1>7. CASE RefuseCommand
  BY <1>7 DEF RefuseCommand
<1>8. CASE Spawn
  BY <1>8 DEF Spawn
<1>9. CASE BindProcess
  BY <1>9 DEF BindProcess
<1>10. CASE ObserveExit
  BY <1>10 DEF ObserveExit
<1>11. CASE Terminate
  BY <1>11 DEF Terminate
<1>12. CASE PublishOutcome
  BY <1>12 DEF PublishOutcome
<1>13. CASE ClearSlot
  BY <1>13 DEF ClearSlot
<1>14. CASE EndRun
  BY <1>14 DEF EndRun
<1>15. CASE ProcessExits
  BY <1>15 DEF ProcessExits
<1>16. CASE RunnerCrash
  BY <1>16 DEF RunnerCrash
<1>17. ASSUME NEW c \in Canceller, Preflight(c) PROVE DecisionInv'
  BY <1>17 DEF Preflight
<1>18. ASSUME NEW c \in Canceller, ReadPolicy(c) PROVE DecisionInv'
  BY <1>18 DEF ReadPolicy
<1>19. ASSUME NEW c \in Canceller, PublishPolicy(c) PROVE DecisionInv'
  BY <1>19 DEF PublishPolicy
<1>20. ASSUME NEW c \in Canceller, FillPolicy(c) PROVE DecisionInv'
  BY <1>20 DEF FillPolicy
<1>21. ASSUME NEW c \in Canceller, PublishRequest(c) PROVE DecisionInv'
  BY <1>21 DEF PublishRequest
<1>22. ASSUME NEW c \in Canceller, FillRequest(c) PROVE DecisionInv'
  BY <1>22 DEF FillRequest
<1>23. ASSUME NEW c \in Canceller, LookForCommand(c) PROVE DecisionInv'
  BY <1>23 DEF LookForCommand
<1>24. ASSUME NEW c \in Canceller, PollOutcome(c) PROVE DecisionInv'
  BY <1>24 DEF PollOutcome
<1>25. ASSUME NEW c \in Canceller, CompareSlot(c) PROVE DecisionInv'
  BY <1>25 DEF CompareSlot
<1>26. ASSUME NEW c \in Canceller, LockExecution(c) PROVE DecisionInv'
  BY <1>26 DEF LockExecution
<1>27. ASSUME NEW c \in Canceller, RecordDecision(c) PROVE DecisionInv'
  BY <1>27 DEF RecordDecision
<1>28. ASSUME NEW c \in Canceller, RecordCompletion(c) PROVE DecisionInv'
  BY <1>28 DEF RecordCompletion
<1>29. ASSUME NEW c \in Canceller, EnterCancelled(c) PROVE DecisionInv'
  BY <1>29 DEF EnterCancelled
<1>30. ASSUME NEW c \in Canceller, CancellerCrash(c) PROVE DecisionInv'
  BY <1>30 DEF CancellerCrash
<1>31. CASE UNCHANGED controlVars
  BY <1>31 DEF controlVars, files, runnerVars, callerVars
<1>32. QED
  BY <1>1, <1>2, <1>3, <1>4, <1>5, <1>6, <1>7, <1>8, <1>9, <1>10, <1>11, <1>12,
     <1>13, <1>14, <1>15, <1>16, <1>17, <1>18, <1>19, <1>20, <1>21, <1>22,
     <1>23, <1>24, <1>25, <1>26, <1>27, <1>28, <1>29, <1>30, <1>31
  DEF ControlNext, Running, Cancelling

\* _cancel_under_lock is alone with the state it has read.
LEMMA LockStep ==
  ASSUME ControlTyped, LockInv, RunnerInv, [ControlNext]_controlVars
  PROVE  LockInv'
<1> USE CommandBoundsAreNat, Apart DEF ControlTyped, LockInv, RunnerInv, Locked, files,
        runnerVars, callerVars
<1>1. CASE Resume
  BY <1>1 DEF Resume
<1>2. CASE TakeLock
  BY <1>2 DEF TakeLock
<1>3. CASE CheckRequest
  BY <1>3 DEF CheckRequest
<1>4. CASE CreateSlot
  BY <1>4 DEF CreateSlot
<1>5. CASE FillSlot
  BY <1>5 DEF FillSlot
<1>6. CASE RecheckRequest
  BY <1>6 DEF RecheckRequest
<1>7. CASE RefuseCommand
  BY <1>7 DEF RefuseCommand
<1>8. CASE Spawn
  BY <1>8 DEF Spawn
<1>9. CASE BindProcess
  BY <1>9 DEF BindProcess
<1>10. CASE ObserveExit
  BY <1>10 DEF ObserveExit
<1>11. CASE Terminate
  BY <1>11 DEF Terminate
<1>12. CASE PublishOutcome
  BY <1>12 DEF PublishOutcome
<1>13. CASE ClearSlot
  BY <1>13 DEF ClearSlot
<1>14. CASE EndRun
  BY <1>14 DEF EndRun
<1>15. CASE ProcessExits
  BY <1>15 DEF ProcessExits
<1>16. CASE RunnerCrash
  BY <1>16 DEF RunnerCrash
<1>17. ASSUME NEW c \in Canceller, Preflight(c) PROVE LockInv'
  BY <1>17 DEF Preflight
<1>18. ASSUME NEW c \in Canceller, ReadPolicy(c) PROVE LockInv'
  BY <1>18 DEF ReadPolicy
<1>19. ASSUME NEW c \in Canceller, PublishPolicy(c) PROVE LockInv'
  BY <1>19 DEF PublishPolicy
<1>20. ASSUME NEW c \in Canceller, FillPolicy(c) PROVE LockInv'
  BY <1>20 DEF FillPolicy
<1>21. ASSUME NEW c \in Canceller, PublishRequest(c) PROVE LockInv'
  BY <1>21 DEF PublishRequest
<1>22. ASSUME NEW c \in Canceller, FillRequest(c) PROVE LockInv'
  BY <1>22 DEF FillRequest
<1>23. ASSUME NEW c \in Canceller, LookForCommand(c) PROVE LockInv'
  BY <1>23 DEF LookForCommand
<1>24. ASSUME NEW c \in Canceller, PollOutcome(c) PROVE LockInv'
  BY <1>24 DEF PollOutcome
<1>25. ASSUME NEW c \in Canceller, CompareSlot(c) PROVE LockInv'
  BY <1>25 DEF CompareSlot
<1>26. ASSUME NEW c \in Canceller, LockExecution(c) PROVE LockInv'
  BY <1>26 DEF LockExecution
<1>27. ASSUME NEW c \in Canceller, RecordDecision(c) PROVE LockInv'
  BY <1>27 DEF RecordDecision
<1>28. ASSUME NEW c \in Canceller, RecordCompletion(c) PROVE LockInv'
  BY <1>28 DEF RecordCompletion
<1>29. ASSUME NEW c \in Canceller, EnterCancelled(c) PROVE LockInv'
  BY <1>29 DEF EnterCancelled
<1>30. ASSUME NEW c \in Canceller, CancellerCrash(c) PROVE LockInv'
  BY <1>30 DEF CancellerCrash
<1>31. CASE UNCHANGED controlVars
  BY <1>31 DEF controlVars, files, runnerVars, callerVars
<1>32. QED
  BY <1>1, <1>2, <1>3, <1>4, <1>5, <1>6, <1>7, <1>8, <1>9, <1>10, <1>11, <1>12,
     <1>13, <1>14, <1>15, <1>16, <1>17, <1>18, <1>19, <1>20, <1>21, <1>22,
     <1>23, <1>24, <1>25, <1>26, <1>27, <1>28, <1>29, <1>30, <1>31
  DEF ControlNext, Running, Cancelling

\* A second CANCELLATION_COMPLETED needs a canceller that died between it and CANCELLED.
LEMMA CompletionStep ==
  ASSUME ControlTyped, LockInv, CompletionInv, [ControlNext]_controlVars
  PROVE  CompletionInv'
<1> USE CommandBoundsAreNat, Apart DEF ControlTyped, LockInv, CompletionInv,
        CompletionRepeatsOnlyAfterDeath, Locked, files, runnerVars, callerVars
<1>1. CASE Resume
  BY <1>1 DEF Resume
<1>2. CASE TakeLock
  BY <1>2 DEF TakeLock
<1>3. CASE CheckRequest
  BY <1>3 DEF CheckRequest
<1>4. CASE CreateSlot
  BY <1>4 DEF CreateSlot
<1>5. CASE FillSlot
  BY <1>5 DEF FillSlot
<1>6. CASE RecheckRequest
  BY <1>6 DEF RecheckRequest
<1>7. CASE RefuseCommand
  BY <1>7 DEF RefuseCommand
<1>8. CASE Spawn
  BY <1>8 DEF Spawn
<1>9. CASE BindProcess
  BY <1>9 DEF BindProcess
<1>10. CASE ObserveExit
  BY <1>10 DEF ObserveExit
<1>11. CASE Terminate
  BY <1>11 DEF Terminate
<1>12. CASE PublishOutcome
  BY <1>12 DEF PublishOutcome
<1>13. CASE ClearSlot
  BY <1>13 DEF ClearSlot
<1>14. CASE EndRun
  BY <1>14 DEF EndRun
<1>15. CASE ProcessExits
  BY <1>15 DEF ProcessExits
<1>16. CASE RunnerCrash
  BY <1>16 DEF RunnerCrash
<1>17. ASSUME NEW c \in Canceller, Preflight(c) PROVE CompletionInv'
  BY <1>17 DEF Preflight
<1>18. ASSUME NEW c \in Canceller, ReadPolicy(c) PROVE CompletionInv'
  BY <1>18 DEF ReadPolicy
<1>19. ASSUME NEW c \in Canceller, PublishPolicy(c) PROVE CompletionInv'
  BY <1>19 DEF PublishPolicy
<1>20. ASSUME NEW c \in Canceller, FillPolicy(c) PROVE CompletionInv'
  BY <1>20 DEF FillPolicy
<1>21. ASSUME NEW c \in Canceller, PublishRequest(c) PROVE CompletionInv'
  BY <1>21 DEF PublishRequest
<1>22. ASSUME NEW c \in Canceller, FillRequest(c) PROVE CompletionInv'
  BY <1>22 DEF FillRequest
<1>23. ASSUME NEW c \in Canceller, LookForCommand(c) PROVE CompletionInv'
  BY <1>23 DEF LookForCommand
<1>24. ASSUME NEW c \in Canceller, PollOutcome(c) PROVE CompletionInv'
  BY <1>24 DEF PollOutcome
<1>25. ASSUME NEW c \in Canceller, CompareSlot(c) PROVE CompletionInv'
  BY <1>25 DEF CompareSlot
<1>26. ASSUME NEW c \in Canceller, LockExecution(c) PROVE CompletionInv'
  BY <1>26 DEF LockExecution
<1>27. ASSUME NEW c \in Canceller, RecordDecision(c) PROVE CompletionInv'
  BY <1>27 DEF RecordDecision
<1>28. ASSUME NEW c \in Canceller, RecordCompletion(c) PROVE CompletionInv'
  BY <1>28 DEF RecordCompletion
<1>29. ASSUME NEW c \in Canceller, EnterCancelled(c) PROVE CompletionInv'
  BY <1>29 DEF EnterCancelled
<1>30. ASSUME NEW c \in Canceller, CancellerCrash(c) PROVE CompletionInv'
  BY <1>30 DEF CancellerCrash
<1>31. CASE UNCHANGED controlVars
  BY <1>31 DEF controlVars, files, runnerVars, callerVars
<1>32. QED
  BY <1>1, <1>2, <1>3, <1>4, <1>5, <1>6, <1>7, <1>8, <1>9, <1>10, <1>11, <1>12,
     <1>13, <1>14, <1>15, <1>16, <1>17, <1>18, <1>19, <1>20, <1>21, <1>22,
     <1>23, <1>24, <1>25, <1>26, <1>27, <1>28, <1>29, <1>30, <1>31
  DEF ControlNext, Running, Cancelling

\* command_started asks again after its slot is visible, the canceller looks at the slot
\* after its request is: one of them sees the other, and quiet lasts.
LEMMA QuietStep ==
  ASSUME ControlTyped, RunnerInv, DecisionInv, LockInv, QuietInv, [ControlNext]_controlVars
  PROVE  QuietInv'
<1> USE CommandBoundsAreNat, Apart DEF ControlTyped, RunnerInv, DecisionInv, LockInv,
        QuietInv, Quiet, SlotIsWhole, NotAlive, SlotCoversProcess, Decides,
        PolicyStands, RequestStands, Locked, DecisionsAgree, Command, Decision, files,
        runnerVars, callerVars
<1>1. CASE Resume
  BY <1>1 DEF Resume
<1>2. CASE TakeLock
  BY <1>2 DEF TakeLock
<1>3. CASE CheckRequest
  BY <1>3 DEF CheckRequest
<1>4. CASE CreateSlot
  BY <1>4 DEF CreateSlot
<1>5. CASE FillSlot
  BY <1>5 DEF FillSlot
<1>6. CASE RecheckRequest
  BY <1>6 DEF RecheckRequest
<1>7. CASE RefuseCommand
  BY <1>7 DEF RefuseCommand
<1>8. CASE Spawn
  BY <1>8 DEF Spawn
<1>9. CASE BindProcess
  BY <1>9 DEF BindProcess
<1>10. CASE ObserveExit
  BY <1>10 DEF ObserveExit
<1>11. CASE Terminate
  BY <1>11 DEF Terminate
<1>12. CASE PublishOutcome
  BY <1>12 DEF PublishOutcome
<1>13. CASE ClearSlot
  BY <1>13 DEF ClearSlot
<1>14. CASE EndRun
  BY <1>14 DEF EndRun
<1>15. CASE ProcessExits
  BY <1>15 DEF ProcessExits
<1>16. CASE RunnerCrash
  BY <1>16 DEF RunnerCrash
<1>17. ASSUME NEW c \in Canceller, Preflight(c) PROVE QuietInv'
  BY <1>17 DEF Preflight
<1>18. ASSUME NEW c \in Canceller, ReadPolicy(c) PROVE QuietInv'
  BY <1>18 DEF ReadPolicy
<1>19. ASSUME NEW c \in Canceller, PublishPolicy(c) PROVE QuietInv'
  BY <1>19 DEF PublishPolicy
<1>20. ASSUME NEW c \in Canceller, FillPolicy(c) PROVE QuietInv'
  BY <1>20 DEF FillPolicy
<1>21. ASSUME NEW c \in Canceller, PublishRequest(c) PROVE QuietInv'
  BY <1>21 DEF PublishRequest
<1>22. ASSUME NEW c \in Canceller, FillRequest(c) PROVE QuietInv'
  BY <1>22 DEF FillRequest
<1>23. ASSUME NEW c \in Canceller, LookForCommand(c) PROVE QuietInv'
  BY <1>23 DEF LookForCommand
<1>24. ASSUME NEW c \in Canceller, PollOutcome(c) PROVE QuietInv'
  BY <1>24 DEF PollOutcome
<1>25. ASSUME NEW c \in Canceller, CompareSlot(c) PROVE QuietInv'
  BY <1>25 DEF CompareSlot
<1>26. ASSUME NEW c \in Canceller, LockExecution(c) PROVE QuietInv'
  BY <1>26 DEF LockExecution
<1>27. ASSUME NEW c \in Canceller, RecordDecision(c) PROVE QuietInv'
  BY <1>27 DEF RecordDecision
<1>28. ASSUME NEW c \in Canceller, RecordCompletion(c) PROVE QuietInv'
  BY <1>28 DEF RecordCompletion
<1>29. ASSUME NEW c \in Canceller, EnterCancelled(c) PROVE QuietInv'
  BY <1>29 DEF EnterCancelled
<1>30. ASSUME NEW c \in Canceller, CancellerCrash(c) PROVE QuietInv'
  BY <1>30 DEF CancellerCrash
<1>31. CASE UNCHANGED controlVars
  BY <1>31 DEF controlVars, files, runnerVars, callerVars
<1>32. QED
  BY <1>1, <1>2, <1>3, <1>4, <1>5, <1>6, <1>7, <1>8, <1>9, <1>10, <1>11, <1>12,
     <1>13, <1>14, <1>15, <1>16, <1>17, <1>18, <1>19, <1>20, <1>21, <1>22,
     <1>23, <1>24, <1>25, <1>26, <1>27, <1>28, <1>29, <1>30, <1>31
  DEF ControlNext, Running, Cancelling

-----------------------------------------------------------------------------
(* The theorems.                                                           *)

\* Everything a canceller relies on, at once: the invariant that the other two follow from.
THEOREM CancellationIsInductive == ControlSpec => []CancellationInv
<1>1. ControlInit => CancellationInv
  BY CommandBoundsAreNat, Apart
  DEF ControlInit, CancellationInv, ControlTyped, RunnerInv, DecisionInv, LockInv, CompletionInv,
      QuietInv, Decision, Command, RunnerPlaces, CallerPlaces, Results, Reports,
      SlotIsWhole, NotAlive, SlotCoversProcess, Decides, PolicyStands, RequestStands,
      Locked, DecisionsAgree, CompletionRepeatsOnlyAfterDeath
<1>2. CancellationInv /\ [ControlNext]_controlVars => CancellationInv'
  BY ControlTypeStep, RunnerStep, DecisionStep, LockStep, CompletionStep, QuietStep
  DEF CancellationInv
<1> QED
  BY <1>1, <1>2, PTL DEF ControlSpec

\* The control files, torn ones included, stand for one decision, the slot for every live
\* process, and completions are paid for by deaths: the code's O_EXCL files and its
\* reading back of the policy suffice, however many processes cancel.
THEOREM ControlIsSound == ControlSpec => []ControlInv
<1>1. CancellationInv => ControlInv
  BY DEF CancellationInv, RunnerInv, DecisionInv, CompletionInv, ControlInv
<1> QED
  BY <1>1, CancellationIsInductive, PTL

\* wait_for_quiescence tells the truth and goes on telling it: from then on nothing is
\* alive and nothing can be spawned, up to CANCELLED and after it.
THEOREM QuiescenceLasts == ControlSpec => []QuiescentMeansQuiet
<1>1. CancellationInv => QuiescentMeansQuiet
  BY DEF CancellationInv, QuietInv, Quiet, QuiescentMeansQuiet
<1> QED
  BY <1>1, CancellationIsInductive, PTL
=============================================================================
