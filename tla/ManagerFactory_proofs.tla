------------------------ MODULE ManagerFactory_proofs ------------------------
(***************************************************************************)
(* Proofs about ManagerFactory, for any number of workers and of           *)
(* account/region/role combinations.                                       *)
(***************************************************************************)
EXTENDS ManagerFactory, TLAPS

\* Who holds the lock is where it says it is, and a writer is alone.
LockInv ==
  /\ \A w \in Workers : w \in readers <=> pc[w] \in {"lookup", "runlock"}
  /\ \A w \in Workers : writer = w <=> pc[w] \in {"store", "unlock"}
  /\ \A w \in Workers : w \in waiting <=> pc[w] = "wait"
  /\ writer # None => readers = {}

\* A manager in the cache, or in a worker's hand, is for its rmId.
ManagerInv ==
  /\ \A i \in RmIds : rmCache[i] # None => rmCache[i].rmId = i
  /\ \A w \in Workers : found[w] # None => found[w].rmId = want[w]

\* Entries stay, so a call that began with an entry finds one.
EntryInv ==
  \A w \in Workers : w \in hadEntry =>
    /\ rmCache[want[w]] # None
    /\ pc[w] = "runlock" => found[w] # None
    /\ pc[w] \notin {"lock", "wait", "store", "unlock"}

IInv == TypeOK /\ LockInv /\ ManagerInv /\ EntryInv

-----------------------------------------------------------------------------

\* The state variables keep their types through every step of ManagerFor.
THEOREM FactoryTypeCorrect == Spec => []TypeOK
<1>1. Init => TypeOK
  BY DEF Init, TypeOK, Steps
<1>2. TypeOK /\ [Next]_vars => TypeOK'
  <2> SUFFICES ASSUME TypeOK, [Next]_vars PROVE TypeOK'
    OBVIOUS
  <2> USE DEF TypeOK, Steps, Managers
  <2>1. ASSUME NEW w \in Workers, NEW i \in RmIds, Call(w, i) PROVE TypeOK'
    BY <2>1 DEF Call
  <2>2. ASSUME NEW w \in Workers, RLock(w) PROVE TypeOK'
    BY <2>2 DEF RLock
  <2>3. ASSUME NEW w \in Workers, Lookup(w) PROVE TypeOK'
    BY <2>3 DEF Lookup
  <2>4. ASSUME NEW w \in Workers, RUnlock(w) PROVE TypeOK'
    BY <2>4 DEF RUnlock
  <2>5. ASSUME NEW w \in Workers, Lock(w) PROVE TypeOK'
    BY <2>5 DEF Lock
  <2>6. ASSUME NEW w \in Workers, Locked(w) PROVE TypeOK'
    BY <2>6 DEF Locked
  <2>7. ASSUME NEW w \in Workers, Store(w) PROVE TypeOK'
    BY <2>7 DEF Store
  <2>8. ASSUME NEW w \in Workers, Unlock(w) PROVE TypeOK'
    BY <2>8 DEF Unlock
  <2>9. CASE UNCHANGED vars
    BY <2>9 DEF vars
  <2>10. QED
    BY <2>1, <2>2, <2>3, <2>4, <2>5, <2>6, <2>7, <2>8, <2>9
       DEF Next, ManagerFor
<1>3. QED
  BY <1>1, <1>2, PTL DEF Spec

\* The invariant of the lock, the cache and the calls under way.
THEOREM FactoryInvariant == Spec => []IInv
<1>1. Init => IInv
  BY NoneAssumption
     DEF Init, IInv, TypeOK, Steps, LockInv, ManagerInv, EntryInv
<1>2. IInv /\ TypeOK' /\ [Next]_vars => IInv'
  <2> SUFFICES ASSUME IInv, TypeOK', [Next]_vars
               PROVE  LockInv' /\ ManagerInv' /\ EntryInv'
    BY DEF IInv
  <2> USE NoneAssumption DEF IInv, TypeOK, Steps, Managers
  <2>1. ASSUME NEW w \in Workers, NEW i \in RmIds, Call(w, i)
       PROVE  LockInv' /\ ManagerInv' /\ EntryInv'
    <3>1. LockInv'
      BY <2>1 DEF Call, LockInv
    <3>2. ManagerInv'
      BY <2>1 DEF Call, ManagerInv
    <3>3. EntryInv'
      BY <2>1 DEF Call, EntryInv
    <3>4. QED
      BY <3>1, <3>2, <3>3
  <2>2. ASSUME NEW w \in Workers, RLock(w)
       PROVE  LockInv' /\ ManagerInv' /\ EntryInv'
    <3>1. LockInv'
      BY <2>2 DEF RLock, LockInv
    <3>2. ManagerInv'
      BY <2>2 DEF RLock, ManagerInv
    <3>3. EntryInv'
      BY <2>2 DEF RLock, EntryInv
    <3>4. QED
      BY <3>1, <3>2, <3>3
  <2>3. ASSUME NEW w \in Workers, Lookup(w)
       PROVE  LockInv' /\ ManagerInv' /\ EntryInv'
    <3>1. LockInv'
      BY <2>3 DEF Lookup, LockInv
    <3>2. ManagerInv'
      BY <2>3 DEF Lookup, ManagerInv
    <3>3. EntryInv'
      BY <2>3 DEF Lookup, EntryInv
    <3>4. QED
      BY <3>1, <3>2, <3>3
  <2>4. ASSUME NEW w \in Workers, RUnlock(w)
       PROVE  LockInv' /\ ManagerInv' /\ EntryInv'
    <3>1. LockInv'
      BY <2>4 DEF RUnlock, LockInv
    <3>2. ManagerInv'
      BY <2>4 DEF RUnlock, ManagerInv
    <3>3. EntryInv'
      BY <2>4 DEF RUnlock, EntryInv
    <3>4. QED
      BY <3>1, <3>2, <3>3
  <2>5. ASSUME NEW w \in Workers, Lock(w)
       PROVE  LockInv' /\ ManagerInv' /\ EntryInv'
    <3>1. LockInv'
      BY <2>5 DEF Lock, LockInv
    <3>2. ManagerInv'
      BY <2>5 DEF Lock, ManagerInv
    <3>3. EntryInv'
      BY <2>5 DEF Lock, EntryInv
    <3>4. QED
      BY <3>1, <3>2, <3>3
  <2>6. ASSUME NEW w \in Workers, Locked(w)
       PROVE  LockInv' /\ ManagerInv' /\ EntryInv'
    <3>1. LockInv'
      BY <2>6 DEF Locked, LockInv
    <3>2. ManagerInv'
      BY <2>6 DEF Locked, ManagerInv
    <3>3. EntryInv'
      BY <2>6 DEF Locked, EntryInv
    <3>4. QED
      BY <3>1, <3>2, <3>3
  <2>7. ASSUME NEW w \in Workers, Store(w)
       PROVE  LockInv' /\ ManagerInv' /\ EntryInv'
    <3>1. LockInv'
      BY <2>7 DEF Store, LockInv
    <3>2. ManagerInv'
      BY <2>7 DEF Store, ManagerInv
    <3>3. EntryInv'
      BY <2>7 DEF Store, EntryInv
    <3>4. QED
      BY <3>1, <3>2, <3>3
  <2>8. ASSUME NEW w \in Workers, Unlock(w)
       PROVE  LockInv' /\ ManagerInv' /\ EntryInv'
    <3>1. LockInv'
      BY <2>8 DEF Unlock, LockInv
    <3>2. ManagerInv'
      BY <2>8 DEF Unlock, ManagerInv
    <3>3. EntryInv'
      BY <2>8 DEF Unlock, EntryInv
    <3>4. QED
      BY <3>1, <3>2, <3>3
  <2>9. CASE UNCHANGED vars
    BY <2>9 DEF vars, LockInv, ManagerInv, EntryInv
  <2>10. QED
    BY <2>1, <2>2, <2>3, <2>4, <2>5, <2>6, <2>7, <2>8, <2>9
       DEF Next, ManagerFor
<1>3. QED
  BY <1>1, <1>2, FactoryTypeCorrect, PTL DEF Spec

\* The map of the factory is never read while it is written, nor written by
\* two workers at once.
THEOREM FactoryMapAccess == Spec => []NoConcurrentMapAccess
<1>1. IInv => NoConcurrentMapAccess
  BY NoneAssumption DEF IInv, TypeOK, LockInv, NoConcurrentMapAccess
<1>2. QED
  BY <1>1, FactoryInvariant, PTL

\* ManagerFor returns a manager of the combination it was asked for.
THEOREM FactoryRightManager == Spec => []RightManager
<1>1. IInv => RightManager
  BY DEF IInv, ManagerInv, RightManager
<1>2. QED
  BY <1>1, FactoryInvariant, PTL

\* A combination that was cached when the call began never costs a second
\* manager.
THEOREM FactoryCachedIsReused == Spec => []CachedIsReused
<1>1. IInv => CachedIsReused
  BY DEF IInv, EntryInv, CachedIsReused
<1>2. QED
  BY <1>1, FactoryInvariant, PTL

\* The lock of the factory cannot make its callers wait for each other in a
\* ring: among the calls under way one can always go on.
THEOREM FactoryNobodyIsStuck == Spec => []NobodyIsStuck
<1>1. IInv => NobodyIsStuck
  <2> SUFFICES ASSUME IInv, NEW v \in Workers, pc[v] # "idle"
               PROVE  \E w \in Workers : MovesOn(w)
    BY DEF NobodyIsStuck
  <2> USE DEF IInv, TypeOK, LockInv, MovesOn
  <2>1. CASE writer # None
    <3>1. writer \in Workers /\ pc[writer] \in {"store", "unlock"}
      BY <2>1
    <3>2. QED
      BY <3>1
  <2>2. ASSUME NEW w \in readers
        PROVE  \E u \in Workers : MovesOn(u)
    <3>1. w \in Workers /\ pc[w] \in {"lookup", "runlock"}
      OBVIOUS
    <3>2. QED
      BY <3>1
  <2>3. CASE writer = None /\ readers = {}
    <3>1. ASSUME NEW w \in waiting
          PROVE  \E u \in Workers : MovesOn(u)
      <4>1. w \in Workers /\ pc[w] = "wait"
        OBVIOUS
      <4>2. QED
        BY <2>3, <4>1
    <3>2. CASE waiting = {}
      BY <2>3, <3>2
    <3>3. QED
      BY <3>1, <3>2
  <2>4. QED
    BY <2>1, <2>2, <2>3
<1>2. QED
  BY <1>1, FactoryInvariant, PTL

=============================================================================
