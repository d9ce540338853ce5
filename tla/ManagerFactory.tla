--------------------------- MODULE ManagerFactory ---------------------------
(***************************************************************************)
(* resourceManagerFactory.ManagerFor (manager_factory.go): reconcile       *)
(* workers ask for the resource manager of an account, region and role     *)
(* (rmId).  A shared map caches the managers under a sync.RWMutex: a look  *)
(* under the read lock, and on a miss a new manager stored under the write *)
(* lock, without a second look.                                            *)
(*                                                                         *)
(* The lock is Go's: a writer that waits keeps new readers out.            *)
(***************************************************************************)
CONSTANTS
  Workers,  \* concurrent reconciles
  RmIds,    \* account/region/role combinations
  None      \* no manager

Managers == [rmId : RmIds, maker : Workers]

ASSUME NoneAssumption == None \notin Managers \union Workers

VARIABLES
  pc,       \* what each worker does next
  want,     \* the rmId it asks for
  found,    \* what it read from the cache, then what it returns
  rmCache,  \* rmId -> manager, None where there is no entry
  readers,  \* workers that hold the read lock
  writer,   \* the worker that holds the write lock, or None
  waiting,  \* workers that wait for the write lock
  hadEntry  \* history: the workers whose rmId was cached when the call began

vars == <<pc, want, found, rmCache, readers, writer, waiting, hadEntry>>

Steps == {"idle", "rlock", "lookup", "runlock", "lock", "wait", "store",
          "unlock"}

TypeOK ==
  /\ pc \in [Workers -> Steps]
  /\ want \in [Workers -> RmIds]
  /\ found \in [Workers -> Managers \union {None}]
  /\ rmCache \in [RmIds -> Managers \union {None}]
  /\ readers \subseteq Workers
  /\ writer \in Workers \union {None}
  /\ waiting \subseteq Workers
  /\ hadEntry \subseteq Workers

Init ==
  /\ pc = [w \in Workers |-> "idle"]
  /\ want \in [Workers -> RmIds]
  /\ found = [w \in Workers |-> None]
  /\ rmCache = [i \in RmIds |-> None]
  /\ readers = {} /\ writer = None /\ waiting = {}
  /\ hadEntry = {}

\* ManagerFor is called for some rmId
Call(w, i) ==
  /\ pc[w] = "idle"
  /\ pc' = [pc EXCEPT ![w] = "rlock"]
  /\ want' = [want EXCEPT ![w] = i]
  /\ found' = [found EXCEPT ![w] = None]
  /\ hadEntry' = IF rmCache[i] # None THEN hadEntry \union {w}
                                      ELSE hadEntry \ {w}
  /\ UNCHANGED <<rmCache, readers, writer, waiting>>

RLock(w) ==
  /\ pc[w] = "rlock"
  /\ writer = None /\ waiting = {}
  /\ readers' = readers \union {w}
  /\ pc' = [pc EXCEPT ![w] = "lookup"]
  /\ UNCHANGED <<want, found, rmCache, writer, waiting, hadEntry>>

\* rm, found := f.rmCache[rmId]
Lookup(w) ==
  /\ pc[w] = "lookup"
  /\ found' = [found EXCEPT ![w] = rmCache[want[w]]]
  /\ pc' = [pc EXCEPT ![w] = "runlock"]
  /\ UNCHANGED <<want, rmCache, readers, writer, waiting, hadEntry>>

\* faulty: a miss asks for the write lock with the read lock in hand
RUnlockAfterHit(w) ==
  /\ pc[w] = "runlock"
  /\ readers' = IF found[w] # None THEN readers \ {w} ELSE readers
  /\ pc' = [pc EXCEPT ![w] = IF found[w] # None THEN "idle" ELSE "lock"]
  /\ UNCHANGED <<want, found, rmCache, writer, waiting, hadEntry>>

\* a hit returns
RUnlock(w) ==
  /\ pc[w] = "runlock"
  /\ readers' = readers \ {w}
  /\ pc' = [pc EXCEPT ![w] = IF found[w] # None THEN "idle" ELSE "lock"]
  /\ UNCHANGED <<want, found, rmCache, writer, waiting, hadEntry>>

\* f.Lock() announces the writer, then waits
Lock(w) ==
  /\ pc[w] = "lock"
  /\ waiting' = waiting \union {w}
  /\ pc' = [pc EXCEPT ![w] = "wait"]
  /\ UNCHANGED <<want, found, rmCache, readers, writer, hadEntry>>

\* faulty: the write lock does not wait for the readers
LockedIgnoresReaders(w) ==
  /\ pc[w] = "wait"
  /\ writer = None
  /\ waiting' = waiting \ {w}
  /\ writer' = w
  /\ pc' = [pc EXCEPT ![w] = "store"]
  /\ UNCHANGED <<want, found, rmCache, readers, hadEntry>>

Locked(w) ==
  /\ pc[w] = "wait"
  /\ writer = None /\ readers = {}
  /\ waiting' = waiting \ {w}
  /\ writer' = w
  /\ pc' = [pc EXCEPT ![w] = "store"]
  /\ UNCHANGED <<want, found, rmCache, readers, hadEntry>>

\* faulty: the new manager is not put into the cache
StoreNothing(w) ==
  LET rm == [rmId |-> want[w], maker |-> w]
  IN
  /\ pc[w] = "store"
  /\ found' = [found EXCEPT ![w] = rm]
  /\ pc' = [pc EXCEPT ![w] = "unlock"]
  /\ UNCHANGED <<want, rmCache, readers, writer, waiting, hadEntry>>

\* faulty: one entry is kept, the last one
StoreOnlyLast(w) ==
  LET rm == [rmId |-> want[w], maker |-> w]
  IN
  /\ pc[w] = "store"
  /\ rmCache' = [i \in RmIds |-> IF i = want[w] THEN rm ELSE None]
  /\ found' = [found EXCEPT ![w] = rm]
  /\ pc' = [pc EXCEPT ![w] = "unlock"]
  /\ UNCHANGED <<want, readers, writer, waiting, hadEntry>>

\* faulty: the cache key leaves out what tells the combinations apart
StoreForAll(w) ==
  LET rm == [rmId |-> want[w], maker |-> w]
  IN
  /\ pc[w] = "store"
  /\ rmCache' = [i \in RmIds |-> rm]
  /\ found' = [found EXCEPT ![w] = rm]
  /\ pc' = [pc EXCEPT ![w] = "unlock"]
  /\ UNCHANGED <<want, readers, writer, waiting, hadEntry>>

\* newResourceManager; f.rmCache[rmId] = rm, over an entry made meanwhile
Store(w) ==
  LET rm == [rmId |-> want[w], maker |-> w]
  IN
  /\ pc[w] = "store"
  /\ rmCache' = [rmCache EXCEPT ![want[w]] = rm]
  /\ found' = [found EXCEPT ![w] = rm]
  /\ pc' = [pc EXCEPT ![w] = "unlock"]
  /\ UNCHANGED <<want, readers, writer, waiting, hadEntry>>

\* the deferred unlock
Unlock(w) ==
  /\ pc[w] = "unlock"
  /\ writer' = None
  /\ pc' = [pc EXCEPT ![w] = "idle"]
  /\ UNCHANGED <<want, found, rmCache, readers, waiting, hadEntry>>

ManagerFor(w) ==
  \/ RLock(w) \/ Lookup(w) \/ RUnlock(w)
  \/ Lock(w) \/ Locked(w) \/ Store(w) \/ Unlock(w)

Next == \E w \in Workers : ManagerFor(w) \/ \E i \in RmIds : Call(w, i)

Spec == Init /\ [][Next]_vars

\* A goroutine inside ManagerFor runs on; nobody has to call it.
FairSpec == Spec /\ \A w \in Workers : WF_vars(ManagerFor(w))

-----------------------------------------------------------------------------

\* The map is never read while it is written (Go aborts the process), and has
\* one writer at a time.
NoConcurrentMapAccess ==
  \A w \in Workers : pc[w] = "store" =>
    \A v \in Workers \ {w} : pc[v] \notin {"lookup", "store"}

\* A call that has returned handed out a manager for the account, region and
\* role it was asked for, whatever was cached meanwhile.
RightManager ==
  \A w \in Workers :
    (pc[w] = "idle" /\ found[w] # None) => found[w].rmId = want[w]

\* A combination that was cached when the call began is served from the
\* cache: the call never takes the write lock and makes no manager.
CachedIsReused ==
  \A w \in Workers :
    w \in hadEntry => pc[w] \notin {"lock", "wait", "store", "unlock"}

\* The calls under way never all wait for each other: one of them gets its lock
\* or holds it already.
MovesOn(w) ==
  CASE pc[w] = "rlock" -> writer = None /\ waiting = {}
    [] pc[w] = "wait"  -> writer = None /\ readers = {}
    [] OTHER           -> pc[w] # "idle"

NobodyIsStuck ==
  (\E w \in Workers : pc[w] # "idle") => \E w \in Workers : MovesOn(w)

\* Every call returns: readers do not starve behind writers nor writers
\* behind readers.
CallsReturn == \A w \in Workers : pc[w] = "rlock" ~> pc[w] = "idle"

\* manager_factory.go, comment in ManagerFor: the cache "helps us to avoid
\* creating multiple resource managers for the same account/region/roleARN
\* combination".  Then nobody holds two different ones.
OneManagerPerRmId ==
  \A w, v \in Workers :
    (found[w] # None /\ found[v] # None /\ want[w] = want[v])
      => found[w] = found[v]

=============================================================================
