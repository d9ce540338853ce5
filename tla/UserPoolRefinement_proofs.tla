----------------------- MODULE UserPoolRefinement_proofs ----------------------
(***************************************************************************)
(* What UserPoolReconcile implements, and what implements it.              *)
(*                                                                         *)
(* It implements PoolLifecycle: its first state maps to a first state, and *)
(* every step of user, service, faults and controller to a step of         *)
(* PoolLifecycle or to none.  So what PoolLifecycle promises holds of the  *)
(* controller.  Replicas with leader election implement it, for every      *)
(* number of replicas: at most one of them works, and their steps are      *)
(* steps of one controller.  So they keep the promise too.                 *)
(***************************************************************************)
EXTENDS UserPoolRefinement, Replicas, UserPoolQuiet_proofs, FiniteSetTheorems

\* A step of PoolLifecycle under the mapping, or none.
Allowed == [Lifecycle!Next]_(Lifecycle!lifecycle)

-----------------------------------------------------------------------------
(* The mapping                                                             *)

LEMMA RoleIs ==
  ASSUME TypeOK, NEW p \in PoolIds
  PROVE  RoleOfPool(p) = IF pools[p].state = "unused" THEN "fresh"
                         ELSE IF pools[p].state = "gone" THEN "gone"
                         ELSE IF p = cr.res.id THEN "own"
                         ELSE IF p \in Carried THEN "coming" ELSE "orphan"
BY PoolStates DEF RoleOfPool, Live

LEMMA RoleWillBe ==
  ASSUME TypeOK', NEW p \in PoolIds
  PROVE  RoleOfPool(p)' = IF pools'[p].state = "unused" THEN "fresh"
                          ELSE IF pools'[p].state = "gone" THEN "gone"
                          ELSE IF p = cr'.res.id THEN "own"
                          ELSE IF p \in Carried' THEN "coming" ELSE "orphan"
<1>1. pools'[p].state \in {"unused", "live", "gone"}
  BY DEF TypeOK, Pools
<1>2. QED
  BY <1>1 DEF RoleOfPool, Live

LEMMA RolesStay ==
  ASSUME \A q \in PoolIds : RoleOfPool(q)' = RoleOfPool(q)
  PROVE  RoleOfPools' = RoleOfPools
BY DEF RoleOfPools

LEMMA RoleTurns ==
  ASSUME NEW p \in PoolIds,
         \A q \in PoolIds \ {p} : RoleOfPool(q)' = RoleOfPool(q)
  PROVE  Lifecycle!Turns(p, RoleOfPool(p), RoleOfPool(p)')
BY DEF RoleOfPools, Lifecycle!Turns

\* What the carried pool is, whatever the location.
LEMMA CarriedIs ==
  ASSUME NEW q \in Carried
  PROVE  q = latest.id /\ q \in PoolIds /\ q # cr.res.id /\ Live(q)
BY DEF Carried, InHandId

LEMMA DependingIs ==
  ASSUME TypeOK, Carried = {}, ~Live(cr.res.id)
  PROVE  Lifecycle!Depending = {}
<1>1. \A q \in PoolIds : RoleOfPool(q) \notin {"coming", "own"}
  BY RoleIs, PoolStates DEF Live
<1>2. QED
  BY <1>1 DEF Lifecycle!Depending, Lifecycle!InRole, RoleOfPools

LEMMA ObjectIs ==
  ASSUME TypeOK
  PROVE  /\ ~cr.present => ObjectOfCR = "none"
         /\ cr.present /\ ~cr.managed => ObjectOfCR = "free"
         /\ cr.present /\ cr.managed /\ ~cr.deleting => ObjectOfCR = "held"
         /\ cr.present /\ cr.managed /\ cr.deleting => ObjectOfCR = "leaving"
BY DEF ObjectOfCR

LEMMA ObjectWillBe ==
  ASSUME TypeOK'
  PROVE  /\ ~cr'.present => ObjectOfCR' = "none"
         /\ cr'.present /\ ~cr'.managed => ObjectOfCR' = "free"
         /\ cr'.present /\ cr'.managed /\ ~cr'.deleting
              => ObjectOfCR' = "held"
         /\ cr'.present /\ cr'.managed /\ cr'.deleting
              => ObjectOfCR' = "leaving"
BY DEF ObjectOfCR

\* A finalizer held with the CR: the object is held or leaving.
LEMMA ManagedObject ==
  ASSUME TypeOK, PassInvariant, cr.managed
  PROVE  ObjectOfCR \in {"held", "leaving"}
BY CRParts, ObjectIs DEF PassInvariant, CRShape

LEMMA SameObject ==
  ASSUME cr'.present = cr.present, cr'.managed = cr.managed,
         cr'.deleting = cr.deleting
  PROVE  ObjectOfCR' = ObjectOfCR
BY DEF ObjectOfCR

-----------------------------------------------------------------------------
(* The kinds of steps                                                      *)

\* Nothing PoolLifecycle speaks of changes, apart from the count of mishaps.
LEMMA NothingMoves ==
  ASSUME TypeOK, TypeOK', faults' \in {faults, faults + 1},
         \A q \in PoolIds : pools'[q].state = pools[q].state,
         cr'.res.id = cr.res.id, Carried' = Carried,
         ObjectOfCR' = ObjectOfCR
  PROVE  Allowed
<1>1. RoleOfPools' = RoleOfPools
  BY RoleIs, RoleWillBe, RolesStay
<1>2. CASE faults' = faults
  BY <1>1, <1>2 DEF Allowed, Lifecycle!lifecycle
<1>3. CASE faults' = faults + 1
  BY <1>1, <1>3
     DEF Allowed, Lifecycle!Next, Lifecycle!Harmless, Lifecycle!Mishap
<1>4. QED
  BY <1>2, <1>3

\* A call of the worker that leaves the CR and the states of the pools alone.
LEMMA WorkerMoves ==
  ASSUME TypeOK, TypeOK', faults' \in {faults, faults + 1}, UNCHANGED cr,
         \A q \in PoolIds : pools'[q].state = pools[q].state,
         Carried' = Carried
  PROVE  Allowed
BY NothingMoves, SameObject

\* A pass that fails with the CR's own id in hand carries nothing afterwards.
LEMMA FailsEmptyHanded ==
  ASSUME TypeOK, PassInvariant, pc # "idle", UNCHANGED cr,
         NEW res \in Resources, NEW err \in Errors, Fails(res, err),
         res.id = desired.id
  PROVE  Carried' = {}
<1>1. latest'.id = cr'.res.id
  BY AnswerIds DEF Fails, PassInvariant, CopyStillGood
<1>2. QED
  BY <1>1 DEF Carried, InHandId

\* Away from SyncTags and the patches nothing is carried.
LEMMA NothingCarried ==
  ASSUME pc \notin {"tag", "untag", "patch", "status"}
  PROVE  Carried = {}
BY DEF Carried

LEMMA NothingCarriedNext ==
  ASSUME pc' \notin {"tag", "untag", "patch", "status"}
  PROVE  Carried' = {}
BY DEF Carried

\* A worker that holds the CR's own id carries nothing.
LEMMA OwnIdNotCarried ==
  ASSUME latest.id = cr.res.id
  PROVE  Carried = {}
BY DEF Carried, InHandId

LEMMA OwnIdNotCarriedNext ==
  ASSUME latest'.id = cr'.res.id
  PROVE  Carried' = {}
BY DEF Carried, InHandId

\* The same pool is carried on.
LEMMA CarriesOn ==
  ASSUME pc \in {"tag", "untag", "patch", "status"},
         pc' \in {"tag", "untag", "patch", "status"},
         latest'.id = latest.id, cr'.res.id = cr.res.id,
         \A q \in PoolIds : pools'[q].state = pools[q].state
  PROVE  Carried' = Carried
BY DEF Carried, InHandId, Live

\* A pass ends by a fault: what it carried is an orphan now.
LEMMA PassIsCut ==
  ASSUME TypeOK, TypeOK', UNCHANGED <<cr, pools>>, pc' = "idle",
         faults' = faults + 1
  PROVE  Allowed
<1>1. Carried' = {}
  BY NothingCarriedNext
<1>2. CASE Carried = {}
  BY <1>1, <1>2, WorkerMoves
<1>3. ASSUME NEW p \in Carried
      PROVE  Allowed
  <2>1. p \in PoolIds /\ Live(p) /\ p # cr.res.id /\ p = latest.id
    BY <1>3, CarriedIs
  <2>2. RoleOfPool(p) = "coming" /\ RoleOfPool(p)' = "orphan"
    BY <1>1, <1>3, <2>1, RoleIs, RoleWillBe DEF Live
  <2>3. \A q \in PoolIds \ {p} : RoleOfPool(q)' = RoleOfPool(q)
    BY <1>1, <2>1, RoleIs, RoleWillBe, CarriedIs
  <2>4. ObjectOfCR' = ObjectOfCR
    BY SameObject
  <2>5. Lifecycle!Orphaned(p)
    BY <2>1, <2>2, <2>3, <2>4, RoleTurns
       DEF Lifecycle!Orphaned, Lifecycle!Mishap
  <2>6. QED
    BY <2>1, <2>5 DEF Allowed, Lifecycle!Next
<1>4. QED
  BY <1>2, <1>3

\* A live pool goes: by the controller, or by somebody else.
LEMMA PoolGoes ==
  ASSUME TypeOK, TypeOK', NEW p \in PoolIds, Live(p), UNCHANGED cr,
         pools' = [pools EXCEPT ![p] = PoolGone],
         Carried' = Carried \ {p}
  PROVE  /\ RoleOfPool(p) \in {"coming", "own", "orphan"}
         /\ RoleOfPool(p)' = "gone"
         /\ \A q \in PoolIds \ {p} : RoleOfPool(q)' = RoleOfPool(q)
         /\ ObjectOfCR' = ObjectOfCR
<1>1. \A q \in PoolIds :
        pools'[q].state = IF q = p THEN "gone" ELSE pools[q].state
  BY GonePools
<1>2. QED
  BY <1>1, RoleIs, RoleWillBe, SameObject DEF Live

\* The controller deletes the CR's own pool, and only when the CR is leaving.
LEMMA OwnPoolGoes ==
  ASSUME TypeOK, TypeOK', PassInvariant, NEW p \in PoolIds, Live(p),
         pc = "delete", p = latest.id, UNCHANGED cr,
         pools' = [pools EXCEPT ![p] = PoolGone],
         faults' \in {faults, faults + 1}, Carried' = {}
  PROVE  Allowed
<1>1. Carried = {} /\ p = cr.res.id /\ cr.deleting /\ cr.managed
      /\ cr.present
  BY NothingCarried DEF PassInvariant, LocationTells, CopyStillGood, CRShape
<1>2. /\ RoleOfPool(p)' = "gone"
      /\ \A q \in PoolIds \ {p} : RoleOfPool(q)' = RoleOfPool(q)
      /\ ObjectOfCR' = ObjectOfCR
  BY <1>1, PoolGoes
<1>3. RoleOfPool(p) = "own"
  BY <1>1, RoleIs DEF Live
<1>4. Lifecycle!Turns(p, "own", "gone")
  BY <1>2, <1>3, RoleTurns
<1>5. ObjectOfCR = "leaving"
  BY <1>1, ObjectIs
<1>6. Lifecycle!Deleted(p)
  BY <1>2, <1>4, <1>5
     DEF Lifecycle!Deleted, Lifecycle!Mishap, Lifecycle!NoMishap
<1>7. QED
  BY <1>6 DEF Allowed, Lifecycle!Next

\* CreateUserPool takes effect: nothing depends on the CR before.
LEMMA PoolComes ==
  ASSUME TypeOK, TypeOK', PassInvariant, NEW p \in PoolIds, pc = "create",
         pools[p].state = "unused",
         pools' = [pools EXCEPT ![p] = NewPool(desired)], UNCHANGED cr,
         \/ Carried' = {p} /\ faults' = faults
         \/ Carried' = {} /\ faults' = faults + 1
  PROVE  Allowed
<1>1. Carried = {} /\ ~Live(cr.res.id) /\ cr.managed /\ cr.res.id # p
  BY NothingCarried, ReconcileAssumption
     DEF PassInvariant, LocationTells, CopyStillGood, CRShape
<1>2. Lifecycle!Depending = {} /\ ObjectOfCR \in {"held", "leaving"}
  BY <1>1, DependingIs, ManagedObject
<1>3. \A q \in PoolIds :
        pools'[q].state = IF q = p THEN "live" ELSE pools[q].state
  BY NewPoolLives
<1>4. /\ RoleOfPool(p) = "fresh"
      /\ RoleOfPool(p)' = IF p \in Carried' THEN "coming" ELSE "orphan"
      /\ \A q \in PoolIds \ {p} : RoleOfPool(q)' = RoleOfPool(q)
  BY <1>1, <1>3, RoleIs, RoleWillBe
<1>5. Lifecycle!Turns(p, "fresh", RoleOfPool(p)')
  BY <1>4, RoleTurns
<1>6. ObjectOfCR' = ObjectOfCR
  BY SameObject
<1>7. Lifecycle!Made(p)
  BY <1>2, <1>4, <1>5, <1>6
     DEF Lifecycle!Made, Lifecycle!Mishap, Lifecycle!NoMishap
<1>8. QED
  BY <1>7 DEF Allowed, Lifecycle!Next

-----------------------------------------------------------------------------
(* SyncTags makes no call for a pool that was just created                 *)

\* CreateSyncsNothing: the tags of a new pool are compared with themselves.
THEOREM ReconcileCreateSyncs == Spec => []CreateSyncsNothing
<1>1. Init => CreateSyncsNothing
  BY DEF Init, CreateSyncsNothing
<1>2. TypeOK /\ CreateSyncsNothing /\ [Next]_vars => CreateSyncsNothing'
  <2> SUFFICES ASSUME TypeOK, CreateSyncsNothing, [Next]_vars
               PROVE  CreateSyncsNothing'
    OBVIOUS
  <2>1. CASE User \/ Service \/ Crash \/ Stopped \/ UNCHANGED vars
    BY <2>1
       DEF User, UserCreates, UserEdits, UserDeletes, Service, PoolRemoved,
           TagDrifts, Crash, Idle, Stopped, vars, inHand, CreateSyncsNothing
  <2>2. CASE Start \/ DescribeNotFound \/ DescribeFound
    BY <2>2 DEF Start, DescribeNotFound, DescribeFound, CreateSyncsNothing
  <2>3. CASE ListTagsOk
    <3>1. WhatFollows # "created"
      BY DEF WhatFollows
    <3>2. QED
      BY <2>3, <3>1 DEF ListTagsOk, SyncTags, CreateSyncsNothing
  <2>4. ASSUME NEW err \in Errors,
               \/ DescribeFails(err) \/ ListTagsFails(err)
               \/ CreateFails(err) \/ TagFails(err) \/ UntagFails(err)
               \/ UpdateFails(err) \/ DeleteFails(err)
        PROVE  CreateSyncsNothing'
    BY <2>4 DEF DescribeFails, ListTagsFails, CreateFails, TagFails,
                UntagFails, UpdateFails, DeleteFails, SyncTagsFails, Fails,
                CreateSyncsNothing
  <2>5. CASE Manage \/ ManageFails \/ CreateRefused
    BY <2>5 DEF Manage, ManageFails, CreateRefused, Fails, Idle,
                CreateSyncsNothing
  <2>6. ASSUME NEW p \in PoolIds, CreateOk(p) \/ CreateAnswerLost(p)
        PROVE  CreateSyncsNothing'
    BY <2>6, CreateGoesOn DEF CreateAnswerLost, Fails, CreateSyncsNothing
  <2>7. CASE TagOk \/ UntagOk \/ TagAnswerLost \/ UpdateRefused
    BY <2>7 DEF TagOk, UntagOk, TagAnswerLost, UpdateRefused, SyncTagsFails,
                Fails, CreateSyncsNothing
  <2>8. ASSUME NEW r \in BOOLEAN, UpdateOk(r) \/ UpdateAnswerLost(r)
        PROVE  CreateSyncsNothing'
    BY <2>8 DEF UpdateOk, UpdateAnswerLost, Fails, Succeeds,
                CreateSyncsNothing
  <2>9. CASE Patch
    BY <2>9 DEF Patch, PatchSpec, PatchSpecFails, PatchStatus,
                PatchStatusFails, Idle, CreateSyncsNothing
  <2>10. CASE DeleteOk \/ DeleteAnswerLost \/ Unmanage \/ UnmanageFails
    BY <2>10 DEF DeleteOk, DeleteAnswerLost, Unmanage, UnmanageFails, Idle,
                 Fails, CreateSyncsNothing
  <2>11. QED
    BY <2>1, <2>2, <2>3, <2>4, <2>5, <2>6, <2>7, <2>8, <2>9, <2>10
       DEF Next, Controller, ReadOne, Create, Update, Delete
<1>3. QED
  BY <1>1, <1>2, ReconcileTypeCorrect, PTL DEF Spec

-----------------------------------------------------------------------------
(* The steps, by who makes them                                            *)

LEMMA UserAllowed ==
  ASSUME TypeOK, TypeOK', PassInvariant, User
  PROVE  Allowed
<1>1. ASSUME NEW spec \in UserSpecs, UserCreates(spec)
      PROVE  Allowed
  <2>1. /\ cr'.present /\ ~cr'.managed /\ cr'.res.id = NoPool
        /\ ~cr.present /\ cr.res.id = NoPool
    BY <1>1, CRParts DEF UserCreates, NewCR, PassInvariant, CRShape
  <2>2. Carried' = Carried
    BY <1>1, <2>1 DEF UserCreates, Carried, InHandId, Live, inHand
  <2>3. RoleOfPools' = RoleOfPools
    BY <1>1, <2>1, <2>2, RoleIs, RoleWillBe, RolesStay DEF UserCreates
  <2>4. ObjectOfCR = "none" /\ ObjectOfCR' = "free"
    BY <2>1, ObjectIs, ObjectWillBe
  <2>5. QED
    BY <1>1, <2>3, <2>4
       DEF UserCreates, UserStep, Allowed, Lifecycle!Next,
           Lifecycle!Appears, Lifecycle!NoMishap
<1>2. ASSUME NEW spec \in UserSpecs, UserEdits(spec)
      PROVE  Allowed
  <2>1. cr' = [cr EXCEPT !.res =
                   [cr.res EXCEPT !.cfg = spec.cfg, !.tags = spec.tags,
                                  !.userPoolTags = spec.userPoolTags]]
    BY <1>2 DEF UserEdits, TypeOK, CRs
  <2>2. /\ cr'.present = cr.present /\ cr'.managed = cr.managed
        /\ cr'.deleting = cr.deleting /\ cr'.res.id = cr.res.id
    BY <2>1, SpecWritten
  <2>3. Carried' = Carried
    BY <1>2, <2>2 DEF UserEdits, Carried, InHandId, Live, inHand
  <2>4. QED
    BY <1>2, <2>2, <2>3, NothingMoves, SameObject DEF UserEdits, UserStep
<1>3. ASSUME UserDeletes
      PROVE  Allowed
  <2>1. /\ cr.present /\ ~cr.deleting
        /\ \/ cr.managed /\ cr' = [cr EXCEPT !.deleting = TRUE]
           \/ ~cr.managed /\ cr' = NoCR
    BY <1>3, CRParts DEF UserDeletes
  <2>2. cr'.res.id = cr.res.id
    BY <2>1, CRFields, EmptyCR, CRParts DEF PassInvariant, CRShape
  <2>3. Carried' = Carried
    BY <1>3, <2>2 DEF UserDeletes, Carried, InHandId, Live, inHand
  <2>4. RoleOfPools' = RoleOfPools
    BY <1>3, <2>2, <2>3, RoleIs, RoleWillBe, RolesStay DEF UserDeletes
  <2>5. \/ ObjectOfCR = "held" /\ ObjectOfCR' = "leaving"
        \/ ObjectOfCR = "free" /\ ObjectOfCR' = "none"
    BY <2>1, CRFields, EmptyCR, ObjectIs, ObjectWillBe
  <2>6. QED
    BY <1>3, <2>4, <2>5
       DEF UserDeletes, UserStep, Allowed, Lifecycle!Next,
           Lifecycle!DeletionAsked, Lifecycle!NoMishap
<1>4. QED
  BY <1>1, <1>2, <1>3 DEF User

LEMMA ServiceAllowed ==
  ASSUME TypeOK, TypeOK', PassInvariant, Service
  PROVE  Allowed
<1>1. ASSUME NEW p \in PoolIds, PoolRemoved(p)
      PROVE  Allowed
  <2>1. \A q \in PoolIds :
          pools'[q].state = IF q = p THEN "gone" ELSE pools[q].state
    BY <1>1, GonePools DEF PoolRemoved
  <2>2. Carried' = Carried \ {p}
    BY <1>1, <2>1 DEF PoolRemoved, Carried, InHandId, Live, inHand
  <2>3. /\ RoleOfPool(p) \in {"coming", "own", "orphan"}
        /\ RoleOfPool(p)' = "gone"
        /\ \A q \in PoolIds \ {p} : RoleOfPool(q)' = RoleOfPool(q)
        /\ ObjectOfCR' = ObjectOfCR
    BY <1>1, <2>2, PoolGoes DEF PoolRemoved
  <2>4. Lifecycle!Turns(p, RoleOfPool(p), RoleOfPool(p)')
    BY <2>3, RoleTurns
  <2>5. Lifecycle!RemovedByOthers(p)
    BY <1>1, <2>3, <2>4
       DEF PoolRemoved, Fault, OneFault, Lifecycle!RemovedByOthers,
           Lifecycle!Turns,
           Lifecycle!Mishap
  <2>6. QED
    BY <2>5 DEF Allowed, Lifecycle!Next
<1>2. ASSUME NEW p \in PoolIds, NEW k \in Keys,
             NEW v \in Vals \union {Absent}, TagDrifts(p, k, v)
      PROVE  Allowed
  <2>1. pools' = [pools EXCEPT ![p].tags = [pools[p].tags EXCEPT ![k] = v]]
    BY <1>2 DEF TagDrifts
  <2>2. \A q \in PoolIds : pools'[q].state = pools[q].state
    BY <2>1, TagsKeepStates
  <2>3. Carried' = Carried
    BY <1>2, <2>2 DEF TagDrifts, Carried, InHandId, Live, inHand
  <2>4. QED
    BY <1>2, <2>2, <2>3, WorkerMoves DEF TagDrifts, Fault, OneFault
<1>3. QED
  BY <1>1, <1>2 DEF Service

\* A pool that was found is the CR's own.
LEMMA ListTagsCarries ==
  ASSUME TypeOK, PassInvariant, ListTagsOk
  PROVE  Carried = {} /\ Carried' = {}
<1>1. desired.id \in PoolIds /\ latest.id = desired.id
      /\ desired.id = cr.res.id
  BY LiveIds DEF ListTagsOk, PassInvariant, LocationTells, CopyStillGood
<1>2. /\ Observed \in Resources /\ Observed.id = desired.id
      /\ Mirrored \in Resources /\ Mirrored.id = desired.id
  BY <1>1, ReadType DEF ListTagsOk
<1>3. WhatFollows \in {"update", "done"}
  BY DEF WhatFollows
<1>4. latest'.id = cr.res.id
  <2>1. CASE SyncTags(Mirrored, Observed.tags, WhatFollows, Observed)
    <3>1. \/ AfterTags(WhatFollows, Mirrored, Observed)
          \/ latest' = Observed
      BY <2>1 DEF SyncTags
    <3>2. QED
      BY <3>1, <1>1, <1>2, <1>3, SyncTagsIds
  <2>2. QED
    BY <1>1, <1>2, <2>1 DEF ListTagsOk
<1>5. QED
  BY <1>4, NothingCarried, OwnIdNotCarriedNext DEF ListTagsOk

LEMMA ReadAllowed ==
  ASSUME TypeOK, TypeOK', PassInvariant, Start \/ ReadOne
  PROVE  Allowed
<1>1. CASE Start \/ DescribeNotFound \/ DescribeFound
  <2>1. Carried = {} /\ Carried' = {}
    BY <1>1, NothingCarried, NothingCarriedNext
       DEF Start, DescribeNotFound, DescribeFound
  <2>2. QED
    BY <1>1, <2>1, WorkerMoves
       DEF Start, DescribeNotFound, DescribeFound, aux
<1>2. ASSUME NEW err \in Errors, DescribeFails(err) \/ ListTagsFails(err)
      PROVE  Allowed
  <2>1. Carried = {} /\ Carried' = {}
    BY <1>2, NothingCarried, FailsEmptyHanded
       DEF DescribeFails, ListTagsFails, TypeOK
  <2>2. QED
    BY <1>2, <2>1, WorkerMoves
       DEF DescribeFails, ListTagsFails, Outage, NotTaken, NotThere, Fault,
           OneFault, aux
<1>3. CASE ListTagsOk
  BY <1>3, ListTagsCarries, WorkerMoves DEF ListTagsOk, aux
<1>4. QED
  BY <1>1, <1>2, <1>3 DEF ReadOne

LEMMA CreateAllowed ==
  ASSUME TypeOK, TypeOK', PassInvariant, Create
  PROVE  Allowed
<1>1. CASE Manage
  <2>1. Carried = {} /\ Carried' = {}
    BY <1>1, NothingCarried, NothingCarriedNext DEF Manage
  <2>2. /\ cr'.present /\ cr'.managed /\ cr'.deleting = cr.deleting
        /\ cr.present /\ cr'.res.id = cr.res.id
    BY <1>1, CRFields DEF Manage
  <2>3. CASE cr.managed
    BY <1>1, <2>1, <2>2, <2>3, CRParts, NothingMoves, SameObject
       DEF Manage, aux
  <2>4. CASE ~cr.managed
    <3>1. RoleOfPools' = RoleOfPools
      BY <1>1, <2>1, <2>2, RoleIs, RoleWillBe, RolesStay DEF Manage
    <3>2. ObjectOfCR = "free" /\ ObjectOfCR' = "held"
      BY <2>2, <2>4, CRParts, ObjectIs, ObjectWillBe
         DEF PassInvariant, CRShape
    <3>3. QED
      BY <1>1, <3>1, <3>2
         DEF Manage, aux, Allowed, Lifecycle!Next,
             Lifecycle!TakenUnderControl, Lifecycle!NoMishap
  <2>5. QED
    BY <2>3, <2>4
<1>2. CASE ManageFails
  <2>1. Carried = {} /\ Carried' = {}
    BY <1>2, NothingCarried, NothingCarriedNext DEF ManageFails, Idle
  <2>2. QED
    BY <1>2, <2>1, WorkerMoves DEF ManageFails, Fault, OneFault, aux
<1>3. CASE CreateRefused
  <2>1. Carried = {} /\ Carried' = {}
    BY <1>3, NothingCarried, FailsEmptyHanded
       DEF CreateRefused, TypeOK, Errors
  <2>2. QED
    BY <1>3, <2>1, WorkerMoves DEF CreateRefused, aux
<1>4. ASSUME NEW err \in Errors, CreateFails(err)
      PROVE  Allowed
  <2>1. Carried = {} /\ Carried' = {}
    BY <1>4, NothingCarried, FailsEmptyHanded DEF CreateFails, TypeOK
  <2>2. QED
    BY <1>4, <2>1, WorkerMoves
       DEF CreateFails, Outage, NotTaken, Fault, OneFault
<1>5. ASSUME NEW p \in PoolIds, CreateOk(p)
      PROVE  Allowed
  <2>1. pc' = "patch" /\ latest'.id = p
    BY <1>5, CreateGoesOn
  <2>2. cr.res.id # p /\ cr' = cr
    BY <1>5, ReconcileAssumption DEF CreateOk, PassInvariant, CRShape
  <2>3. pools'[p].state = "live"
    BY <1>5, NewPoolLives DEF CreateOk
  <2>4. Carried' = {p}
    BY <2>1, <2>2, <2>3 DEF Carried, InHandId, Live
  <2>5. QED
    BY <1>5, <2>4, PoolComes DEF CreateOk, aux
<1>6. ASSUME NEW p \in PoolIds, CreateAnswerLost(p)
      PROVE  Allowed
  <2>1. Carried' = {}
    BY <1>6, FailsEmptyHanded DEF CreateAnswerLost, TypeOK, Errors
  <2>2. QED
    BY <1>6, <2>1, PoolComes DEF CreateAnswerLost, AnswerLost, Fault, OneFault
<1>7. QED
  BY <1>1, <1>2, <1>3, <1>4, <1>5, <1>6 DEF Create

\* The calls of sdkUpdate concern the CR's own pool, which they do not make or
\* delete.
LEMMA UpdateKeeps ==
  ASSUME TypeOK, PassInvariant, CreateSyncsNothing, Update
  PROVE  /\ UNCHANGED cr /\ Carried' = Carried
         /\ pc' \in {"untag", "update", "patch", "status"}
         /\ \A q \in PoolIds : pools'[q].state = pools[q].state
         /\ faults' \in {faults, faults + 1} /\ edits' = edits
<1>1. /\ desired.id = cr.res.id /\ latest.id = cr.res.id
      /\ Carried = {} /\ UNCHANGED cr
      /\ pc \in {"tag", "untag", "update"}
  BY DEF Update, TagOk, TagAnswerLost, TagFails, UntagOk, UntagFails,
         UpdateRefused, UpdateOk, UpdateAnswerLost, UpdateFails,
         CreateSyncsNothing, PassInvariant, LocationTells, CopyStillGood,
         Carried, InHandId
<1>2. ASSUME NEW res \in {desired, latest}, NEW err \in Errors,
             Fails(res, err)
      PROVE  Carried' = {}
  BY <1>1, <1>2, FailsEmptyHanded DEF TypeOK
<1>3. \A q \in PoolIds : pools'[q].state = pools[q].state
  <2>1. CASE TagOk
    BY <2>1, TagsKeepStates DEF TagOk, Live
  <2>2. CASE TagAnswerLost
    BY <2>2, TagsKeepStates DEF TagAnswerLost, Live
  <2>3. CASE UntagOk
    BY <2>3, TagsKeepStates DEF UntagOk, Live
  <2>4. ASSUME NEW r \in BOOLEAN, UpdateOk(r)
        PROVE  \A q \in PoolIds : pools'[q].state = pools[q].state
    BY <2>4, UpdateKeepsStates DEF UpdateOk, Live
  <2>5. ASSUME NEW r \in BOOLEAN, UpdateAnswerLost(r)
        PROVE  \A q \in PoolIds : pools'[q].state = pools[q].state
    BY <2>5, UpdateKeepsStates DEF UpdateAnswerLost, Live
  <2>6. CASE UNCHANGED pools
    BY <2>6
  <2>7. QED
    BY <2>1, <2>2, <2>3, <2>4, <2>5, <2>6
       DEF Update, TagFails, UntagFails, UpdateRefused, UpdateFails
<1>4. Carried' = {}
  <2>1. CASE TagOk \/ UntagOk
    <3>1. \/ AfterTags(next, desired, latest)
          \/ latest' = latest
      BY <2>1 DEF TagOk, UntagOk
    <3>2. latest'.id = cr'.res.id
      BY <1>1, <3>1, SyncTagsIds DEF TypeOK
    <3>3. QED
      BY <3>2, OwnIdNotCarriedNext
  <2>2. ASSUME NEW r \in BOOLEAN, UpdateOk(r)
        PROVE  Carried' = {}
    BY <1>1, <2>2, AnswerIds, OwnIdNotCarriedNext
       DEF UpdateOk, Succeeds, TypeOK
  <2>3. ASSUME ~TagOk, ~UntagOk, \A r \in BOOLEAN : ~UpdateOk(r)
        PROVE  Carried' = {}
    <3>1. \E res \in {desired, latest}, err \in Errors : Fails(res, err)
      BY <2>3 DEF Update, TagAnswerLost, TagFails, UntagFails, SyncTagsFails,
                  UpdateRefused, UpdateAnswerLost, UpdateFails, Errors
    <3>2. QED
      BY <1>2, <3>1
  <2>4. QED
    BY <2>1, <2>2, <2>3
<1>5. faults' \in {faults, faults + 1} /\ edits' = edits
  BY DEF Update, TagOk, TagAnswerLost, TagFails, UntagOk, UntagFails,
         UpdateRefused, UpdateOk, UpdateAnswerLost, UpdateFails,
         AnswerLost, Outage, NotTaken, NotThere, Fault, OneFault, aux
<1>6. pc' \in {"untag", "update", "patch", "status"}
  BY DEF Update, TagOk, TagAnswerLost, TagFails, UntagOk, UntagFails,
         UpdateRefused, UpdateOk, UpdateAnswerLost, UpdateFails, AfterTags,
         SyncTagsFails, Fails, Succeeds, TypeOK
<1>7. QED
  BY <1>1, <1>3, <1>4, <1>5, <1>6

LEMMA UpdateAllowed ==
  ASSUME TypeOK, TypeOK', PassInvariant, CreateSyncsNothing, Update
  PROVE  Allowed
BY UpdateKeeps, WorkerMoves

LEMMA PatchAllowed ==
  ASSUME TypeOK, TypeOK', PassInvariant, Patch
  PROVE  Allowed
<1>1. CASE PatchSpec
  <2>1. \E c, t, u :
          cr' = [cr EXCEPT !.res = [cr.res EXCEPT !.cfg = c, !.tags = t,
                                                  !.userPoolTags = u]]
    BY <1>1 DEF PatchSpec, TypeOK, CRs
  <2>2. /\ cr'.present = cr.present /\ cr'.managed = cr.managed
        /\ cr'.deleting = cr.deleting /\ cr'.res.id = cr.res.id
    BY <2>1, SpecWritten
  <2>3. Carried' = Carried
    BY <1>1, <2>2, CarriesOn DEF PatchSpec, inHand
  <2>4. QED
    BY <1>1, <2>2, <2>3, NothingMoves, SameObject DEF PatchSpec, aux
<1>2. CASE PatchSpecFails
  <2>1. Carried' = Carried
    BY <1>2, CarriesOn DEF PatchSpecFails, inHand
  <2>2. QED
    BY <1>2, <2>1, WorkerMoves DEF PatchSpecFails, Fault, OneFault
<1>3. CASE PatchStatusFails
  BY <1>3, PassIsCut DEF PatchStatusFails, Idle, Fault, OneFault
<1>4. CASE PatchStatus /\ ~cr.present
  <2>1. Carried = {}
    BY <1>4 DEF PatchStatus, PassInvariant, CRShape, CopyStillGood,
                LocationTells, Carried, InHandId
  <2>2. Carried' = {}
    BY <1>4, NothingCarriedNext DEF PatchStatus, Idle
  <2>3. QED
    BY <1>4, <2>1, <2>2, WorkerMoves DEF PatchStatus, aux
<1>5. CASE PatchStatus /\ cr.present
  <2> DEFINE i == IF latest.id = desired.id THEN cr.res.id ELSE latest.id
  <2>1. cr' = [cr EXCEPT !.res = [cr.res EXCEPT !.id = i,
                                                !.conds = latest.conds]]
    BY <1>5 DEF PatchStatus, TypeOK, CRs
  <2>2. /\ cr'.present = cr.present /\ cr'.managed = cr.managed
        /\ cr'.deleting = cr.deleting /\ cr'.res.id = i
    BY <2>1, StatusWritten
  <2>3. \/ latest.id = cr.res.id /\ i = cr.res.id
        \/ latest.id # cr.res.id /\ i = latest.id /\ ~Live(cr.res.id)
    BY <1>5 DEF PatchStatus, PassInvariant, CopyStillGood, LocationTells
  <2> HIDE DEF i
  <2>4. /\ Carried' = {} /\ pc = "status"
        /\ UNCHANGED pools /\ UNCHANGED faults
    BY <1>5, NothingCarriedNext DEF PatchStatus, Idle, aux
  <2>5. ObjectOfCR' = ObjectOfCR
    BY <2>2, SameObject
  <2>6. CASE Carried = {}
    <3>1. \A q \in PoolIds : RoleOfPool(q)' = RoleOfPool(q)
      <4>1. ASSUME NEW q \in PoolIds, Live(q)
            PROVE  q = cr'.res.id <=> q = cr.res.id
        BY <2>2, <2>3, <2>4, <2>6, <4>1 DEF Carried, InHandId
      <4>2. QED
        BY <2>4, <2>6, <4>1, RoleIs, RoleWillBe, PoolStates DEF Live
    <3>2. QED
      BY <2>4, <2>5, <3>1, RolesStay DEF Allowed, Lifecycle!lifecycle
  <2>7. ASSUME NEW p \in Carried
        PROVE  Allowed
    <3>1. p = latest.id /\ p \in PoolIds /\ p # cr.res.id /\ Live(p)
      BY <2>7, CarriedIs
    <3>2. i = p /\ ~Live(cr.res.id)
      BY <2>3, <3>1
    <3>3. RoleOfPool(p) = "coming" /\ RoleOfPool(p)' = "own"
      BY <2>2, <2>4, <2>7, <3>1, <3>2, RoleIs, RoleWillBe DEF Live
    <3>4. \A q \in PoolIds \ {p} : RoleOfPool(q)' = RoleOfPool(q)
      <4>1. ASSUME NEW q \in PoolIds, q # p, Live(q)
            PROVE  q # cr.res.id /\ q # cr'.res.id /\ q \notin Carried
        BY <2>2, <3>1, <3>2, <4>1, CarriedIs
      <4>2. QED
        BY <2>4, <4>1, RoleIs, RoleWillBe, PoolStates DEF Live
    <3>5. Lifecycle!Recorded(p)
      BY <2>4, <2>5, <3>1, <3>3, <3>4, RoleTurns
         DEF Lifecycle!Recorded, Lifecycle!NoMishap
    <3>6. QED
      BY <3>1, <3>5 DEF Allowed, Lifecycle!Next
  <2>8. QED
    BY <2>6, <2>7
<1>6. QED
  BY <1>1, <1>2, <1>3, <1>4, <1>5 DEF Patch

LEMMA DeleteAllowed ==
  ASSUME TypeOK, TypeOK', PassInvariant, Delete
  PROVE  Allowed
<1>1. CASE DeleteOk
  <2>1. latest.id \in PoolIds /\ Carried' = {}
    BY <1>1, NothingCarriedNext DEF DeleteOk, Live
  <2>2. QED
    BY <1>1, <2>1, OwnPoolGoes DEF DeleteOk, aux
<1>2. CASE DeleteAnswerLost
  <2>1. latest.id \in PoolIds /\ latest.id = desired.id
    BY <1>2 DEF DeleteAnswerLost, Live, PassInvariant, LocationTells
  <2>2. Carried' = {}
    BY <1>2, <2>1, FailsEmptyHanded DEF DeleteAnswerLost, TypeOK, Errors
  <2>3. QED
    BY <1>2, <2>1, <2>2, OwnPoolGoes
       DEF DeleteAnswerLost, AnswerLost, Fault, OneFault
<1>3. ASSUME NEW err \in Errors, DeleteFails(err)
      PROVE  Allowed
  <2>1. Carried = {} /\ latest.id = desired.id
    BY <1>3, NothingCarried DEF DeleteFails, PassInvariant, LocationTells
  <2>2. Carried' = {}
    BY <1>3, <2>1, FailsEmptyHanded DEF DeleteFails, TypeOK
  <2>3. QED
    BY <1>3, <2>1, <2>2, WorkerMoves
       DEF DeleteFails, Outage, NotTaken, NotThere, Fault, OneFault, aux
<1>4. CASE Unmanage
  <2>1. /\ cr.present /\ cr.managed /\ cr.deleting /\ ~Live(cr.res.id)
        /\ Carried = {} /\ Carried' = {}
    BY <1>4, NothingCarried, NothingCarriedNext
       DEF Unmanage, Idle, PassInvariant, CRShape, CopyStillGood,
           LocationTells
  <2>2. ~cr'.present /\ cr'.res.id = NoPool
    BY <1>4, EmptyCR DEF Unmanage
  <2>3. \A q \in PoolIds : RoleOfPool(q)' = RoleOfPool(q)
    BY <1>4, <2>1, <2>2, ReconcileAssumption, RoleIs, RoleWillBe, PoolStates
       DEF Unmanage, Live
  <2>4. RoleOfPools' = RoleOfPools
    BY <2>3, RolesStay
  <2>5. ObjectOfCR = "leaving" /\ ObjectOfCR' = "none"
    BY <2>1, <2>2, ObjectIs, ObjectWillBe
  <2>6. Lifecycle!Depending = {}
    BY <2>1, DependingIs
  <2>7. QED
    BY <1>4, <2>4, <2>5, <2>6
       DEF Unmanage, aux, Allowed, Lifecycle!Next, Lifecycle!Released,
           Lifecycle!NoMishap
<1>5. CASE UnmanageFails
  BY <1>5, PassIsCut DEF UnmanageFails, Idle, Fault, OneFault
<1>6. QED
  BY <1>1, <1>2, <1>3, <1>4, <1>5 DEF Delete

-----------------------------------------------------------------------------

\* KeepsThePromise: the controller with all its calls, copies and faults does
\* to the CR and its pools what PoolLifecycle allows.
THEOREM ReconcileImplementsLifecycle == Spec => KeepsThePromise
<1>1. Init => Lifecycle!Init
  BY DEF Init, Lifecycle!Init, ObjectOfCR, RoleOfPools, RoleOfPool, NoCR,
         NoPoolYet, Live, Carried, InHandId
<1>2. TypeOK /\ TypeOK' /\ PassInvariant /\ CreateSyncsNothing /\ [Next]_vars
        => [Lifecycle!Next]_(Lifecycle!lifecycle)
  <2> SUFFICES ASSUME TypeOK, TypeOK', PassInvariant, CreateSyncsNothing,
                      [Next]_vars
               PROVE  Allowed
    BY DEF Allowed
  <2>1. CASE Crash
    BY <2>1, PassIsCut DEF Crash, Idle, Fault, OneFault
  <2>2. CASE Stopped \/ UNCHANGED vars
    <3>1. Carried' = Carried
      BY <2>2 DEF Stopped, vars, inHand, Carried, InHandId, Live
    <3>2. QED
      BY <2>2, <3>1, WorkerMoves DEF Stopped, vars, aux
  <2>3. QED
    BY <2>1, <2>2, UserAllowed, ServiceAllowed, ReadAllowed, CreateAllowed,
       UpdateAllowed, PatchAllowed, DeleteAllowed DEF Next, Controller
<1>3. QED
  BY <1>1, <1>2, ReconcileTypeCorrect, ReconcileInvariant,
     ReconcileCreateSyncs, PTL DEF Spec, KeepsThePromise, Lifecycle!Spec

\* The theorems of PoolLifecycle, under the mapping.
Promised ==
  INSTANCE PoolLifecycle_proofs
    WITH object <- ObjectOfCR, role <- RoleOfPools, mishaps <- faults

\* OrphansArePaidFor: a pool nobody knows of any more cost the environment a
\* fault, and never did one fault cost two pools.
COROLLARY ReconcileOrphans == Spec => []OrphansArePaidFor
<1>1. Lifecycle!Init <=> Promised!Init
  BY DEF Lifecycle!Init, Promised!Init
<1>2. [Lifecycle!Next]_(Lifecycle!lifecycle)
        <=> [Promised!Next]_(Promised!lifecycle)
  BY DEF Lifecycle!Next, Lifecycle!lifecycle, Promised!Next,
         Promised!lifecycle, Lifecycle!Appears, Promised!Appears,
         Lifecycle!TakenUnderControl, Promised!TakenUnderControl,
         Lifecycle!DeletionAsked, Promised!DeletionAsked,
         Lifecycle!Released, Promised!Released, Lifecycle!Harmless,
         Promised!Harmless, Lifecycle!Made, Promised!Made,
         Lifecycle!Recorded, Promised!Recorded, Lifecycle!Orphaned,
         Promised!Orphaned, Lifecycle!Deleted, Promised!Deleted,
         Lifecycle!RemovedByOthers, Promised!RemovedByOthers,
         Lifecycle!Turns, Promised!Turns, Lifecycle!Mishap, Promised!Mishap,
         Lifecycle!NoMishap, Promised!NoMishap, Lifecycle!Depending,
         Promised!Depending, Lifecycle!InRole, Promised!InRole
<1>3. OrphansArePaidFor <=> Promised!OrphansArePaidFor
  BY DEF OrphansArePaidFor, Lifecycle!OrphansArePaidFor,
         Promised!OrphansArePaidFor, Lifecycle!InRole, Promised!InRole,
         Lifecycle!IsFiniteSet, Promised!IsFiniteSet,
         Lifecycle!Cardinality, Promised!Cardinality
<1>4. Promised!Spec => []Promised!OrphansArePaidFor
  BY Promised!LifecycleOrphans
<1>5. QED
  BY <1>1, <1>2, <1>3, <1>4, ReconcileImplementsLifecycle, PTL
     DEF KeepsThePromise, Lifecycle!Spec, Promised!Spec

-----------------------------------------------------------------------------
(* How many pools are made                                                 *)

\* The user wants a pool.
Wanted == cr.present /\ ~cr.deleting

\* The account of the pools, and that they can be counted.
Accounted == IsFiniteSet(Made) /\ PoolsInAccount

LEMMA SamePoolsMade ==
  ASSUME \A q \in PoolIds : pools'[q].state = pools[q].state
  PROVE  Made' = Made
BY DEF Made

\* The two sides of the account, as numbers.
LEMMA AccountNumbers ==
  ASSUME TypeOK, Accounted
  PROVE  Cardinality(Made) \in Nat /\ edits \in Nat /\ faults \in Nat
BY FS_CardinalityType, ReconcileAssumption DEF Accounted, TypeOK

\* No pool is made, the user does nothing, and a pool becomes due by a fault
\* or not at all.
LEMMA AccountStays ==
  ASSUME TypeOK, Accounted, Made' = Made, edits' = edits,
         Wanted' <=> Wanted,
         \/ faults' = faults /\ (PoolIsDue' => PoolIsDue)
         \/ faults' = faults + 1
  PROVE  Accounted'
BY AccountNumbers DEF Accounted, PoolsInAccount, Wanted

\* The user does one thing.  A pool becomes due only by the creation of a CR.
LEMMA AccountOfUser ==
  ASSUME TypeOK, Accounted, UNCHANGED pools, UserStep,
         \/ ~Wanted /\ Wanted'
         \/ PoolIsDue' => PoolIsDue
  PROVE  Accounted'
<1>1. Made' = Made
  BY SamePoolsMade
<1>2. QED
  BY <1>1, AccountNumbers DEF Accounted, PoolsInAccount, Wanted, UserStep

\* A pool is made: the one that was due, or at the cost of a fault.
LEMMA AccountOfPool ==
  ASSUME TypeOK, Accounted, NEW p \in PoolIds,
         pools[p].state = "unused",
         pools' = [pools EXCEPT ![p] = NewPool(desired)],
         edits' = edits, Wanted' <=> Wanted,
         \/ faults' = faults /\ PoolIsDue /\ ~PoolIsDue'
         \/ faults' = faults + 1 /\ (PoolIsDue' => PoolIsDue)
  PROVE  Accounted'
<1>1. \A q \in PoolIds :
        pools'[q].state = IF q = p THEN "live" ELSE pools[q].state
  BY NewPoolLives
<1>2. Made' = Made \union {p}
  BY <1>1 DEF Made
<1>3. /\ IsFiniteSet(Made')
      /\ Cardinality(Made') = Cardinality(Made) + 1
  BY <1>2, FS_AddElement DEF Accounted, Made
<1>4. QED
  BY <1>3, AccountNumbers DEF Accounted, PoolsInAccount, Wanted

\* A call of the worker that leaves the CR and the states of the pools alone.
LEMMA AccountOfCall ==
  ASSUME TypeOK, Accounted, UNCHANGED cr, edits' = edits,
         \A q \in PoolIds : pools'[q].state = pools[q].state,
         \/ faults' = faults + 1
         \/ /\ faults' = faults /\ Carried' = Carried
            /\ pc' \in {"describe", "manage", "create"}
                 => /\ pc \in {"describe", "manage", "create"}
                    /\ mode' = mode
  PROVE  Accounted'
<1>1. Made' = Made /\ (Wanted' <=> Wanted)
  BY SamePoolsMade DEF Wanted
<1>2. faults' = faults => (PoolIsDue' => PoolIsDue)
  BY AccountNumbers DEF PoolIsDue, Live
<1>3. QED
  BY <1>1, <1>2, AccountStays

LEMMA UserAccounts ==
  ASSUME TypeOK, PassInvariant, Accounted, User
  PROVE  Accounted'
<1>1. ASSUME NEW spec \in UserSpecs, UserCreates(spec)
      PROVE  Accounted'
  BY <1>1, AccountOfUser DEF UserCreates, NewCR, Wanted
<1>2. ASSUME NEW spec \in UserSpecs, UserEdits(spec)
      PROVE  Accounted'
  <2>1. cr' = [cr EXCEPT !.res =
                   [cr.res EXCEPT !.cfg = spec.cfg, !.tags = spec.tags,
                                  !.userPoolTags = spec.userPoolTags]]
    BY <1>2 DEF UserEdits, TypeOK, CRs
  <2>2. cr'.res.id = cr.res.id
    BY <2>1, SpecWritten
  <2>3. PoolIsDue' => PoolIsDue
    BY <1>2, <2>2
       DEF UserEdits, PoolIsDue, Wanted, Live, Carried, InHandId, inHand
  <2>4. QED
    BY <1>2, <2>3, AccountOfUser DEF UserEdits
<1>3. CASE UserDeletes
  <2>1. Wanted /\ cr'.res.id = cr.res.id
    <3>1. /\ cr.present /\ ~cr.deleting
          /\ \/ cr' = [cr EXCEPT !.deleting = TRUE]
             \/ ~cr.managed /\ cr' = NoCR
      BY <1>3, CRParts DEF UserDeletes
    <3>2. QED
      BY <3>1, CRFields, EmptyCR, CRParts DEF PassInvariant, CRShape, Wanted
  <2>2. PoolIsDue' => PoolIsDue
    BY <1>3, <2>1
       DEF UserDeletes, PoolIsDue, Wanted, Live, Carried, InHandId, inHand
  <2>3. QED
    BY <1>3, <2>2, AccountOfUser DEF UserDeletes
<1>4. QED
  BY <1>1, <1>2, <1>3 DEF User

\* What costs a fault but for the call that makes a pool: drift, a pool
\* removed, a crash.
LEMMA MishapAccounts ==
  ASSUME TypeOK, Accounted, Service \/ Crash
  PROVE  Accounted'
<1>1. cr' = cr /\ edits' = edits /\ faults' = faults + 1
  BY DEF Service, PoolRemoved, TagDrifts, Crash, Fault, OneFault
<1>2. Made' = Made
  <2>1. ASSUME NEW p \in PoolIds, PoolRemoved(p)
        PROVE  Made' = Made
    <3>1. \A q \in PoolIds :
            pools'[q].state = IF q = p THEN "gone" ELSE pools[q].state
      BY <2>1, GonePools DEF PoolRemoved
    <3>2. pools[p].state = "live"
      BY <2>1 DEF PoolRemoved, Live
    <3>3. QED
      BY <3>1, <3>2 DEF Made
  <2>2. ASSUME NEW p \in PoolIds, NEW k \in Keys,
               NEW v \in Vals \union {Absent}, TagDrifts(p, k, v)
        PROVE  Made' = Made
    <3>1. pools' = [pools EXCEPT ![p].tags =
                                   [pools[p].tags EXCEPT ![k] = v]]
      BY <2>2 DEF TagDrifts
    <3>2. QED
      BY <3>1, TagsKeepStates, SamePoolsMade
  <2>3. CASE Crash
    BY <2>3, SamePoolsMade DEF Crash
  <2>4. QED
    BY <2>1, <2>2, <2>3 DEF Service
<1>3. QED
  BY <1>1, <1>2, AccountStays DEF Wanted

\* A pass begins for a CR that asks for a pool already; a reading takes the
\* worker from one place where a pool is due to another, or nowhere.
LEMMA ReadAccounts ==
  ASSUME TypeOK, PassInvariant, Accounted, Start \/ ReadOne
  PROVE  Accounted'
<1>1. CASE Start
  <2>1. Carried = {}
    BY <1>1, NothingCarried DEF Start
  <2>2. Made' = Made /\ (Wanted' <=> Wanted)
    BY <1>1, SamePoolsMade DEF Start, Wanted
  <2>3. PoolIsDue' => PoolIsDue
    BY <1>1, <2>1 DEF Start, PoolIsDue, Live
  <2>4. QED
    BY <1>1, <2>2, <2>3, AccountStays DEF Start, aux
<1>2. CASE DescribeNotFound \/ DescribeFound
  <2>1. Carried = {} /\ Carried' = {}
    BY <1>2, NothingCarried, NothingCarriedNext
       DEF DescribeNotFound, DescribeFound
  <2>2. QED
    BY <1>2, <2>1, AccountOfCall
       DEF DescribeNotFound, DescribeFound, aux, inHand
<1>3. ASSUME NEW err \in Errors, DescribeFails(err) \/ ListTagsFails(err)
      PROVE  Accounted'
  <2>1. Carried = {} /\ Carried' = {}
    BY <1>3, NothingCarried, FailsEmptyHanded
       DEF DescribeFails, ListTagsFails, TypeOK
  <2>2. QED
    BY <1>3, <2>1, AccountOfCall
       DEF DescribeFails, ListTagsFails, Outage, NotTaken, NotThere, Fault,
           OneFault, aux,
           Fails
<1>4. CASE ListTagsOk
  <2>1. Carried = {} /\ Carried' = {}
    BY <1>4, ListTagsCarries
  <2>2. pc' \notin {"describe", "manage", "create"}
    BY <1>4, ListTagsHolds
  <2>3. QED
    BY <1>4, <2>1, <2>2, AccountOfCall DEF ListTagsOk, aux
<1>5. QED
  BY <1>1, <1>2, <1>3, <1>4 DEF ReadOne

\* The finalizer comes; the pool that was due is made, or lost with the answer.
LEMMA CreateAccounts ==
  ASSUME TypeOK, PassInvariant, Accounted, Create
  PROVE  Accounted'
<1>1. CASE Manage
  <2>1. cr'.present = cr.present /\ cr'.deleting = cr.deleting
        /\ cr'.res = cr.res
    BY <1>1, CRFields DEF Manage
  <2>2. Made' = Made /\ (Wanted' <=> Wanted)
    BY <1>1, <2>1, SamePoolsMade DEF Manage, Wanted
  <2>3. PoolIsDue' => PoolIsDue
    BY <1>1, <2>1, NothingCarried DEF Manage, PoolIsDue, Live
  <2>4. QED
    BY <1>1, <2>2, <2>3, AccountStays DEF Manage, aux
<1>2. CASE ManageFails
  <2>1. Carried = {} /\ Carried' = {} /\ pc' = "idle"
    BY <1>2, NothingCarried, NothingCarriedNext DEF ManageFails, Idle
  <2>2. QED
    BY <1>2, <2>1, AccountOfCall DEF ManageFails, Fault, OneFault, aux
<1>3. CASE CreateRefused
  <2>1. Carried = {} /\ Carried' = {}
    BY <1>3, NothingCarried, FailsEmptyHanded
       DEF CreateRefused, TypeOK, Errors
  <2>2. QED
    BY <1>3, <2>1, AccountOfCall DEF CreateRefused, aux
<1>4. ASSUME NEW err \in Errors, CreateFails(err)
      PROVE  Accounted'
  BY <1>4, AccountOfCall DEF CreateFails, Outage, NotTaken, Fault, OneFault
<1>5. ASSUME NEW p \in PoolIds, CreateOk(p)
      PROVE  Accounted'
  <2>1. ~Live(cr.res.id) /\ cr.res.id # p /\ mode = "sync"
    BY <1>5, ReconcileAssumption
       DEF CreateOk, PassInvariant, LocationTells, CopyStillGood, CRShape
  <2>2. PoolIsDue
    BY <1>5, <2>1, NothingCarried DEF CreateOk, PoolIsDue
  <2>3. pc' = "patch" /\ latest'.id = p /\ cr' = cr
    BY <1>5, CreateGoesOn DEF CreateOk
  <2>4. pools'[p].state = "live"
    BY <1>5, NewPoolLives DEF CreateOk
  <2>5. p \in Carried'
    BY <2>1, <2>3, <2>4 DEF Carried, InHandId, Live
  <2>6. ~PoolIsDue'
    BY <2>5 DEF PoolIsDue
  <2>7. QED
    BY <1>5, <2>2, <2>3, <2>6, AccountOfPool DEF CreateOk, aux, Wanted
<1>6. ASSUME NEW p \in PoolIds, CreateAnswerLost(p)
      PROVE  Accounted'
  <2>1. ~Live(cr.res.id) /\ Carried = {}
    BY <1>6, NothingCarried
       DEF CreateAnswerLost, PassInvariant, LocationTells, CopyStillGood
  <2>2. PoolIsDue' => PoolIsDue
    BY <1>6, <2>1 DEF CreateAnswerLost, Fails, PoolIsDue
  <2>3. QED
    BY <1>6, <2>2, AccountOfPool
       DEF CreateAnswerLost, AnswerLost, Fault, OneFault, Wanted
<1>7. QED
  BY <1>1, <1>2, <1>3, <1>4, <1>5, <1>6 DEF Create

\* sdkUpdate makes no pool, and it is about the pool in Status.ID.
LEMMA UpdateAccounts ==
  ASSUME TypeOK, PassInvariant, CreateSyncsNothing, Accounted, Update
  PROVE  Accounted'
BY UpdateKeeps, AccountOfCall

\* The id of the pool that was due reaches Status.ID, or a fault keeps it.
LEMMA PatchAccounts ==
  ASSUME TypeOK, PassInvariant, Accounted, Patch
  PROVE  Accounted'
<1>1. Made' = Made /\ edits' = edits
  BY SamePoolsMade
     DEF Patch, PatchSpec, PatchSpecFails, PatchStatus, PatchStatusFails,
         Fault, OneFault, aux
<1>2. CASE PatchSpec
  <2>1. \E c, t, u :
          cr' = [cr EXCEPT !.res = [cr.res EXCEPT !.cfg = c, !.tags = t,
                                                  !.userPoolTags = u]]
    BY <1>2 DEF PatchSpec, TypeOK, CRs
  <2>2. /\ cr'.present = cr.present /\ cr'.deleting = cr.deleting
        /\ cr'.res.id = cr.res.id
    BY <2>1, SpecWritten
  <2>3. Carried' = Carried
    BY <1>2, <2>2, CarriesOn DEF PatchSpec, inHand
  <2>4. PoolIsDue' => PoolIsDue
    BY <1>2, <2>2, <2>3 DEF PatchSpec, PoolIsDue, Live
  <2>5. QED
    BY <1>1, <1>2, <2>2, <2>4, AccountStays DEF PatchSpec, Wanted, aux
<1>3. CASE PatchSpecFails \/ PatchStatusFails
  BY <1>1, <1>3, AccountStays
     DEF PatchSpecFails, PatchStatusFails, Fault, OneFault, Wanted
<1>4. CASE PatchStatus /\ ~cr.present
  BY <1>1, <1>4, AccountStays
     DEF PatchStatus, Idle, PoolIsDue, Wanted, aux
<1>5. CASE PatchStatus /\ cr.present
  <2> DEFINE i == IF latest.id = desired.id THEN cr.res.id ELSE latest.id
  <2>1. cr' = [cr EXCEPT !.res = [cr.res EXCEPT !.id = i,
                                                !.conds = latest.conds]]
    BY <1>5 DEF PatchStatus, TypeOK, CRs
  <2>2. /\ cr'.present = cr.present /\ cr'.deleting = cr.deleting
        /\ cr'.res.id = i
    BY <2>1, StatusWritten
  <2>3. \/ latest.id = cr.res.id /\ i = cr.res.id
        \/ latest.id # cr.res.id /\ i = latest.id /\ ~Live(cr.res.id)
    BY <1>5 DEF PatchStatus, PassInvariant, CopyStillGood, LocationTells
  <2> HIDE DEF i
  <2>4. ~Live(i) => ~Live(cr.res.id) /\ Carried = {}
    BY <2>3 DEF Carried, InHandId
  <2>5. pc' = "idle" /\ UNCHANGED <<pools, faults>>
    BY <1>5 DEF PatchStatus, Idle, aux
  <2>6. PoolIsDue' => PoolIsDue
    BY <2>2, <2>4, <2>5 DEF PoolIsDue, Live
  <2>7. QED
    BY <1>1, <2>2, <2>5, <2>6, AccountStays DEF Wanted
<1>6. QED
  BY <1>2, <1>3, <1>4, <1>5 DEF Patch

\* A CR being deleted asks for no pool, and none is due when it goes.
LEMMA DeleteAccounts ==
  ASSUME TypeOK, PassInvariant, Accounted, Delete
  PROVE  Accounted'
<1>1. pc \in {"delete", "unmanage"} /\ mode = "delete" /\ ~Wanted
  BY DEF Delete, DeleteOk, DeleteAnswerLost, DeleteFails, Unmanage,
         UnmanageFails, PassInvariant, LocationTells, CopyStillGood, Wanted
<1>2. edits' = edits /\ faults' \in {faults, faults + 1}
  BY DEF Delete, DeleteOk, DeleteAnswerLost, DeleteFails, Unmanage,
         UnmanageFails, AnswerLost, Outage, NotTaken, NotThere, Fault,
         OneFault, aux
<1>3. Made' = Made
  <2>1. CASE DeleteOk \/ DeleteAnswerLost
    <3>1. latest.id \in PoolIds /\ pools[latest.id].state = "live"
          /\ pools' = [pools EXCEPT ![latest.id] = PoolGone]
      BY <2>1 DEF DeleteOk, DeleteAnswerLost, Live
    <3>2. \A q \in PoolIds :
            pools'[q].state = IF q = latest.id THEN "gone"
                              ELSE pools[q].state
      BY <3>1, GonePools
    <3>3. QED
      BY <3>1, <3>2 DEF Made
  <2>2. QED
    BY <2>1, SamePoolsMade DEF Delete, DeleteFails, Unmanage, UnmanageFails
<1>4. pc' \notin {"describe", "manage", "create"}
  BY DEF Delete, DeleteOk, DeleteAnswerLost, DeleteFails, Unmanage,
         UnmanageFails, Fails, Idle
<1>5. ~Wanted'
  BY <1>1, EmptyCR
     DEF Delete, DeleteOk, DeleteAnswerLost, DeleteFails, Unmanage,
         UnmanageFails, Wanted
<1>6. QED
  BY <1>1, <1>2, <1>3, <1>4, <1>5, AccountStays DEF PoolIsDue, Wanted

\* The account is kept by every step: the inductive form of PoolsAreCalledFor.
LEMMA ReconcileAccounts == Spec => []Accounted
<1>1. Init => Accounted
  <2> SUFFICES ASSUME Init
               PROVE  Accounted
    OBVIOUS
  <2>1. Made = {} /\ edits = 0 /\ faults = 0
    BY DEF Init, Made, NoPoolYet
  <2>2. ~PoolIsDue
    BY DEF Init, PoolIsDue, NoCR
  <2>3. QED
    BY <2>1, <2>2, FS_EmptySet DEF Accounted, PoolsInAccount, Init, NoCR
<1>2. TypeOK /\ PassInvariant /\ CreateSyncsNothing /\ Accounted
        /\ [Next]_vars => Accounted'
  <2> SUFFICES ASSUME TypeOK, PassInvariant, CreateSyncsNothing, Accounted,
                      [Next]_vars
               PROVE  Accounted'
    OBVIOUS
  <2>1. CASE Stopped \/ UNCHANGED vars
    <3>1. UNCHANGED <<cr, pools, pc, mode, latest, aux>>
      BY <2>1 DEF Stopped, vars, inHand
    <3>2. Carried' = Carried
      BY <3>1 DEF Carried, InHandId, Live
    <3>3. QED
      BY <3>1, <3>2, AccountOfCall DEF aux
  <2>2. QED
    BY <2>1, UserAccounts, MishapAccounts, ReadAccounts, CreateAccounts,
       UpdateAccounts, PatchAccounts, DeleteAccounts DEF Next, Controller
<1>3. QED
  BY <1>1, <1>2, ReconcileTypeCorrect, ReconcileInvariant,
     ReconcileCreateSyncs, PTL DEF Spec

\* PoolsAreCalledFor: however a pass fails, is retried or finds the CR edited
\* or deleted meanwhile, a CR has one pool made for it, and one more only for
\* each fault.
THEOREM ReconcileMakesWhatIsCalledFor == Spec => []PoolsAreCalledFor
<1>1. TypeOK /\ Accounted => PoolsAreCalledFor
  BY AccountNumbers
     DEF Accounted, PoolsInAccount, PoolsAreCalledFor, Creations
<1>2. QED
  BY <1>1, ReconcileAccounts, ReconcileTypeCorrect, PTL

\* With ids for every CR the user may create and every fault, CreateUserPool
\* never fails in the model for want of an id, which it never does in the
\* service; and the finalizer keeps the CR for the patch.
THEOREM ReconcileMissesNothing ==
  ASSUME EnoughIds
  PROVE  Spec => []NothingMissing
<1>1. TypeOK /\ PassInvariant /\ Accounted => NothingMissing
  <2> SUFFICES ASSUME TypeOK, PassInvariant, Accounted
               PROVE  NothingMissing
    OBVIOUS
  <2>1. ASSUME pc = "create"
        PROVE  Made # PoolIds
    <3>1. PoolIsDue
      BY <2>1, NothingCarried
         DEF PassInvariant, LocationTells, CopyStillGood, PoolIsDue
    <3>2. 2 * (Cardinality(Made) + 1) <= edits + 1 + 2 * faults
      BY <3>1, AccountNumbers DEF Accounted, PoolsInAccount
    <3>3. edits <= MaxEdits /\ faults <= MaxFaults
      BY ReconcileAssumption DEF TypeOK
    <3>4. Cardinality(PoolIds) \in Nat
      BY FS_CardinalityType DEF EnoughIds
    <3>5. Cardinality(Made) < Cardinality(PoolIds)
      BY <3>2, <3>3, <3>4, AccountNumbers, ReconcileAssumption DEF EnoughIds
    <3>6. QED
      BY <3>4, <3>5
  <2>2. pc = "patch" => cr.present
    BY DEF PassInvariant, LocationTells, CRShape
  <2>3. QED
    BY <2>1, <2>2 DEF NothingMissing
<1>2. QED
  BY <1>1, ReconcileAccounts, ReconcileTypeCorrect, ReconcileInvariant, PTL

-----------------------------------------------------------------------------
(* Replicas                                                                *)

\* The shape of the state of the replicas.
ReplicaShape ==
  /\ working \subseteq Replicas
  /\ front \in Replicas
  /\ parked = [r \in Replicas |-> parked[r]]
  /\ deaths \in Nat

\* What the user does to the CR leaves a request in the queue exactly when the
\* CR is still there, if that was so before.
LEMMA UserQueues ==
  ASSUME TypeOK, User, queued = cr.present
  PROVE  queued' = cr'.present
<1>1. ASSUME NEW spec \in UserSpecs, UserCreates(spec)
      PROVE  queued' = cr'.present
  BY <1>1 DEF UserCreates, NewCR
<1>2. ASSUME NEW spec \in UserSpecs, UserEdits(spec)
      PROVE  queued' = cr'.present
  BY <1>2, CRParts DEF UserEdits, TypeOK, CRs
<1>3. CASE UserDeletes
  BY <1>3, CRParts DEF UserDeletes, TypeOK, CRs, NoCR
<1>4. QED
  BY <1>1, <1>2, <1>3 DEF User

\* The user does not touch the worker, but for its queue.
LEMMA UserSparesWorker ==
  ASSUME User
  PROVE  UNCHANGED <<pc, inHand>>
BY DEF User, UserCreates, UserEdits, UserDeletes

\* What a worker at rest holds.
LEMMA AtRest ==
  ASSUME NEW q, Worker = Rested(q)
  PROVE  /\ pc = "idle" /\ mode = "sync" /\ managed = FALSE
         /\ desired = NoResource /\ latest = NoResource
         /\ add = NoTags /\ del = {} /\ next = "done" /\ outcome = "none"
         /\ queued = q
BY DEF Worker, Rested

LEMMA RestStays ==
  ASSUME UNCHANGED <<pc, inHand>>
  PROVE  Worker' = [Worker EXCEPT !.queued = queued']
BY DEF Worker, inHand

\* A crash leaves the worker at rest, and the CR to be listed.
LEMMA CrashRests ==
  ASSUME Crash
  PROVE  Worker' = Rested(cr'.present)
BY DEF Crash, Idle, Worker, Rested

\* A worker that comes to the front while another one was left at rest brings
\* nothing of its own.
LEMMA FrontIsSame ==
  ASSUME NEW r \in Replicas, ReplicaShape, OneAtWork, ComesToFront(r)
  PROVE  UNCHANGED vars
<1>1. front \notin working
  BY DEF ComesToFront, OneAtWork
<1>2. parked[r] = Worker
  BY <1>1 DEF ComesToFront, OneAtWork
<1>3. QED
  BY <1>2 DEF ComesToFront, Worker, vars, inHand, request

\* The types, the shape and OneAtWork are kept by every step, and every step
\* is one of UserPoolReconcile or none.
LEMMA ReplicaStep ==
  ASSUME TypeOK, ReplicaShape, OneAtWork, [ReplicaNext]_replicaVars
  PROVE  [Next]_vars /\ ReplicaShape' /\ OneAtWork'
<1>1. ASSUME NEW r \in Replicas, Starts(r)
      PROVE  [Next]_vars /\ ReplicaShape' /\ OneAtWork'
  <2>1. UNCHANGED vars /\ Worker' = Worker /\ cr' = cr
    BY <1>1 DEF Starts, vars, Worker, inHand, request
  <2>2. working = {}
    BY <1>1, ReplicasAssumption
       DEF Starts, MayStart, OneAtWork, ReplicaShape
  <2>3. working' = {r} /\ leader' = (IF Elects THEN r ELSE leader)
    BY <1>1, <2>2 DEF Starts
  <2>4. parked' = [parked EXCEPT ![r] = Rested(cr.present)]
    BY <1>1 DEF Starts
  <2>5. parked'[r] = Rested(cr.present)
    BY <2>4 DEF ReplicaShape
  <2>6. front \notin working /\ Worker = Rested(cr.present)
    BY <2>2 DEF OneAtWork
  <2>7. OneAtWork'
    BY <2>1, <2>3, <2>5, <2>6, ReplicasAssumption DEF OneAtWork
  <2>8. ReplicaShape'
    BY <1>1, <2>3, <2>4 DEF ReplicaShape, Starts
  <2>9. QED
    BY <2>1, <2>7, <2>8
<1>2. ASSUME NEW r \in Replicas, ComesToFront(r)
      PROVE  [Next]_vars /\ ReplicaShape' /\ OneAtWork'
  <2>1. UNCHANGED vars
    BY <1>2, FrontIsSame
  <2>2. ReplicaShape'
    BY <1>2 DEF ComesToFront, ReplicaShape
  <2>3. front' \in working' /\ working' = working /\ leader' = leader
    BY <1>2 DEF ComesToFront
  <2>4. QED
    BY <2>1, <2>2, <2>3 DEF OneAtWork
<1>3. CASE Dies
  <2>1. [Next]_vars
    BY <1>3 DEF Dies, Next
  <2>2. Worker' = Rested(cr'.present)
    BY <1>3, CrashRests DEF Dies, Worker, Rested, vars, inHand, request
  <2>3. working' = {}
    BY <1>3 DEF Dies, OneAtWork
  <2>4. QED
    BY <1>3, <2>1, <2>2, <2>3 DEF Dies, OneAtWork, ReplicaShape
<1>4. CASE Expires
  <2>1. UNCHANGED vars /\ Worker' = Worker /\ cr' = cr
    BY <1>4 DEF Expires, vars, Worker, inHand, request
  <2>2. Elects => working = {}
    BY <1>4 DEF Expires, OneAtWork
  <2>3. QED
    BY <1>4, <2>1, <2>2 DEF Expires, OneAtWork, ReplicaShape
<1>5. CASE Works
  BY <1>5 DEF Works, process, Next, OneAtWork, ReplicaShape
<1>6. CASE UserActs
  <2>1. [Next]_vars /\ working' = working /\ front' = front
        /\ leader' = leader
    BY <1>6 DEF UserActs, Next
  <2>2. ReplicaShape'
    BY <1>6, <2>1 DEF UserActs, ReplicaShape
  <2>3. ASSUME front \notin working
        PROVE  /\ Worker' = Rested(cr'.present)
               /\ \A r \in working : parked'[r] = Worker'
    <3>1. Worker = Rested(cr.present) /\ queued = cr.present
      BY <2>3 DEF OneAtWork, Worker, Rested
    <3>2. Worker' = [Worker EXCEPT !.queued = queued']
      BY <1>6, UserSparesWorker, RestStays DEF UserActs
    <3>3. queued' = cr'.present
      BY <1>6, <3>1, UserQueues DEF UserActs
    <3>4. Worker' = Rested(cr'.present)
      BY <1>6, <3>1, <3>3, AtRest, UserSparesWorker
         DEF UserActs, inHand, Worker, Rested
    <3>5. \A r \in working : parked'[r] = [Worker EXCEPT !.queued = queued']
      BY <1>6, <2>3 DEF UserActs, OneAtWork, ReplicaShape
    <3>6. QED
      BY <3>2, <3>4, <3>5
  <2>4. QED
    BY <2>1, <2>2, <2>3 DEF OneAtWork
<1>7. CASE (Service \/ Stopped) /\ UNCHANGED process
  <2>1. [Next]_vars /\ UNCHANGED process
    BY <1>7 DEF Next
  <2>2. UNCHANGED <<pc, inHand, queued, cr>>
    BY <1>7 DEF Service, PoolRemoved, TagDrifts, Stopped, vars, request
  <2>3. Worker' = Worker /\ cr' = cr
    BY <2>2 DEF Worker, inHand
  <2>4. QED
    BY <2>1, <2>3 DEF process, OneAtWork, ReplicaShape
<1>8. CASE UNCHANGED replicaVars
  <2>1. UNCHANGED vars /\ UNCHANGED process /\ Worker' = Worker /\ cr' = cr
    BY <1>8 DEF replicaVars, vars, Worker, inHand, request
  <2>2. QED
    BY <2>1 DEF process, OneAtWork, ReplicaShape
<1>9. QED
  BY <1>1, <1>2, <1>3, <1>4, <1>5, <1>6, <1>7, <1>8 DEF ReplicaNext

LEMMA ReplicasHold ==
  ReplicaSpec => [](TypeOK /\ ReplicaShape /\ OneAtWork)
<1>1. ReplicaInit => TypeOK /\ ReplicaShape /\ OneAtWork
  <2> SUFFICES ASSUME ReplicaInit
               PROVE  TypeOK /\ ReplicaShape /\ OneAtWork
    OBVIOUS
  <2>1. TypeOK
    BY TypeAtFirst DEF ReplicaInit
  <2>2. ReplicaShape
    BY DEF ReplicaInit, ReplicaShape
  <2>3. Worker = Rested(cr.present)
    BY DEF ReplicaInit, Init, NoCR, Worker, Rested
  <2>4. QED
    BY <2>1, <2>2, <2>3 DEF ReplicaInit, OneAtWork
<1>2. TypeOK /\ ReplicaShape /\ OneAtWork /\ [ReplicaNext]_replicaVars
        => TypeOK' /\ ReplicaShape' /\ OneAtWork'
  BY ReplicaStep, TypeKept
<1>3. QED
  BY <1>1, <1>2, PTL DEF ReplicaSpec

\* OneAtWork: whoever starts, dies and loses the lease, there is one worker.
THEOREM ReplicasOneAtWork == ReplicaSpec => []OneAtWork
BY ReplicasHold, PTL

\* ActsAsOne without its fairness: the replicas implement the one controller
\* of UserPoolReconcile.
THEOREM ReplicasImplementOne == ReplicaSpec => Spec
<1>1. ReplicaInit => Init
  BY DEF ReplicaInit
<1>2. TypeOK /\ ReplicaShape /\ OneAtWork /\ [ReplicaNext]_replicaVars
        => [Next]_vars
  BY ReplicaStep
<1>3. QED
  BY <1>1, <1>2, ReplicasHold, PTL DEF ReplicaSpec, Spec

\* NoReplicaForgets: what the one controller does not forget, no replica does.
COROLLARY ReplicasForgetNoPool == ReplicaSpec => []NoReplicaForgets
<1>1. NoPoolForgotten => NoReplicaForgets
  BY DEF NoPoolForgotten, NoReplicaForgets
<1>2. QED
  BY <1>1, ReplicasImplementOne, ReconcileForgetsNoPool, PTL

\* KeepsThePromise: replicas that die and take over from each other still make
\* one pool for a CR, and let the CR go after it.
COROLLARY ReplicasKeepThePromise == ReplicaSpec => KeepsThePromise
BY ReplicasImplementOne, ReconcileImplementsLifecycle

\* What is safe with one controller is safe with replicas: the finalizer, the
\* deletions, the id, the tags of the user and the number of pools, whoever
\* dies and takes over.
COROLLARY ReplicasAreSafe ==
  ReplicaSpec => /\ [](FinalizerHeld /\ DeletesOnlyItsOwn)
                 /\ []RefusalsAreEarned
                 /\ [](PoolsAreCalledFor /\ OneLives)
                 /\ IdLeavesOnlyDeadPools
                 /\ SpecTagsAreTheUsers
                 /\ ConditionsTellOutcome
                 /\ UndisturbedPass
                 /\ PassesAdvance
BY ReplicasImplementOne, ReconcileHoldsFinalizer, ReconcileDeletesOnlyItsOwn,
   ReconcileRefusals, ReconcileMakesWhatIsCalledFor, ReconcileOneLives,
   ReconcileIdMoves, ReconcileSpecTags, ReconcileConditions,
   ReconcileUndisturbed, ReconcileAdvances, PTL

\* AwsTagsUntouched with replicas: the tags a dead replica listed are not what
\* the next one works with.
COROLLARY ReplicasSpareAwsTags ==
  ASSUME UserTagsAreOurs
  PROVE  ReplicaSpec => AwsTagsUntouched
BY ReplicasImplementOne, ReconcileSparesAwsTags

-----------------------------------------------------------------------------
(* One of the replicas keeps working                                       *)

Nobody == working = {}
Free == Elects => leader = NoReplica
InFront == front \in working

\* Who can do what, by who works.
LEMMA WhoCan ==
  ASSUME ReplicaShape, OneAtWork
  PROVE  /\ Nobody /\ Free => CanStart
         /\ Nobody /\ ~Free => CanExpire
         /\ ~Nobody /\ ~InFront => CanComeToFront
         /\ InFront => ~Nobody /\ (CanWork <=> Busy)
BY DEF ReplicaShape, Nobody, Free, InFront, CanStart, CanExpire,
       CanComeToFront, CanWork, MayStart

\* While nobody dies, whoever started goes on working, and stays in front.
LEMMA NobodyDies ==
  ASSUME ReplicaShape, OneAtWork, [ReplicaNext]_replicaVars,
         [UNCHANGED deaths]_replicaVars
  PROVE  /\ ~Nobody => ~Nobody'
         /\ InFront => InFront'
         /\ Nobody /\ Free => ~Nobody' \/ Free'
<1>1. ~Dies
  BY DEF Dies, ReplicaShape, replicaVars, process
<1>2. ASSUME NEW r \in Replicas, Starts(r)
      PROVE  Nobody /\ ~Nobody'
  <2>1. working = {}
    BY <1>2, ReplicasAssumption
       DEF Starts, MayStart, OneAtWork, ReplicaShape
  <2>2. QED
    BY <1>2, <2>1 DEF Starts, Nobody
<1>3. ASSUME NEW r \in Replicas, ComesToFront(r)
      PROVE  ~Nobody /\ ~Nobody' /\ InFront'
  BY <1>3 DEF ComesToFront, Nobody, InFront
<1>4. Expires => UNCHANGED <<working, front>> /\ Free'
  BY DEF Expires, Free
<1>5. (Works \/ UserActs \/ UNCHANGED process)
        => UNCHANGED <<leader, working, front>>
  BY DEF Works, UserActs, process
<1>6. QED
  BY <1>1, <1>2, <1>3, <1>4, <1>5
     DEF ReplicaNext, Nobody, InFront, Free, replicaVars

\* What the steps bring that FairReplicaSpec sees to.
LEMMA WhatFairnessBrings ==
  ASSUME ReplicaShape, OneAtWork
  PROVE  /\ <<\E r \in Replicas : Starts(r)>>_replicaVars => ~Nobody'
         /\ <<\E r \in Replicas : ComesToFront(r)>>_replicaVars => InFront'
         /\ <<Expires>>_replicaVars => Free'
         /\ <<Works>>_replicaVars => <<Controller>>_vars
BY DEF Starts, ComesToFront, Expires, Works, Nobody, InFront, Free,
       replicaVars

\* However often a replica dies, in the end one of them has the lease, is in
\* front, and does what there is to do.
THEOREM ReplicasTakeOver ==
  ReplicaSpec /\ DeathsEnd /\ ReplicasGoOn => KeepsWorking
<1>1. ReplicaSpec => [](ReplicaShape /\ OneAtWork)
  BY ReplicasHold, PTL
<1>2. ReplicaShape /\ OneAtWork =>
        /\ Nobody /\ Free => CanStart
        /\ Nobody /\ ~Free => CanExpire
        /\ ~Nobody /\ ~InFront => CanComeToFront
        /\ InFront => ~Nobody /\ (CanWork <=> Busy)
  BY WhoCan
<1>3. ReplicaShape /\ OneAtWork /\ [ReplicaNext]_replicaVars
        /\ [UNCHANGED deaths]_replicaVars =>
        /\ ~Nobody => ~Nobody'
        /\ InFront => InFront'
        /\ Nobody /\ Free => ~Nobody' \/ Free'
  BY NobodyDies
<1>4. ReplicaShape /\ OneAtWork =>
        /\ <<\E r \in Replicas : Starts(r)>>_replicaVars => ~Nobody'
        /\ <<\E r \in Replicas : ComesToFront(r)>>_replicaVars => InFront'
        /\ <<Expires>>_replicaVars => Free'
        /\ <<Works>>_replicaVars => <<Controller>>_vars
  BY WhatFairnessBrings
<1>5. QED
  BY <1>1, <1>2, <1>3, <1>4, PTL
     DEF ReplicaSpec, DeathsEnd, ReplicasGoOn, KeepsWorking

\* Replicas converge and end deletions like one controller: from the fairness
\* of each part, an environment that comes to rest and deaths that end.
COROLLARY ReplicasKeepWorking ==
  ReplicaSpec /\ ReplicasGoOn /\ DeathsEnd /\ ComesToRest
    => Converges /\ DeletionEnds
BY ReplicasTakeOver, ReplicasImplementOne, ReconcileConverges,
   ReconcileDeletes

\* FairReplicaSpec is that fairness, if no replica is ever stuck.
LEMMA FairReplicasGoOn ==
  FairReplicaSpec /\ []ReplicasNeverStuck => ReplicaSpec /\ ReplicasGoOn
BY PTL DEF FairReplicaSpec, ReplicasNeverStuck, ReplicasGoOn

\* Converges and DeletionEnds, from FairReplicaSpec.
COROLLARY FairReplicasKeepPromises ==
  FairReplicaSpec /\ []ReplicasNeverStuck /\ DeathsEnd /\ ComesToRest
    => Converges /\ DeletionEnds
BY FairReplicasGoOn, ReplicasKeepWorking

\* ActsAsOne: safety and fairness of UserPoolReconcile.  Replicas that come
\* and go are one controller that always comes back.
THEOREM ReplicasActAsOne ==
  FairReplicaSpec /\ [](ReplicasNeverStuck /\ NeverStuck) /\ DeathsEnd
    => ActsAsOne
<1>1. KeepsWorking /\ []NeverStuck => WF_vars(Controller)
  BY PTL DEF KeepsWorking, NeverStuck
<1>2. QED
  BY <1>1, FairReplicasGoOn, ReplicasTakeOver, ReplicasImplementOne, PTL
     DEF ActsAsOne, FairSpec

=============================================================================
