----------------------- MODULE UserPoolReconcile_proofs -----------------------
(***************************************************************************)
(* The types and the safety of UserPoolReconcile, for every set of pools,  *)
(* fields, tags and specs and every number of faults and edits.            *)
(*                                                                         *)
(* After the types, first the pools: none is forgotten, the finalizer is   *)
(* held while one depends on the CR, only the CR's own pool is deleted,    *)
(* and Status.ID leaves only a pool that is gone.  The steps come in six   *)
(* kinds, each with a lemma: the user moves, the service moves, a pass     *)
(* begins, goes on, fails, ends.  Then what the worker holds in the middle *)
(* of a pass (WorkInvariant), and from it what reaches the CR and the      *)
(* service: the user's tags, the service's tags, the conditions.           *)
(***************************************************************************)
EXTENDS UserPoolReconcile, Tags_proofs

-----------------------------------------------------------------------------
(* Types of what the operators return                                      *)

LEMMA NoConditionsType == NoConditions \in ConditionSets
BY DEF NoConditions, ConditionSets, ConditionTypes, Statuses

LEMMA OnErrorType ==
  ASSUME NEW res \in Resources, NEW err \in Errors
  PROVE  /\ OnError(res, err) \in Resources
         /\ OnError(res, err).id = res.id
BY DEF OnError, UpdateConditions, Cleared, Resources, ConditionSets,
       ConditionTypes, Statuses

LEMMA OnSuccessType ==
  ASSUME NEW res \in Resources
  PROVE  /\ OnSuccess(res) \in Resources
         /\ OnSuccess(res).id = res.id
         /\ OnSuccess(res).tags = res.tags
BY DEF OnSuccess, UpdateConditions, Cleared, Resources, ConditionSets,
       ConditionTypes, Statuses

LEMMA MergeTypes ==
  ASSUME NEW c \in Configs, NEW d \in Configs
  PROVE  /\ MergeFound(c, d) \in Configs
         /\ MergeCreated(c, d) \in Configs
BY DEF MergeFound, MergeCreated, Configs

LEMMA NewPoolType ==
  ASSUME NEW res \in Resources
  PROVE  NewPool(res) \in Pools /\ NewPool(res).state = "live"
BY ReconcileAssumption DEF NewPool, Payload, Pools, Resources, Configs

LEMMA UpdatedPoolType ==
  ASSUME NEW pool \in Pools, NEW res \in Resources, NEW resets \in BOOLEAN
  PROVE  /\ UpdatedPool(pool, res, resets) \in Pools
         /\ UpdatedPool(pool, res, resets).state = pool.state
BY ReconcileAssumption
   DEF UpdatedPool, Payload, Pools, Resources, Configs, TagMaps, Has

LEMMA EmptyTypes ==
  /\ NoTags \in TagMaps
  /\ NoConfig \in Configs
  /\ NoResource \in Resources /\ NoResource.id = NoPool
  /\ NoPoolYet \in Pools /\ PoolGone \in Pools
  /\ NoCR \in CRs
  /\ TagMaps \subseteq SpecTagMaps
BY DEF NoTags, NoConfig, NoResource, NoPoolYet, PoolGone, NoCR, NoConditions,
       TagMaps, SpecTagMaps, Configs, Resources, Pools, CRs, Ids,
       ConditionSets, ConditionTypes, Statuses

-----------------------------------------------------------------------------
(* Types of the parts of a state, and of what a step puts in them          *)

LEMMA ResourceParts ==
  ASSUME NEW res \in Resources
  PROVE  /\ res.id \in Ids /\ res.cfg \in Configs
         /\ res.tags \in SpecTagMaps /\ res.userPoolTags \in TagMaps
         /\ res.conds \in ConditionSets
BY DEF Resources

LEMMA ResourceExcept ==
  ASSUME NEW res \in Resources, NEW i \in Ids, NEW c \in Configs,
         NEW t \in SpecTagMaps, NEW u \in TagMaps, NEW s \in ConditionSets
  PROVE  /\ [res EXCEPT !.id = i, !.conds = s] \in Resources
         /\ [res EXCEPT !.tags = t] \in Resources
         /\ [res EXCEPT !.tags = t, !.conds = s] \in Resources
         /\ [res EXCEPT !.cfg = c, !.userPoolTags = u] \in Resources
         /\ [res EXCEPT !.cfg = c, !.tags = t, !.userPoolTags = u]
              \in Resources
         /\ [res EXCEPT !.id = i, !.cfg = c, !.userPoolTags = u]
              \in Resources
BY DEF Resources

LEMMA PoolParts ==
  ASSUME TypeOK, NEW p \in PoolIds
  PROVE  pools[p] \in Pools /\ pools[p].cfg \in Configs
         /\ pools[p].tags \in TagMaps
BY DEF TypeOK, Pools

LEMMA PoolsExcept ==
  ASSUME TypeOK, NEW p \in PoolIds, NEW pool \in Pools, NEW t \in TagMaps
  PROVE  /\ [pools EXCEPT ![p] = pool] \in [PoolIds -> Pools]
         /\ [pools EXCEPT ![p].tags = t] \in [PoolIds -> Pools]
<1>1. [pools[p] EXCEPT !.tags = t] \in Pools
  BY PoolParts DEF Pools
<1>2. pools \in [PoolIds -> Pools]
  BY DEF TypeOK
<1>3. QED
  BY <1>1, <1>2

LEMMA CRParts ==
  ASSUME TypeOK
  PROVE  /\ cr.present \in BOOLEAN /\ cr.deleting \in BOOLEAN
         /\ cr.managed \in BOOLEAN /\ cr.res \in Resources
BY DEF TypeOK, CRs

LEMMA CRExcept ==
  ASSUME TypeOK, NEW b \in BOOLEAN, NEW res \in Resources
  PROVE  /\ [cr EXCEPT !.deleting = b] \in CRs
         /\ [cr EXCEPT !.managed = b] \in CRs
         /\ [cr EXCEPT !.res = res] \in CRs
BY DEF TypeOK, CRs

LEMMA FailsType ==
  ASSUME NEW res \in Resources, NEW err \in Errors, Fails(res, err)
  PROVE  pc' \in Locations /\ latest' \in Resources /\ outcome' \in Outcomes
BY OnErrorType DEF Fails, Locations, Outcomes

LEMMA AfterTagsType ==
  ASSUME NEW then \in {"created", "update", "done"},
         NEW wanted \in Resources, NEW held \in Resources,
         AfterTags(then, wanted, held)
  PROVE  pc' \in Locations /\ latest' \in Resources
BY OnSuccessType DEF AfterTags, Succeeds, Locations

LEMMA SyncTagsType ==
  ASSUME NEW then \in {"created", "update", "done"},
         NEW wanted \in Resources, NEW held \in Resources,
         NEW existing \in SpecTagMaps,
         ToAdd(wanted.tags, existing) \in TagMaps,
         SyncTags(wanted, existing, then, held)
  PROVE  /\ pc' \in Locations /\ latest' \in Resources
         /\ add' \in TagMaps /\ del' \subseteq Keys
         /\ next' \in {"created", "update", "done"}
<1>1. pc' \in Locations /\ latest' \in Resources
  BY AfterTagsType DEF SyncTags, Locations
<1>2. QED
  BY <1>1 DEF SyncTags, ToDelete, KeysOf

LEMMA IdleType ==
  ASSUME Idle
  PROVE  /\ pc' \in Locations /\ mode' \in {"sync", "delete"}
         /\ managed' \in BOOLEAN
         /\ desired' \in Resources /\ latest' \in Resources
         /\ add' \in TagMaps /\ del' \subseteq Keys
         /\ next' \in {"created", "update", "done"}
         /\ outcome' \in Outcomes
BY EmptyTypes DEF Idle, Locations, Outcomes

LEMMA BoundsType ==
  ASSUME TypeOK
  PROVE  Fault \/ UserStep \/ UNCHANGED aux \/ (\E err : NotTaken(err))
           => /\ faults' \in 0..MaxFaults /\ edits' \in 0..MaxEdits
              /\ refused' \in BOOLEAN
<1>1. Fault \/ (\E err : NotTaken(err)) => OneFault
  BY DEF Fault, NotTaken
<1>2. Fault \/ UserStep \/ UNCHANGED aux \/ (\E err : NotTaken(err))
        => refused' \in BOOLEAN
  BY DEF TypeOK, Fault, UserStep, aux, NotTaken
<1>3. OneFault \/ UserStep \/ UNCHANGED aux
        => faults' \in 0..MaxFaults /\ edits' \in 0..MaxEdits
  BY ReconcileAssumption DEF TypeOK, OneFault, UserStep, aux
<1>4. QED
  BY <1>1, <1>2, <1>3

LEMMA LiveIds == \A p : Live(p) => p \in PoolIds
BY DEF Live

LEMMA ReadType ==
  ASSUME TypeOK, Live(desired.id)
  PROVE  /\ Observed \in Resources /\ Observed.tags \in TagMaps
         /\ Mirrored \in Resources /\ Mirrored.tags \in TagMaps
         /\ Observed.id = latest.id /\ Mirrored.id = desired.id
<1> DEFINE read == [latest EXCEPT !.tags = pools[desired.id].tags]
           tags == MirrorAWSTags(desired.tags, Observed.tags)
<1>1. pools[desired.id].tags \in TagMaps
  BY LiveIds, PoolParts
<1>2. read \in Resources
  BY <1>1, ResourceParts, ResourceExcept, EmptyTypes DEF TypeOK
<1>3. read.tags = pools[desired.id].tags /\ read.id = latest.id
  BY DEF TypeOK, Resources
<1>4. Observed \in Resources /\ Observed.tags \in TagMaps
      /\ Observed.id = latest.id
  <2> HIDE DEF read
  <2>1. Observed = OnSuccess(read)
    BY DEF Observed, read
  <2>2. QED
    BY <2>1, <1>1, <1>2, <1>3, OnSuccessType
<1>5. tags \in TagMaps
  BY <1>4, EmptyTypes, ResourceParts, MirrorAWSTagsType DEF TypeOK
<1>6. Mirrored = [desired EXCEPT !.tags = tags]
  BY DEF Mirrored
<1> HIDE DEF tags
<1>7. Mirrored.tags = tags /\ Mirrored.id = desired.id
  BY <1>6 DEF TypeOK, Resources
<1>8. QED
  BY <1>4, <1>5, <1>6, <1>7, ResourceParts, ResourceExcept, EmptyTypes
     DEF TypeOK

LEMMA CreatedType ==
  ASSUME TypeOK, NEW p \in PoolIds
  PROVE  /\ Created(p) \in Resources
         /\ Created(p).tags = desired.tags /\ Created(p).id = p
<1> DEFINE c == MergeCreated(desired.cfg, NewPool(desired).cfg)
           u == NewPool(desired).tags
<1>1. c \in Configs /\ u \in TagMaps /\ p \in Ids
  BY NewPoolType, MergeTypes, ResourceParts DEF TypeOK, Pools, Ids
<1>2. Created(p) = [desired EXCEPT !.id = p, !.cfg = c, !.userPoolTags = u]
  BY DEF Created
<1> HIDE DEF c, u
<1>3. Created(p).tags = desired.tags /\ Created(p).id = p
  BY <1>2 DEF TypeOK, Resources
<1>4. [desired EXCEPT !.id = p, !.cfg = c, !.userPoolTags = u] \in Resources
  BY <1>1 DEF TypeOK, Resources
<1>5. QED
  BY <1>2, <1>3, <1>4

LEMMA MergedType ==
  ASSUME NEW S, NEW V, NEW held \in [S -> V], NEW a \in [S -> V],
         NEW b \in [S -> V]
  PROVE  Merged(held, a, b) \in [S -> V]
BY DEF Merged

-----------------------------------------------------------------------------

\* Every step of the user, the service, a fault and the controller keeps the
\* types: no nil tag is sent to the service, no pool or CR loses its shape,
\* no bound is passed.
LEMMA TypeKept ==
  ASSUME TypeOK, [Next]_vars
  PROVE  TypeOK'
<1>1. ASSUME NEW spec \in UserSpecs, UserCreates(spec)
      PROVE  TypeOK'
  <2>1. NewCR(spec) \in CRs
    BY ReconcileAssumption, EmptyTypes
       DEF NewCR, CRs, Resources, Ids, NoConditions, ConditionSets,
           ConditionTypes, Statuses
  <2>2. QED
    BY <1>1, <2>1, BoundsType DEF UserCreates, TypeOK, inHand, Outcomes
<1>2. ASSUME NEW spec \in UserSpecs, UserEdits(spec)
      PROVE  TypeOK'
  <2>1. [cr.res EXCEPT !.cfg = spec.cfg, !.tags = spec.tags,
                        !.userPoolTags = spec.userPoolTags] \in Resources
    BY ReconcileAssumption, CRParts, ResourceParts, ResourceExcept
  <2>2. cr' \in CRs
    BY <1>2, <2>1, CRExcept, CRParts DEF UserEdits
  <2>3. QED
    BY <1>2, <2>2, BoundsType DEF UserEdits, TypeOK, inHand
<1>3. ASSUME UserDeletes
      PROVE  TypeOK'
  BY <1>3, BoundsType, CRParts, CRExcept, EmptyTypes
     DEF UserDeletes, TypeOK, inHand
<1>4. ASSUME NEW p \in PoolIds, PoolRemoved(p)
      PROVE  TypeOK'
  BY <1>4, BoundsType, PoolsExcept, EmptyTypes
     DEF PoolRemoved, TypeOK, request, inHand
<1>5. ASSUME NEW p \in PoolIds, NEW k \in Keys,
             NEW v \in Vals \union {Absent}, TagDrifts(p, k, v)
      PROVE  TypeOK'
  <2>1. [pools[p].tags EXCEPT ![k] = v] \in TagMaps
    BY PoolParts DEF TagMaps
  <2>2. pools' = [pools EXCEPT ![p].tags =
                      [pools[p].tags EXCEPT ![k] = v]]
    BY <1>5 DEF TagDrifts
  <2>3. pools' \in [PoolIds -> Pools]
    BY <2>1, <2>2, PoolsExcept, EmptyTypes
  <2>4. QED
    BY <1>5, <2>3, BoundsType DEF TagDrifts, TypeOK, request, inHand
<1>6. ASSUME Crash
      PROVE  TypeOK'
  <2>1. lost' \subseteq PoolIds
    BY <1>6 DEF Crash, InHandId, TypeOK
  <2>2. QED
    BY <1>6, <2>1, BoundsType, CRParts, IdleType DEF Crash, TypeOK
<1>7. ASSUME Start
      PROVE  TypeOK'
  <2>1. desired' \in Resources
    BY <1>7, CRParts, ResourceParts, ResourceExcept, EnsureTagsType,
       EmptyTypes, NoConditionsType
       DEF Start
  <2>2. QED
    BY <1>7, <2>1, BoundsType, CRParts DEF Start, TypeOK, Locations
<1>8. ASSUME DescribeNotFound
      PROVE  TypeOK'
  BY <1>8, BoundsType
     DEF DescribeNotFound, TypeOK, request, Locations, inHand
<1>9. ASSUME DescribeFound
      PROVE  TypeOK'
  <2>1. desired \in Resources /\ desired.id \in PoolIds
    BY <1>9, LiveIds DEF DescribeFound, TypeOK
  <2>2. MergeFound(desired.cfg, pools[desired.id].cfg) \in Configs
    BY <2>1, PoolParts, ResourceParts, MergeTypes
  <2>3. latest' \in Resources
    BY <1>9, <2>1, <2>2, PoolParts, ResourceParts, ResourceExcept
       DEF DescribeFound
  <2>4. QED
    BY <1>9, <2>3, BoundsType DEF DescribeFound, TypeOK, request, Locations
<1>10. ASSUME NEW err \in Errors, DescribeFails(err)
       PROVE  TypeOK'
  BY <1>10, BoundsType, FailsType DEF DescribeFails, Outage, TypeOK, request
<1>11. ASSUME ListTagsOk
       PROVE  TypeOK'
  <2>1. /\ Observed \in Resources /\ Observed.tags \in TagMaps
        /\ Mirrored \in Resources /\ Mirrored.tags \in TagMaps
    BY <1>11, ReadType DEF ListTagsOk
  <2>2. /\ desired' = Mirrored
        /\ \/ /\ pc' = "delete" /\ latest' = Observed
              /\ UNCHANGED <<add, del, next>>
           \/ SyncTags(Mirrored, Observed.tags, WhatFollows, Observed)
           \/ /\ latest' = Observed /\ next' = WhatFollows
              /\ pc' \in {"update", "status"}
              /\ UNCHANGED <<add, del>>
        /\ UNCHANGED <<cr, pools, mode, managed, outcome, request, lost,
                       aux>>
    BY <1>11 DEF ListTagsOk
  <2>3. WhatFollows \in {"created", "update", "done"}
    BY DEF WhatFollows
  <2>4. /\ pc' \in Locations /\ latest' \in Resources
        /\ add' \in TagMaps /\ del' \subseteq Keys
        /\ next' \in {"created", "update", "done"}
    <3>1. CASE SyncTags(Mirrored, Observed.tags, WhatFollows, Observed)
      BY <3>1, <2>1, <2>3, PlanType, SyncTagsType, EmptyTypes
    <3>2. CASE /\ pc' = "delete" /\ latest' = Observed
               /\ UNCHANGED <<add, del, next>>
      BY <3>2, <2>1 DEF TypeOK, Locations
    <3>3. CASE /\ latest' = Observed /\ next' = WhatFollows
               /\ pc' \in {"update", "status"}
               /\ UNCHANGED <<add, del>>
      BY <3>3, <2>1, <2>3 DEF TypeOK, Locations
    <3>4. QED
      BY <3>1, <3>2, <3>3, <2>2
  <2>5. QED
    BY <2>1, <2>2, <2>4, BoundsType DEF TypeOK, request
<1>12. ASSUME NEW err \in Errors, ListTagsFails(err)
       PROVE  TypeOK'
  BY <1>12, BoundsType, FailsType
     DEF ListTagsFails, Outage, NotThere, TypeOK, request
<1>13. ASSUME Manage
       PROVE  TypeOK'
  BY <1>13, BoundsType, CRExcept DEF Manage, TypeOK, request, Locations
<1>14. ASSUME ManageFails
       PROVE  TypeOK'
  BY <1>14, BoundsType, CRParts, IdleType DEF ManageFails, TypeOK
<1>15. ASSUME CreateRefused
       PROVE  TypeOK'
  BY <1>15, BoundsType, FailsType DEF CreateRefused, TypeOK, request, Errors
<1>16. ASSUME NEW p \in PoolIds, CreateOk(p)
       PROVE  TypeOK'
  <2>1. /\ NewPool(desired) \in Pools
        /\ Created(p) \in Resources /\ Created(p).tags = desired.tags
    BY NewPoolType, CreatedType DEF TypeOK
  <2>2. ToAdd(desired.tags, Created(p).tags) \in TagMaps
    BY <2>1 DEF ToAdd, TagMaps
  <2>3. /\ pc' \in Locations /\ latest' \in Resources
        /\ add' \in TagMaps /\ del' \subseteq Keys
        /\ next' \in {"created", "update", "done"}
    BY <1>16, <2>1, <2>2, ResourceParts, SyncTagsType DEF CreateOk, TypeOK
  <2>4. pools' \in [PoolIds -> Pools]
    BY <1>16, <2>1, PoolsExcept, EmptyTypes DEF CreateOk
  <2>5. QED
    BY <1>16, <2>3, <2>4, BoundsType DEF CreateOk, TypeOK, request
<1>17. ASSUME NEW p \in PoolIds, CreateAnswerLost(p)
       PROVE  TypeOK'
  <2>1. pools' \in [PoolIds -> Pools]
    BY <1>17, PoolsExcept, NewPoolType, EmptyTypes
       DEF CreateAnswerLost, TypeOK
  <2>2. QED
    BY <1>17, <2>1, BoundsType, FailsType
       DEF CreateAnswerLost, AnswerLost, TypeOK, request, Errors
<1>18. ASSUME NEW err \in Errors, CreateFails(err)
       PROVE  TypeOK'
  BY <1>18, BoundsType, FailsType
     DEF CreateFails, Outage, TypeOK, request
<1>19. ASSUME TagOk
       PROVE  TypeOK'
  <2>1. pools' \in [PoolIds -> Pools]
    BY <1>19, LiveIds, PoolParts, PoolsExcept, ServiceTagsType
       DEF TagOk, TypeOK
  <2>2. pc' \in Locations /\ latest' \in Resources
    BY <1>19, AfterTagsType DEF TagOk, TypeOK, Locations
  <2>3. QED
    BY <1>19, <2>1, <2>2, BoundsType DEF TagOk, TypeOK, request
<1>20. ASSUME TagAnswerLost
       PROVE  TypeOK'
  <2>1. pools' \in [PoolIds -> Pools]
    BY <1>20, LiveIds, PoolParts, PoolsExcept, ServiceTagsType
       DEF TagAnswerLost, TypeOK
  <2>2. lost' \subseteq PoolIds
    BY <1>20 DEF TagAnswerLost, SyncTagsFails, InHandId, TypeOK
  <2>3. pc' \in Locations /\ latest' \in Resources /\ outcome' \in Outcomes
    BY <1>20, FailsType DEF TagAnswerLost, SyncTagsFails, TypeOK, Errors
  <2>4. QED
    BY <1>20, <2>1, <2>2, <2>3, BoundsType
       DEF TagAnswerLost, AnswerLost, TypeOK, request
<1>21. ASSUME NEW err \in Errors, TagFails(err)
       PROVE  TypeOK'
  <2>1. lost' \subseteq PoolIds
    BY <1>21 DEF TagFails, SyncTagsFails, InHandId, TypeOK
  <2>2. pc' \in Locations /\ latest' \in Resources /\ outcome' \in Outcomes
    BY <1>21, FailsType DEF TagFails, SyncTagsFails, TypeOK
  <2>3. QED
    BY <1>21, <2>1, <2>2, BoundsType
       DEF TagFails, Outage, NotThere, TypeOK, request
<1>22. ASSUME UntagOk
       PROVE  TypeOK'
  <2>1. pools' \in [PoolIds -> Pools]
    BY <1>22, LiveIds, PoolParts, PoolsExcept, ServiceTagsType
       DEF UntagOk, TypeOK
  <2>2. pc' \in Locations /\ latest' \in Resources
    BY <1>22, AfterTagsType DEF UntagOk, TypeOK
  <2>3. QED
    BY <1>22, <2>1, <2>2, BoundsType DEF UntagOk, TypeOK, request
<1>23. ASSUME NEW err \in Errors, UntagFails(err)
       PROVE  TypeOK'
  <2>1. lost' \subseteq PoolIds
    BY <1>23 DEF UntagFails, SyncTagsFails, InHandId, TypeOK
  <2>2. pc' \in Locations /\ latest' \in Resources /\ outcome' \in Outcomes
    BY <1>23, FailsType DEF UntagFails, SyncTagsFails, TypeOK
  <2>3. QED
    BY <1>23, <2>1, <2>2, BoundsType
       DEF UntagFails, Outage, NotThere, TypeOK, request
<1>24. ASSUME UpdateRefused
       PROVE  TypeOK'
  BY <1>24, BoundsType, FailsType DEF UpdateRefused, TypeOK, request, Errors
<1>25. ASSUME NEW resets \in BOOLEAN, UpdateOk(resets)
       PROVE  TypeOK'
  <2>1. pools' \in [PoolIds -> Pools]
    BY <1>25, LiveIds, PoolParts, PoolsExcept, UpdatedPoolType, EmptyTypes
       DEF UpdateOk, TypeOK
  <2>2. pc' \in Locations /\ latest' \in Resources
    BY <1>25, OnSuccessType DEF UpdateOk, Succeeds, TypeOK, Locations
  <2>3. QED
    BY <1>25, <2>1, <2>2, BoundsType DEF UpdateOk, TypeOK, request
<1>26. ASSUME NEW resets \in BOOLEAN, UpdateAnswerLost(resets)
       PROVE  TypeOK'
  <2>1. pools' \in [PoolIds -> Pools]
    BY <1>26, LiveIds, PoolParts, PoolsExcept, UpdatedPoolType, EmptyTypes
       DEF UpdateAnswerLost, TypeOK
  <2>2. QED
    BY <1>26, <2>1, BoundsType, FailsType
       DEF UpdateAnswerLost, AnswerLost, TypeOK, request, Errors
<1>27. ASSUME NEW err \in Errors, UpdateFails(err)
       PROVE  TypeOK'
  BY <1>27, BoundsType, FailsType
     DEF UpdateFails, Outage, NotThere, TypeOK, request
<1>28. ASSUME PatchSpec
       PROVE  TypeOK'
  <2> DEFINE c == Merged(cr.res.cfg, desired.cfg, latest.cfg)
             t == Merged(cr.res.tags, FilterSystemTags(desired.tags),
                         FilterSystemTags(latest.tags))
             u == Merged(cr.res.userPoolTags, desired.userPoolTags,
                         latest.userPoolTags)
  <2>1. /\ cr.res \in Resources /\ desired \in Resources
        /\ latest \in Resources
    BY CRParts DEF TypeOK
  <2>2. c \in Configs
    BY <2>1, ResourceParts, MergedType DEF Configs
  <2>3. u \in TagMaps
    BY <2>1, ResourceParts, MergedType DEF TagMaps
  <2>4. t \in SpecTagMaps
    BY <2>1, ResourceParts, MergedType, FilterSystemTagsType, EmptyTypes
       DEF SpecTagMaps
  <2>5. cr' = [cr EXCEPT !.res = [cr.res EXCEPT !.cfg = c, !.tags = t,
                                                !.userPoolTags = u]]
    BY <1>28 DEF PatchSpec, TypeOK, CRs
  <2> HIDE DEF c, t, u
  <2>6. [cr.res EXCEPT !.cfg = c, !.tags = t, !.userPoolTags = u]
          \in Resources
    BY <2>1, <2>2, <2>3, <2>4, ResourceParts, ResourceExcept
  <2>7. cr' \in CRs
    BY <2>5, <2>6, CRExcept
  <2>8. QED
    BY <1>28, <2>7, BoundsType
       DEF PatchSpec, inHand, TypeOK, request, Locations
<1>29. ASSUME PatchSpecFails
       PROVE  TypeOK'
  BY <1>29, BoundsType DEF PatchSpecFails, TypeOK, request, inHand, Locations
<1>30. ASSUME PatchStatus
       PROVE  TypeOK'
  <2> DEFINE i == IF latest.id = desired.id THEN cr.res.id ELSE latest.id
  <2>1. /\ cr.res \in Resources /\ latest \in Resources
        /\ i \in Ids /\ latest.conds \in ConditionSets
    BY CRParts, ResourceParts DEF TypeOK
  <2>2. cr.present => cr' = [cr EXCEPT !.res = [cr.res EXCEPT
                               !.id = i, !.conds = latest.conds]]
    BY <1>30 DEF PatchStatus, TypeOK, CRs
  <2> HIDE DEF i
  <2>3. [cr.res EXCEPT !.id = i, !.conds = latest.conds] \in Resources
    BY <2>1, ResourceParts, ResourceExcept
  <2>4. cr' \in CRs /\ reported' \in Outcomes
    BY <1>30, <2>2, <2>3, CRExcept DEF PatchStatus, TypeOK
  <2>5. QED
    BY <1>30, <2>4, BoundsType, CRParts, IdleType
       DEF PatchStatus, PassIsOver, TypeOK
<1>31. ASSUME PatchStatusFails
       PROVE  TypeOK'
  <2>1. lost' \subseteq PoolIds
    BY <1>31 DEF PatchStatusFails, InHandId, TypeOK
  <2>2. QED
    BY <1>31, <2>1, BoundsType, CRParts, IdleType
       DEF PatchStatusFails, PassIsOver, TypeOK
<1>32. ASSUME DeleteOk
       PROVE  TypeOK'
  BY <1>32, BoundsType, PoolsExcept, EmptyTypes, LiveIds
     DEF DeleteOk, TypeOK, request, inHand, Locations
<1>33. ASSUME DeleteAnswerLost
       PROVE  TypeOK'
  BY <1>33, BoundsType, PoolsExcept, EmptyTypes, LiveIds, FailsType
     DEF DeleteAnswerLost, AnswerLost, TypeOK, request, Errors
<1>34. ASSUME NEW err \in Errors, DeleteFails(err)
       PROVE  TypeOK'
  BY <1>34, BoundsType, FailsType
     DEF DeleteFails, Outage, NotThere, TypeOK, request
<1>35. ASSUME Unmanage
       PROVE  TypeOK'
  BY <1>35, BoundsType, IdleType, EmptyTypes DEF Unmanage, TypeOK, Outcomes
<1>36. ASSUME UnmanageFails
       PROVE  TypeOK'
  BY <1>36, BoundsType, IdleType DEF UnmanageFails, TypeOK
<1>37. CASE UNCHANGED vars
  BY <1>37 DEF vars, inHand, request, aux, TypeOK
<1>38. QED
  BY <1>1, <1>2, <1>3, <1>4, <1>5, <1>6, <1>7, <1>8, <1>9, <1>10, <1>11,
     <1>12, <1>13, <1>14, <1>15, <1>16, <1>17, <1>18, <1>19, <1>20, <1>21,
     <1>22, <1>23, <1>24, <1>25, <1>26, <1>27, <1>28, <1>29, <1>30, <1>31,
     <1>32, <1>33, <1>34, <1>35, <1>36, <1>37
     DEF Next, User, Service, Controller, ReadOne, Create, Update, Patch,
         Delete, Stopped

\* The first state is well typed.
LEMMA TypeAtFirst ==
  ASSUME Init
  PROVE  TypeOK
<1>1. pools \in [PoolIds -> Pools]
  BY EmptyTypes DEF Init
<1>2. 0 \in 0..MaxFaults /\ 0 \in 0..MaxEdits
  BY ReconcileAssumption
<1>3. QED
  BY <1>1, <1>2, EmptyTypes DEF Init, TypeOK, Locations, Outcomes

\* The reconciliation is well typed.
THEOREM ReconcileTypeCorrect == Spec => []TypeOK
BY TypeAtFirst, TypeKept, PTL DEF Spec

-----------------------------------------------------------------------------
(* Which id a resource has, and which state a pool has, after a step       *)

LEMMA AnswerIds ==
  ASSUME NEW res \in Resources
  PROVE  /\ \A err \in Errors : OnError(res, err).id = res.id
         /\ OnSuccess(res).id = res.id
BY OnErrorType, OnSuccessType

LEMMA ExceptIds ==
  ASSUME NEW res \in Resources, NEW i, NEW c, NEW t, NEW u, NEW s
  PROVE  /\ [res EXCEPT !.id = i, !.conds = s].id = i
         /\ [res EXCEPT !.tags = t].id = res.id
         /\ [res EXCEPT !.tags = t, !.conds = s].id = res.id
         /\ [res EXCEPT !.cfg = c, !.userPoolTags = u].id = res.id
         /\ [res EXCEPT !.cfg = c, !.tags = t, !.userPoolTags = u].id = res.id
         /\ [res EXCEPT !.id = i, !.cfg = c, !.userPoolTags = u].id = i
BY DEF Resources

LEMMA CRFields ==
  ASSUME TypeOK, NEW x
  PROVE  /\ [cr EXCEPT !.deleting = x].present = cr.present
         /\ [cr EXCEPT !.deleting = x].deleting = x
         /\ [cr EXCEPT !.deleting = x].managed = cr.managed
         /\ [cr EXCEPT !.deleting = x].res = cr.res
         /\ [cr EXCEPT !.managed = x].present = cr.present
         /\ [cr EXCEPT !.managed = x].deleting = cr.deleting
         /\ [cr EXCEPT !.managed = x].managed = x
         /\ [cr EXCEPT !.managed = x].res = cr.res
         /\ [cr EXCEPT !.res = x].present = cr.present
         /\ [cr EXCEPT !.res = x].deleting = cr.deleting
         /\ [cr EXCEPT !.res = x].managed = cr.managed
         /\ [cr EXCEPT !.res = x].res = x
BY DEF TypeOK, CRs

LEMMA SpecWritten ==
  ASSUME TypeOK, NEW c, NEW t, NEW u,
         cr' = [cr EXCEPT !.res = [cr.res EXCEPT !.cfg = c, !.tags = t,
                                                 !.userPoolTags = u]]
  PROVE  /\ cr'.present = cr.present /\ cr'.managed = cr.managed
         /\ cr'.deleting = cr.deleting /\ cr'.res.id = cr.res.id
<1> DEFINE r == [cr.res EXCEPT !.cfg = c, !.tags = t, !.userPoolTags = u]
<1>1. r.id = cr.res.id
  BY CRParts, ExceptIds
<1>2. cr' = [cr EXCEPT !.res = r]
  OBVIOUS
<1> HIDE DEF r
<1>3. QED
  BY <1>1, <1>2 DEF TypeOK, CRs

LEMMA StatusWritten ==
  ASSUME TypeOK, NEW i, NEW s,
         cr' = [cr EXCEPT !.res = [cr.res EXCEPT !.id = i, !.conds = s]]
  PROVE  /\ cr'.present = cr.present /\ cr'.managed = cr.managed
         /\ cr'.deleting = cr.deleting /\ cr'.res.id = i
<1> DEFINE r == [cr.res EXCEPT !.id = i, !.conds = s]
<1>1. r.id = i
  BY CRParts, ExceptIds
<1>2. cr' = [cr EXCEPT !.res = r]
  OBVIOUS
<1> HIDE DEF r
<1>3. QED
  BY <1>1, <1>2 DEF TypeOK, CRs

LEMMA EmptyCR ==
  ~NoCR.present /\ ~NoCR.deleting /\ ~NoCR.managed /\ NoCR.res.id = NoPool
BY DEF NoCR, NoResource

LEMMA NewPoolLives ==
  ASSUME TypeOK, NEW p \in PoolIds, NEW q \in PoolIds
  PROVE  [pools EXCEPT ![p] = NewPool(desired)][q].state
           = IF q = p THEN "live" ELSE pools[q].state
BY NewPoolType DEF TypeOK

LEMMA UpdateKeepsStates ==
  ASSUME TypeOK, NEW p \in PoolIds, NEW q \in PoolIds, NEW r \in BOOLEAN
  PROVE  [pools EXCEPT ![p] = UpdatedPool(@, desired, r)][q].state
           = pools[q].state
<1>1. pools \in [PoolIds -> Pools] /\ desired \in Resources
  BY DEF TypeOK
<1>2. UpdatedPool(pools[p], desired, r).state = pools[p].state
  BY <1>1, UpdatedPoolType, PoolParts
<1>3. QED
  BY <1>1, <1>2

LEMMA GonePools ==
  ASSUME TypeOK, NEW p \in PoolIds, NEW q \in PoolIds
  PROVE  [pools EXCEPT ![p] = PoolGone][q].state
           = IF q = p THEN "gone" ELSE pools[q].state
BY DEF TypeOK, PoolGone, NoPoolYet

LEMMA TagsKeepStates ==
  ASSUME TypeOK, NEW p \in PoolIds, NEW t, NEW q \in PoolIds
  PROVE  [pools EXCEPT ![p].tags = t][q].state = pools[q].state
<1>1. [pools[p] EXCEPT !.tags = t].state = pools[p].state
  BY PoolParts DEF Pools
<1>2. QED
  BY <1>1 DEF TypeOK

\* A pool is used once: from unused to live to gone.  A pool that comes to
\* life without the pass knowing is among the lost ones.
PoolsAge ==
  \A q \in PoolIds :
    /\ pools'[q].state = "live" => pools[q].state = "live" \/ q \in lost'
    /\ pools[q].state # "unused" => pools'[q].state # "unused"
    /\ pools[q].state = "gone" => pools'[q].state = "gone"

LEMMA PoolStates ==
  ASSUME TypeOK, NEW q \in PoolIds
  PROVE  pools[q].state \in {"unused", "live", "gone"}
BY PoolParts DEF Pools

LEMMA SameStatesAge ==
  ASSUME \A q \in PoolIds : pools'[q].state = pools[q].state
  PROVE  PoolsAge
BY DEF PoolsAge

\* A pool of the CR that was not live stays so.
LEMMA DeadStaysDead ==
  ASSUME TypeOK, PassInvariant, PoolsAge, pc # "idle",
         desired'.id = desired.id, ~Live(desired.id)
  PROVE  ~Live(desired.id)'
BY PoolStates, ReconcileAssumption
   DEF PassInvariant, CRShape, CopyStillGood, Live, PoolsAge

-----------------------------------------------------------------------------
(* The kinds of steps                                                      *)

LEMMA UserMoves ==
  ASSUME TypeOK, PassInvariant, UNCHANGED <<pools, pc, inHand, lost>>,
         cr'.res.id = cr.res.id, CRShape',
         cr.managed => cr'.managed, cr.deleting => cr'.deleting
  PROVE  PassInvariant'
BY DEF PassInvariant, CopyStillGood, LocationTells, NoPoolForgotten, Carried,
       InHandId, Live, inHand

LEMMA ServiceMoves ==
  ASSUME TypeOK, PassInvariant, UNCHANGED <<cr, pc, inHand, lost>>, PoolsAge
  PROVE  PassInvariant'
<1>1. pc # "idle" /\ ~Live(desired.id) => ~Live(desired.id)'
  BY DeadStaysDead DEF inHand
<1>2. CRShape'
  BY ReconcileAssumption, CRParts, ResourceParts
     DEF PassInvariant, CRShape, PoolsAge, Ids
<1>3. CopyStillGood'
  BY DEF PassInvariant, CopyStillGood, inHand
<1>4. LocationTells'
  BY <1>1, ResourceParts
     DEF PassInvariant, LocationTells, PoolsAge, inHand, Ids, TypeOK
<1>5. NoPoolForgotten'
  BY DEF PassInvariant, NoPoolForgotten, Carried, InHandId, Live, PoolsAge,
         inHand
<1>6. QED
  BY <1>2, <1>3, <1>4, <1>5 DEF PassInvariant

LEMMA PassGoesOn ==
  ASSUME TypeOK, PassInvariant, PoolsAge, pc # "idle",
         UNCHANGED <<cr, mode, managed>>, desired'.id = desired.id,
         lost \subseteq lost', LocationTells',
         \A q \in Carried : Live(q)' => q \in Carried' \union lost'
  PROVE  PassInvariant'
<1>1. CRShape'
  BY ReconcileAssumption, CRParts, ResourceParts
     DEF PassInvariant, CRShape, PoolsAge, Ids
<1>2. CopyStillGood'
  BY DEF PassInvariant, CopyStillGood
<1>3. NoPoolForgotten'
  BY DEF PassInvariant, NoPoolForgotten, Live, PoolsAge
<1>4. QED
  BY <1>1, <1>2, <1>3 DEF PassInvariant

LEMMA PassFails ==
  ASSUME TypeOK, PassInvariant, PoolsAge, pc # "idle",
         NEW res \in Resources, NEW err \in Errors, Fails(res, err),
         UNCHANGED <<cr, mode, managed, desired>>, lost \subseteq lost',
         \/ res.id = desired.id /\ Carried \subseteq lost'
         \/ res.id = latest.id /\ pc \in {"tag", "untag", "update", "delete"}
  PROVE  PassInvariant'
<1>1. latest'.id = res.id /\ pc' = "status"
  BY AnswerIds DEF Fails
<1>2. LocationTells'
  <2>1. CASE res.id = desired.id
    BY <1>1, <2>1 DEF LocationTells
  <2>2. CASE res.id = latest.id /\ latest.id # desired.id
             /\ pc \in {"tag", "untag", "update", "delete"}
    BY <1>1, <2>2, DeadStaysDead, ResourceParts
       DEF LocationTells, PassInvariant, PoolsAge, TypeOK, Ids
  <2>3. QED
    BY <2>1, <2>2
<1>3. \A q \in Carried : Live(q)' => q \in Carried' \union lost'
  BY <1>1 DEF Carried, InHandId, Live
<1>4. QED
  BY <1>2, <1>3, PassGoesOn

LEMMA PassEnds ==
  ASSUME TypeOK, PassInvariant, Idle, UNCHANGED <<cr, pools>>,
         lost \subseteq lost', Carried \subseteq lost'
  PROVE  PassInvariant'
BY DEF PassInvariant, CRShape, CopyStillGood, LocationTells, NoPoolForgotten,
       Carried, InHandId, Live, Idle

\* SyncTags goes on with a resource of one id.
LEMMA SyncTagsIds ==
  ASSUME NEW then \in {"created", "update", "done"},
         NEW wanted \in Resources, NEW held \in Resources,
         AfterTags(then, wanted, held)
  PROVE  /\ then = "update" => pc' = "update" /\ latest'.id = held.id
         /\ then = "created" => pc' = "patch" /\ latest'.id = held.id
         /\ then = "done" => pc' = "patch" /\ latest'.id = wanted.id
BY AnswerIds DEF AfterTags, Succeeds

-----------------------------------------------------------------------------

\* What the worker knows of the CR and of its pool stays true whatever moves
\* between two calls, and no pool is forgotten.
THEOREM ReconcileInvariant == Spec => []PassInvariant
<1>1. Init => PassInvariant
  BY ReconcileAssumption
     DEF Init, PassInvariant, CRShape, CopyStillGood, LocationTells,
         NoPoolForgotten, Carried, InHandId, Live, NoCR, NoResource, NoPoolYet
<1>2. TypeOK /\ PassInvariant /\ [Next]_vars => PassInvariant'
  <2> SUFFICES ASSUME TypeOK, PassInvariant, [Next]_vars
               PROVE  PassInvariant'
    OBVIOUS
  <2>1. ASSUME NEW spec \in UserSpecs, UserCreates(spec)
        PROVE  PassInvariant'
    <3>1. cr'.res.id = NoPool /\ cr.res.id = NoPool
          /\ ~cr.managed /\ ~cr.deleting /\ ~cr'.managed /\ ~cr'.deleting
      BY <2>1, CRParts DEF UserCreates, NewCR, PassInvariant, CRShape
    <3>2. QED
      BY <2>1, <3>1, UserMoves DEF UserCreates, CRShape
  <2>2. ASSUME NEW spec \in UserSpecs, UserEdits(spec)
        PROVE  PassInvariant'
    <3>1. cr' = [cr EXCEPT !.res =
                     [cr.res EXCEPT !.cfg = spec.cfg, !.tags = spec.tags,
                                    !.userPoolTags = spec.userPoolTags]]
      BY <2>2 DEF UserEdits, TypeOK, CRs
    <3>2. /\ cr'.present = cr.present /\ cr'.managed = cr.managed
          /\ cr'.deleting = cr.deleting /\ cr'.res.id = cr.res.id
      BY <3>1, SpecWritten
    <3>3. CRShape'
      BY <2>2, <3>2 DEF UserEdits, CRShape, PassInvariant
    <3>4. QED
      BY <2>2, <3>2, <3>3, UserMoves DEF UserEdits
  <2>3. ASSUME UserDeletes
        PROVE  PassInvariant'
    <3>1. cr.managed \/ (~cr.deleting /\ cr.res.id = NoPool)
      BY CRParts DEF PassInvariant, CRShape
    <3>2. CRShape'
      BY <2>3, <3>1, CRFields, EmptyCR DEF UserDeletes, CRShape, PassInvariant
    <3>3. QED
      BY <2>3, <3>1, <3>2, UserMoves, CRFields, EmptyCR DEF UserDeletes
  <2>4. ASSUME NEW p \in PoolIds, PoolRemoved(p)
        PROVE  PassInvariant'
    <3>1. PoolsAge
      BY <2>4, GonePools DEF PoolRemoved, PoolsAge, Live
    <3>2. QED
      BY <2>4, <3>1, ServiceMoves DEF PoolRemoved
  <2>5. ASSUME NEW p \in PoolIds, NEW k \in Keys,
               NEW v \in Vals \union {Absent}, TagDrifts(p, k, v)
        PROVE  PassInvariant'
    <3>1. pools' = [pools EXCEPT ![p].tags =
                        [pools[p].tags EXCEPT ![k] = v]]
      BY <2>5 DEF TagDrifts
    <3>2. PoolsAge
      BY <3>1, TagsKeepStates, SameStatesAge
    <3>3. QED
      BY <2>5, <3>2, ServiceMoves DEF TagDrifts
  <2>6. ASSUME Crash
        PROVE  PassInvariant'
    BY <2>6, PassEnds DEF Crash, Carried
  <2>7. ASSUME Start
        PROVE  PassInvariant'
    <3>1. desired'.id = cr.res.id
      BY <2>7, CRParts, ExceptIds DEF Start
    <3>2. CopyStillGood'
      BY <2>7, <3>1 DEF Start, CopyStillGood
    <3>3. CRShape' /\ LocationTells'
      BY <2>7 DEF Start, PassInvariant, CRShape, LocationTells
    <3>4. NoPoolForgotten'
      BY <2>7 DEF Start, PassInvariant, NoPoolForgotten, Carried, Live
    <3>5. QED
      BY <3>2, <3>3, <3>4 DEF PassInvariant
  <2>8. ASSUME DescribeNotFound
        PROVE  PassInvariant'
    <3>1. PoolsAge
      BY <2>8 DEF DescribeNotFound, PoolsAge
    <3>2. mode \in {"sync", "delete"}
      BY DEF TypeOK
    <3>3. LocationTells'
      BY <2>8, <3>2
         DEF DescribeNotFound, PassInvariant, LocationTells, CopyStillGood,
             Live, inHand
    <3>4. QED
      BY <2>8, <3>1, <3>3, PassGoesOn DEF DescribeNotFound, Carried, inHand
  <2>9. ASSUME DescribeFound
        PROVE  PassInvariant'
    <3>1. PoolsAge
      BY <2>9 DEF DescribeFound, PoolsAge
    <3>2. latest'.id = desired.id
      BY <2>9, ExceptIds DEF DescribeFound, TypeOK
    <3>3. LocationTells'
      BY <2>9, <3>2, ReconcileAssumption
         DEF DescribeFound, LocationTells, Live
    <3>4. QED
      BY <2>9, <3>1, <3>3, PassGoesOn DEF DescribeFound, Carried
  <2>10. ASSUME NEW err \in Errors, DescribeFails(err)
         PROVE  PassInvariant'
    <3>1. PoolsAge
      BY <2>10 DEF DescribeFails, PoolsAge
    <3>2. QED
      BY <2>10, <3>1, PassFails DEF DescribeFails, Carried, TypeOK, Errors
  <2>11. ASSUME ListTagsOk
         PROVE  PassInvariant'
    <3>1. desired.id \in PoolIds /\ latest.id = desired.id
      BY <2>11, LiveIds DEF ListTagsOk, PassInvariant, LocationTells
    <3>2. /\ Observed \in Resources /\ Observed.id = desired.id
          /\ Mirrored \in Resources /\ Mirrored.id = desired.id
      BY <2>11, <3>1, ReadType DEF ListTagsOk
    <3>3. /\ desired' = Mirrored
          /\ \/ pc' = "delete" /\ latest' = Observed /\ mode = "delete"
             \/ SyncTags(Mirrored, Observed.tags, WhatFollows, Observed)
             \/ latest' = Observed /\ pc' \in {"update", "status"}
      BY <2>11 DEF ListTagsOk
    <3>4. WhatFollows \in {"update", "done"}
      BY DEF WhatFollows
    <3>5. /\ latest'.id = desired.id
          /\ \/ pc' \in {"tag", "untag", "patch", "status", "update"}
             \/ pc' = "delete" /\ mode = "delete"
      <4>1. CASE SyncTags(Mirrored, Observed.tags, WhatFollows, Observed)
        <5>1. \/ AfterTags(WhatFollows, Mirrored, Observed)
              \/ pc' \in {"tag", "untag"} /\ latest' = Observed
          BY <4>1 DEF SyncTags
        <5>2. QED
          BY <5>1, <3>2, <3>4, SyncTagsIds
      <4>2. QED
        BY <4>1, <3>2, <3>3
    <3>6. PoolsAge /\ UNCHANGED <<cr, pools, mode, managed, lost>>
      BY <2>11 DEF ListTagsOk, PoolsAge
    <3>7. LocationTells'
      BY <3>1, <3>2, <3>3, <3>5, <3>6, <2>11, ReconcileAssumption
         DEF ListTagsOk, PassInvariant, LocationTells, CRShape, CopyStillGood
    <3>8. QED
      BY <2>11, <3>2, <3>3, <3>6, <3>7, PassGoesOn DEF ListTagsOk, Carried
  <2>12. ASSUME NEW err \in Errors, ListTagsFails(err)
         PROVE  PassInvariant'
    <3>1. PoolsAge
      BY <2>12 DEF ListTagsFails, PoolsAge
    <3>2. QED
      BY <2>12, <3>1, PassFails DEF ListTagsFails, Carried, TypeOK, Errors
  <2>13. ASSUME Manage
         PROVE  PassInvariant'
    <3>1. /\ cr'.present = cr.present /\ cr'.managed
          /\ cr'.deleting = cr.deleting /\ cr'.res = cr.res
      BY <2>13, CRFields DEF Manage
    <3>2. CRShape' /\ CopyStillGood'
      BY <2>13, <3>1 DEF Manage, PassInvariant, CRShape, CopyStillGood
    <3>3. LocationTells'
      BY <2>13 DEF Manage, PassInvariant, LocationTells, Live
    <3>4. NoPoolForgotten'
      BY <2>13, <3>1 DEF Manage, PassInvariant, NoPoolForgotten, Carried, Live
    <3>5. QED
      BY <3>2, <3>3, <3>4 DEF PassInvariant
  <2>14. ASSUME ManageFails
         PROVE  PassInvariant'
    BY <2>14, PassEnds DEF ManageFails, Carried
  <2>15. ASSUME CreateRefused
         PROVE  PassInvariant'
    <3>1. PoolsAge
      BY <2>15 DEF CreateRefused, PoolsAge
    <3>2. QED
      BY <2>15, <3>1, PassFails DEF CreateRefused, Carried, TypeOK, Errors
  <2>16. ASSUME NEW p \in PoolIds, CreateOk(p)
         PROVE  PassInvariant'
    <3>1. Created(p) \in Resources /\ Created(p).id = p
      BY CreatedType
    <3>2. /\ pc = "create" /\ pools[p].state = "unused"
          /\ SyncTags(desired, Created(p).tags, "created", Created(p))
          /\ next' = "created"
          /\ UNCHANGED <<cr, mode, managed, desired, lost>>
      BY <2>16 DEF CreateOk, SyncTags
    <3>3. latest'.id = p /\ pc' \in {"tag", "untag", "patch"}
      <4>1. \/ AfterTags("created", desired, Created(p))
            \/ pc' \in {"tag", "untag"} /\ latest' = Created(p)
        BY <3>2 DEF SyncTags
      <4>2. QED
        BY <4>1, <3>1, SyncTagsIds DEF TypeOK
    <3>4. \A q \in PoolIds :
            pools'[q].state = IF q = p THEN "live" ELSE pools[q].state
      BY <2>16, NewPoolLives DEF CreateOk
    <3>5. /\ cr.res.id # p /\ desired.id = cr.res.id /\ cr.managed
          /\ managed /\ ~Live(desired.id)
      BY <3>2, ReconcileAssumption
         DEF PassInvariant, CRShape, CopyStillGood, LocationTells
    <3>6. CRShape'
      BY <3>2, <3>4, <3>5, CRParts, ResourceParts
         DEF PassInvariant, CRShape, Ids
    <3>7. CopyStillGood'
      BY <3>2, <3>3 DEF PassInvariant, CopyStillGood
    <3>8. LocationTells'
      BY <3>2, <3>3, <3>4, <3>5, ReconcileAssumption
         DEF LocationTells, Live
    <3>9. NoPoolForgotten'
      BY <3>2, <3>3, <3>4, <3>5
         DEF PassInvariant, NoPoolForgotten, Carried, InHandId, Live
    <3>10. QED
      BY <3>6, <3>7, <3>8, <3>9 DEF PassInvariant
  <2>17. ASSUME NEW p \in PoolIds, CreateAnswerLost(p)
         PROVE  PassInvariant'
    <3>1. PoolsAge
      BY <2>17, NewPoolLives DEF CreateAnswerLost, PoolsAge
    <3>2. QED
      BY <2>17, <3>1, PassFails DEF CreateAnswerLost, Carried, TypeOK, Errors
  <2>18. ASSUME NEW err \in Errors, CreateFails(err)
         PROVE  PassInvariant'
    <3>1. PoolsAge
      BY <2>18 DEF CreateFails, PoolsAge
    <3>2. QED
      BY <2>18, <3>1, PassFails DEF CreateFails, Carried, TypeOK, Errors
  <2>19. ASSUME TagOk
         PROVE  PassInvariant'
    <3>1. PoolsAge
      BY <2>19, TagsKeepStates, SameStatesAge DEF TagOk, Live
    <3>2. latest'.id = latest.id /\ pc' \in {"untag", "patch", "update"}
          /\ (pc' = "update" => next = "update")
      BY <2>19, SyncTagsIds DEF TagOk, TypeOK, PassInvariant, LocationTells
    <3>3. LocationTells'
      BY <2>19, <3>1, <3>2, DeadStaysDead, LiveIds, ReconcileAssumption
         DEF TagOk, PassInvariant, LocationTells, PoolsAge
    <3>4. QED
      BY <2>19, <3>1, <3>2, <3>3, PassGoesOn
         DEF TagOk, PassInvariant, LocationTells, CopyStillGood, Carried,
             InHandId, Live
  <2>20. ASSUME TagAnswerLost
         PROVE  PassInvariant'
    <3>1. PoolsAge
      BY <2>20, TagsKeepStates, SameStatesAge DEF TagAnswerLost, Live
    <3>2. next = "created" => /\ Fails(desired, "other")
                              /\ Carried \subseteq lost'
      BY <2>20 DEF TagAnswerLost, SyncTagsFails, Carried
    <3>3. next # "created" => Fails(latest, "other")
      BY <2>20 DEF TagAnswerLost, SyncTagsFails
    <3>4. QED
      BY <2>20, <3>1, <3>2, <3>3, PassFails
         DEF TagAnswerLost, SyncTagsFails, TypeOK, Errors
  <2>21. ASSUME NEW err \in Errors, TagFails(err)
         PROVE  PassInvariant'
    <3>1. PoolsAge
      BY <2>21 DEF TagFails, PoolsAge
    <3>2. next = "created" => Fails(desired, err) /\ Carried \subseteq lost'
      BY <2>21 DEF TagFails, SyncTagsFails, Carried
    <3>3. next # "created" => Fails(latest, err)
      BY <2>21 DEF TagFails, SyncTagsFails
    <3>4. QED
      BY <2>21, <3>1, <3>2, <3>3, PassFails
         DEF TagFails, SyncTagsFails, TypeOK
  <2>22. ASSUME UntagOk
         PROVE  PassInvariant'
    <3>1. PoolsAge
      BY <2>22, TagsKeepStates, SameStatesAge DEF UntagOk, Live
    <3>2. latest'.id = latest.id /\ pc' \in {"patch", "update"}
          /\ (pc' = "update" => next = "update")
      BY <2>22, SyncTagsIds DEF UntagOk, TypeOK, PassInvariant, LocationTells
    <3>3. LocationTells'
      BY <2>22, <3>1, <3>2, DeadStaysDead, LiveIds, ReconcileAssumption
         DEF UntagOk, PassInvariant, LocationTells, PoolsAge
    <3>4. QED
      BY <2>22, <3>1, <3>2, <3>3, PassGoesOn
         DEF UntagOk, PassInvariant, LocationTells, CopyStillGood, Carried,
             InHandId, Live
  <2>23. ASSUME NEW err \in Errors, UntagFails(err)
         PROVE  PassInvariant'
    <3>1. PoolsAge
      BY <2>23 DEF UntagFails, PoolsAge
    <3>2. next = "created" => Fails(desired, err) /\ Carried \subseteq lost'
      BY <2>23 DEF UntagFails, SyncTagsFails, Carried
    <3>3. next # "created" => Fails(latest, err)
      BY <2>23 DEF UntagFails, SyncTagsFails
    <3>4. QED
      BY <2>23, <3>1, <3>2, <3>3, PassFails
         DEF UntagFails, SyncTagsFails, TypeOK
  <2>24. ASSUME UpdateRefused
         PROVE  PassInvariant'
    <3>1. PoolsAge
      BY <2>24 DEF UpdateRefused, PoolsAge
    <3>2. QED
      BY <2>24, <3>1, PassFails DEF UpdateRefused, TypeOK, Errors
  <2>25. ASSUME NEW resets \in BOOLEAN, UpdateOk(resets)
         PROVE  PassInvariant'
    <3>1. PoolsAge
      BY <2>25, UpdateKeepsStates, SameStatesAge DEF UpdateOk, Live
    <3>2. latest'.id = desired.id /\ pc' = "patch"
      BY <2>25, AnswerIds DEF UpdateOk, Succeeds, TypeOK
    <3>3. LocationTells'
      BY <2>25, <3>2
         DEF UpdateOk, PassInvariant, LocationTells, CRShape, CopyStillGood
    <3>4. QED
      BY <2>25, <3>1, <3>3, PassGoesOn DEF UpdateOk, Carried
  <2>26. ASSUME NEW resets \in BOOLEAN, UpdateAnswerLost(resets)
         PROVE  PassInvariant'
    <3>1. PoolsAge
      BY <2>26, UpdateKeepsStates, SameStatesAge DEF UpdateAnswerLost, Live
    <3>2. QED
      BY <2>26, <3>1, PassFails DEF UpdateAnswerLost, TypeOK, Errors
  <2>27. ASSUME NEW err \in Errors, UpdateFails(err)
         PROVE  PassInvariant'
    <3>1. PoolsAge
      BY <2>27 DEF UpdateFails, PoolsAge
    <3>2. QED
      BY <2>27, <3>1, PassFails DEF UpdateFails, TypeOK, Errors
  <2>28. ASSUME PatchSpec
         PROVE  PassInvariant'
    <3>1. \E c, t, u :
           cr' = [cr EXCEPT !.res = [cr.res EXCEPT !.cfg = c, !.tags = t,
                                                   !.userPoolTags = u]]
      BY <2>28 DEF PatchSpec, TypeOK, CRs
    <3>2. /\ cr'.present = cr.present /\ cr'.managed = cr.managed
          /\ cr'.deleting = cr.deleting /\ cr'.res.id = cr.res.id
      BY <3>1, SpecWritten
    <3>3. CRShape' /\ CopyStillGood'
      BY <2>28, <3>2
         DEF PatchSpec, PassInvariant, CRShape, CopyStillGood, inHand
    <3>4. LocationTells'
      BY <2>28 DEF PatchSpec, PassInvariant, LocationTells, Live, inHand
    <3>5. NoPoolForgotten'
      BY <2>28, <3>2
         DEF PatchSpec, PassInvariant, NoPoolForgotten, Carried, InHandId,
             Live, inHand
    <3>6. QED
      BY <3>3, <3>4, <3>5 DEF PassInvariant
  <2>29. ASSUME PatchSpecFails
         PROVE  PassInvariant'
    <3>1. PoolsAge
      BY <2>29 DEF PatchSpecFails, PoolsAge
    <3>2. LocationTells'
      BY <2>29 DEF PatchSpecFails, PassInvariant, LocationTells, Live, inHand
    <3>3. QED
      BY <2>29, <3>1, <3>2, PassGoesOn
         DEF PatchSpecFails, Carried, InHandId, Live, inHand
  <2>30. ASSUME PatchStatus
         PROVE  PassInvariant'
    <3>1. CASE ~cr.present
      <4>1. Carried = {}
        BY <2>30, <3>1 DEF PatchStatus, PassInvariant, CRShape, CopyStillGood,
                           LocationTells, Carried, InHandId
      <4>2. QED
        BY <2>30, <3>1, <4>1, PassEnds DEF PatchStatus
    <3>2. CASE cr.present
      <4> DEFINE i == IF latest.id = desired.id THEN cr.res.id ELSE latest.id
      <4>1. cr' = [cr EXCEPT !.res = [cr.res EXCEPT !.id = i,
                                                    !.conds = latest.conds]]
        BY <2>30, <3>2 DEF PatchStatus, TypeOK, CRs
      <4>2. /\ cr'.present = cr.present /\ cr'.managed = cr.managed
            /\ cr'.deleting = cr.deleting /\ cr'.res.id = i
        BY <4>1, StatusWritten
      <4>3. \/ latest.id = desired.id /\ i = cr.res.id
            \/ /\ latest.id # desired.id /\ i = latest.id
               /\ cr.managed /\ ~Live(cr.res.id)
               /\ latest.id # NoPool /\ pools[latest.id].state # "unused"
        BY <2>30 DEF PatchStatus, PassInvariant, CopyStillGood, LocationTells
      <4> HIDE DEF i
      <4>4. CRShape'
        BY <2>30, <4>2, <4>3 DEF PatchStatus, PassInvariant, CRShape
      <4>5. CopyStillGood' /\ LocationTells'
        BY <2>30 DEF PatchStatus, Idle, CopyStillGood, LocationTells
      <4>6. NoPoolForgotten'
        BY <2>30, <4>2, <4>3
           DEF PatchStatus, PassInvariant, CopyStillGood, NoPoolForgotten,
               Carried, InHandId, Live, Idle
      <4>7. QED
        BY <4>4, <4>5, <4>6 DEF PassInvariant
    <3>3. QED
      BY <3>1, <3>2, CRParts
  <2>31. ASSUME PatchStatusFails
         PROVE  PassInvariant'
    BY <2>31, PassEnds DEF PatchStatusFails, Carried
  <2>32. ASSUME DeleteOk
         PROVE  PassInvariant'
    <3>1. PoolsAge
      BY <2>32, GonePools DEF DeleteOk, PoolsAge, Live
    <3>2. ~Live(desired.id)'
      BY <2>32, GonePools
         DEF DeleteOk, PassInvariant, LocationTells, Live, inHand
    <3>3. LocationTells'
      BY <2>32, <3>2 DEF DeleteOk, PassInvariant, LocationTells, inHand
    <3>4. QED
      BY <2>32, <3>1, <3>3, PassGoesOn DEF DeleteOk, Carried, inHand
  <2>33. ASSUME DeleteAnswerLost
         PROVE  PassInvariant'
    <3>1. PoolsAge
      BY <2>33, GonePools DEF DeleteAnswerLost, PoolsAge, Live
    <3>2. QED
      BY <2>33, <3>1, PassFails DEF DeleteAnswerLost, TypeOK, Errors
  <2>34. ASSUME NEW err \in Errors, DeleteFails(err)
         PROVE  PassInvariant'
    <3>1. PoolsAge
      BY <2>34 DEF DeleteFails, PoolsAge
    <3>2. QED
      BY <2>34, <3>1, PassFails DEF DeleteFails, TypeOK, Errors
  <2>35. ASSUME Unmanage
         PROVE  PassInvariant'
    <3>1. ~Live(cr.res.id)
      BY <2>35 DEF Unmanage, PassInvariant, CopyStillGood, LocationTells
    <3>2. CRShape' /\ CopyStillGood' /\ LocationTells'
      BY <2>35, EmptyCR
         DEF Unmanage, Idle, CRShape, CopyStillGood, LocationTells
    <3>3. NoPoolForgotten'
      BY <2>35, <3>1
         DEF Unmanage, PassInvariant, NoPoolForgotten, Carried, Live
    <3>4. QED
      BY <3>2, <3>3 DEF PassInvariant
  <2>36. ASSUME UnmanageFails
         PROVE  PassInvariant'
    BY <2>36, PassEnds DEF UnmanageFails, Carried
  <2>37. CASE UNCHANGED vars
    BY <2>37
       DEF PassInvariant, CRShape, CopyStillGood, LocationTells,
           NoPoolForgotten, Carried, InHandId, Live, vars, inHand
  <2>38. QED
    BY <2>1, <2>2, <2>3, <2>4, <2>5, <2>6, <2>7, <2>8, <2>9, <2>10, <2>11,
       <2>12, <2>13, <2>14, <2>15, <2>16, <2>17, <2>18, <2>19, <2>20, <2>21,
       <2>22, <2>23, <2>24, <2>25, <2>26, <2>27, <2>28, <2>29, <2>30, <2>31,
       <2>32, <2>33, <2>34, <2>35, <2>36, <2>37
       DEF Next, User, Service, Controller, ReadOne, Create, Update, Patch,
           Delete, Stopped
<1>3. QED
  BY <1>1, <1>2, ReconcileTypeCorrect, PTL DEF Spec

\* NoPoolForgotten: every live pool has its id in Status.ID, on its way
\* there, or was taken from there by a fault.
COROLLARY ReconcileForgetsNoPool == Spec => []NoPoolForgotten
<1>1. PassInvariant => NoPoolForgotten
  BY DEF PassInvariant
<1>2. QED
  BY <1>1, ReconcileInvariant, PTL

\* FinalizerHeld: a CR a pool may depend on cannot go away.
COROLLARY ReconcileHoldsFinalizer == Spec => []FinalizerHeld
<1>1. TypeOK /\ PassInvariant => FinalizerHeld
  BY DEF PassInvariant, CRShape, CopyStillGood, LocationTells, FinalizerHeld
<1>2. QED
  BY <1>1, ReconcileInvariant, ReconcileTypeCorrect, PTL

\* DeletesOnlyItsOwn: only the pool of a CR being deleted is deleted, and
\* only then is the finalizer dropped.
COROLLARY ReconcileDeletesOnlyItsOwn == Spec => []DeletesOnlyItsOwn
<1>1. PassInvariant => DeletesOnlyItsOwn
  BY DEF PassInvariant, CopyStillGood, LocationTells, DeletesOnlyItsOwn
<1>2. QED
  BY <1>1, ReconcileInvariant, PTL

\* Two pools never live side by side for one CR, unless a fault took the id of
\* one: a new pool is made after the old one has gone, and no pass brings a
\* second one.
OneLives ==
  \A p, q \in PoolIds \ lost : Live(p) /\ Live(q) => p = q

\* OneLives: what NoPoolForgotten and what the worker knows of the CR's pool
\* say together.
COROLLARY ReconcileOneLives == Spec => []OneLives
<1>1. PassInvariant => OneLives
  <2> SUFFICES ASSUME PassInvariant, NEW p \in PoolIds \ lost, Live(p),
                      NEW q \in PoolIds \ lost, Live(q)
               PROVE  p = q
    BY DEF OneLives
  <2>1. p \in {cr.res.id} \union Carried /\ q \in {cr.res.id} \union Carried
    BY DEF PassInvariant, NoPoolForgotten
  <2>2. \A r \in Carried : r = latest.id /\ r # cr.res.id /\ pc # "idle"
    BY DEF Carried, InHandId
  <2>3. Carried # {} => ~Live(cr.res.id)
    BY DEF Carried, InHandId, PassInvariant, LocationTells, CopyStillGood
  <2>4. QED
    BY <2>1, <2>2, <2>3
<1>2. QED
  BY <1>1, ReconcileInvariant, PTL

\* The steps that write the CR, and the ids they leave in it.
LEMMA WhoWritesTheCR ==
  ASSUME TypeOK, [Next]_vars, cr' # cr
  PROVE  \/ \E spec \in UserSpecs : UserCreates(spec) \/ UserEdits(spec)
         \/ UserDeletes \/ Manage \/ PatchSpec \/ PatchStatus \/ Unmanage
<1>1. ~User => \/ Manage \/ PatchSpec \/ PatchStatus \/ Unmanage
  <2>1. ~Service /\ ~Crash /\ ~Stopped /\ ~UNCHANGED vars
    BY DEF Service, PoolRemoved, TagDrifts, Crash, Stopped, vars
  <2>2. ~Start /\ ~ReadOne
    BY DEF Start, ReadOne, DescribeNotFound, DescribeFound, DescribeFails,
           ListTagsOk, ListTagsFails
  <2>3. Create => Manage
    BY DEF Create, ManageFails, CreateRefused, CreateOk, CreateAnswerLost,
           CreateFails
  <2>4. ~Update
    BY DEF Update, TagOk, TagAnswerLost, UntagOk, UpdateRefused, UpdateOk,
           UpdateAnswerLost, TagFails, UntagFails, UpdateFails
  <2>5. Patch => PatchSpec \/ PatchStatus
    BY DEF Patch, PatchSpecFails, PatchStatusFails
  <2>6. Delete => Unmanage
    BY DEF Delete, DeleteOk, DeleteAnswerLost, UnmanageFails, DeleteFails
  <2>7. QED
    BY <2>1, <2>2, <2>3, <2>4, <2>5, <2>6 DEF Next, Controller
<1>2. QED
  BY <1>1 DEF User

\* IdLeavesOnlyDeadPools: there is never a second pool for a CR while the
\* first one lives.
THEOREM ReconcileIdMoves == Spec => IdLeavesOnlyDeadPools
<1>1. ASSUME TypeOK, PassInvariant, [Next]_vars,
             cr.present, cr'.present, cr'.res.id # cr.res.id
      PROVE  ~Live(cr.res.id)
  <2>1. cr' # cr
    BY <1>1
  <2>2. ASSUME NEW spec \in UserSpecs, UserEdits(spec)
        PROVE  FALSE
    <3>1. cr' = [cr EXCEPT !.res =
                   [cr.res EXCEPT !.cfg = spec.cfg, !.tags = spec.tags,
                                  !.userPoolTags = spec.userPoolTags]]
      BY <1>1, <2>2 DEF UserEdits, TypeOK, CRs
    <3>2. QED
      BY <1>1, <3>1, SpecWritten
  <2>3. ~UserDeletes /\ ~Manage /\ ~Unmanage
    BY <1>1, CRFields, EmptyCR DEF UserDeletes, Manage, Unmanage
  <2>4. ASSUME PatchSpec
        PROVE  FALSE
    <3>1. \E c, t, u :
            cr' = [cr EXCEPT !.res = [cr.res EXCEPT !.cfg = c, !.tags = t,
                                                    !.userPoolTags = u]]
      BY <1>1, <2>4 DEF PatchSpec, TypeOK, CRs
    <3>2. QED
      BY <1>1, <3>1, SpecWritten
  <2>5. CASE PatchStatus
    <3> DEFINE i == IF latest.id = desired.id THEN cr.res.id ELSE latest.id
    <3>1. cr' = [cr EXCEPT !.res = [cr.res EXCEPT !.id = i,
                                                  !.conds = latest.conds]]
      BY <1>1, <2>5 DEF PatchStatus, TypeOK, CRs
    <3>2. cr'.res.id = i
      BY <1>1, <3>1, StatusWritten
    <3>3. QED
      BY <1>1, <2>5, <3>2
         DEF PatchStatus, PassInvariant, CopyStillGood, LocationTells
  <2>6. QED
    BY <1>1, <2>1, <2>2, <2>3, <2>4, <2>5, WhoWritesTheCR DEF UserCreates
<1>2. TypeOK /\ PassInvariant /\ [Next]_vars
        => [(cr.present /\ cr'.present /\ cr'.res.id # cr.res.id)
              => ~Live(cr.res.id)]_vars
  BY <1>1
<1>3. QED
  BY <1>2, ReconcileInvariant, ReconcileTypeCorrect, PTL
     DEF Spec, IdLeavesOnlyDeadPools

-----------------------------------------------------------------------------
(* What the worker holds in the middle of a pass                           *)

\* A call fails, or is not made: the pass ends with a status patch.
CallFails(err) ==
  /\ Fails(desired, err) \/ Fails(latest, err)
  /\ \/ pc \in {"listtags", "create", "tag", "untag", "update", "delete"}
     \/ pc = "describe" /\ desired.id # NoPool
  /\ UNCHANGED <<cr, desired>>

\* The steps by what they do to the worker.
LEMMA StepKinds ==
  ASSUME [Next]_vars
  PROVE  \/ UNCHANGED <<pc, inHand>>
         \/ Idle \/ Start \/ Manage
         \/ \E err \in Errors : CallFails(err)
         \/ DescribeNotFound \/ DescribeFound \/ ListTagsOk
         \/ \E p \in PoolIds : CreateOk(p)
         \/ TagOk \/ UntagOk \/ \E r \in BOOLEAN : UpdateOk(r)
         \/ PatchSpec \/ PatchSpecFails \/ DeleteOk
<1>1. CASE User \/ Service \/ Stopped \/ UNCHANGED vars
  BY <1>1 DEF User, UserCreates, UserEdits, UserDeletes, Service,
              PoolRemoved, TagDrifts, Stopped, vars
<1>2. CASE Crash
  BY <1>2 DEF Crash
<1>3. CASE ReadOne
  <2>1. ASSUME NEW err \in Errors, DescribeFails(err) \/ ListTagsFails(err)
        PROVE  CallFails(err)
    BY <2>1 DEF DescribeFails, ListTagsFails, CallFails
  <2>2. QED
    BY <1>3, <2>1 DEF ReadOne
<1>4. CASE Create
  <2>1. ASSUME NEW err \in Errors, CreateFails(err)
        PROVE  CallFails(err)
    BY <2>1 DEF CreateFails, CallFails
  <2>2. CreateRefused => CallFails("int32")
    BY DEF CreateRefused, CallFails
  <2>3. ASSUME NEW p \in PoolIds, CreateAnswerLost(p)
        PROVE  CallFails("other")
    BY <2>3 DEF CreateAnswerLost, CallFails
  <2>4. ManageFails => Idle
    BY DEF ManageFails
  <2>5. QED
    BY <1>4, <2>1, <2>2, <2>3, <2>4 DEF Create, Errors
<1>5. CASE Update
  <2>1. ASSUME NEW err \in Errors,
               TagFails(err) \/ UntagFails(err) \/ UpdateFails(err)
        PROVE  CallFails(err)
    BY <2>1 DEF TagFails, UntagFails, UpdateFails, SyncTagsFails, CallFails
  <2>2. UpdateRefused => CallFails("int32")
    BY DEF UpdateRefused, CallFails
  <2>3. TagAnswerLost => CallFails("other")
    BY DEF TagAnswerLost, SyncTagsFails, CallFails
  <2>4. ASSUME NEW r \in BOOLEAN, UpdateAnswerLost(r)
        PROVE  CallFails("other")
    BY <2>4 DEF UpdateAnswerLost, CallFails
  <2>5. QED
    BY <1>5, <2>1, <2>2, <2>3, <2>4 DEF Update, Errors
<1>6. CASE Patch
  BY <1>6 DEF Patch, PatchStatus, PatchStatusFails
<1>7. CASE Delete
  <2>1. ASSUME NEW err \in Errors, DeleteFails(err)
        PROVE  CallFails(err)
    BY <2>1 DEF DeleteFails, CallFails
  <2>2. DeleteAnswerLost => CallFails("other")
    BY DEF DeleteAnswerLost, CallFails
  <2>3. Unmanage \/ UnmanageFails => Idle
    BY DEF Unmanage, UnmanageFails
  <2>4. QED
    BY <1>7, <2>1, <2>2, <2>3 DEF Delete, Errors
<1>8. QED
  BY <1>1, <1>2, <1>3, <1>4, <1>5, <1>6, <1>7 DEF Next, Controller

\* What ListTagsOk leaves in hand: of the observed tags it deletes no "aws:"
\* one, since they were mirrored.
LEMMA ListTagsHolds ==
  ASSUME TypeOK, ListTagsOk
  PROVE  /\ desired'.userPoolTags = desired.userPoolTags
         /\ pc' \in {"tag", "untag"}
              => next' # "created" /\ del' \cap AwsKeys = {}
         /\ pc' = "patch" => latest' = OnSuccess(desired')
         /\ pc' = "status" => latest' = Observed
         /\ outcome' = outcome /\ UNCHANGED <<cr, pools>>
         /\ pc' \in {"tag", "untag", "patch", "status", "update", "delete"}
<1>1. Live(desired.id) /\ desired' = Mirrored
  BY DEF ListTagsOk
<1>2. Mirrored.userPoolTags = desired.userPoolTags
  BY DEF Mirrored, TypeOK, Resources
<1>3. WhatFollows \in {"update", "done"}
  BY DEF WhatFollows
<1>4. \A k \in AwsKeys \cap KeysOf(Observed.tags) :
        k \in KeysOf(Mirrored.tags)
  <2>1. Mirrored.tags = MirrorAWSTags(desired.tags, Observed.tags)
    <3> DEFINE t == MirrorAWSTags(desired.tags, Observed.tags)
    <3>1. Mirrored = [desired EXCEPT !.tags = t]
      BY DEF Mirrored
    <3> HIDE DEF t
    <3>2. Mirrored.tags = t
      BY <3>1 DEF TypeOK, Resources
    <3>3. QED
      BY <3>2 DEF t
  <2>2. QED
    BY <2>1, TagAssumption
       DEF MirrorAWSTags, SyncAWSTags, ToACKTags, KeysOf, Has
<1>5. ToDelete(Mirrored.tags, Observed.tags) \cap AwsKeys = {}
  BY <1>4 DEF ToDelete
<1>6. CASE SyncTags(Mirrored, Observed.tags, WhatFollows, Observed)
  BY <1>1, <1>2, <1>3, <1>5, <1>6
     DEF SyncTags, AfterTags, Succeeds, ListTagsOk
<1>7. CASE ~SyncTags(Mirrored, Observed.tags, WhatFollows, Observed)
  BY <1>1, <1>2, <1>7 DEF ListTagsOk
<1>8. QED
  BY <1>6, <1>7

\* SyncTags makes no call for a pool that was just created.
LEMMA NothingToSync ==
  ASSUME NEW tags
  PROVE  KeysOf(ToAdd(tags, tags)) = {} /\ ToDelete(tags, tags) = {}
<1>1. \A k \in Keys : ToAdd(tags, tags)[k] = Absent
  BY DEF ToAdd, Has
<1>2. QED
  BY <1>1 DEF KeysOf, ToDelete, Has

\* The call of sdkCreate goes straight to its end.
LEMMA CreateGoesOn ==
  ASSUME TypeOK, NEW p \in PoolIds, CreateOk(p)
  PROVE  pc' = "patch" /\ latest'.id = p
<1>1. Created(p) \in Resources /\ Created(p).id = p
  BY CreatedType
<1>2. Created(p).tags = desired.tags
  BY DEF TypeOK, Created, Resources
<1>3. SyncTags(desired, desired.tags, "created", Created(p))
  BY <1>2 DEF CreateOk
<1>4. /\ add' = ToAdd(desired.tags, desired.tags)
      /\ del' = ToDelete(desired.tags, desired.tags)
  BY <1>3 DEF SyncTags
<1>5. KeysOf(add') = {} /\ del' = {}
  BY <1>4, NothingToSync
<1>6. AfterTags("created", desired, Created(p))
  BY <1>3, <1>5 DEF SyncTags
<1>7. QED
  BY <1>1, <1>6, SyncTagsIds DEF TypeOK

\* What CreateOk leaves in hand: SyncTags compares the desired tags with
\* themselves.
LEMMA CreateHolds ==
  ASSUME TypeOK, NEW p \in PoolIds, CreateOk(p)
  PROVE  /\ UNCHANGED <<cr, desired, outcome>>
         /\ pc' \in {"tag", "untag", "patch"}
         /\ latest'.tags = desired.tags
         /\ latest'.userPoolTags = desired.userPoolTags
         /\ pc' = "patch" => latest' = OnSuccess(Created(p))
         /\ del' = {}
<1>1. /\ Created(p) \in Resources /\ Created(p).tags = desired.tags
      /\ Created(p).userPoolTags = desired.userPoolTags
  <2>1. Created(p).userPoolTags = NewPool(desired).tags
    BY DEF Created, TypeOK, Resources
  <2>2. NewPool(desired).tags = desired.userPoolTags
    BY DEF NewPool
  <2>3. QED
    BY <2>1, <2>2, CreatedType
<1>2. SyncTags(desired, desired.tags, "created", Created(p))
      /\ UNCHANGED <<cr, desired, outcome>>
  BY <1>1 DEF CreateOk
<1>3. \/ pc' \in {"tag", "untag"} /\ latest' = Created(p)
      \/ pc' = "patch" /\ latest' = OnSuccess(Created(p))
  BY <1>2 DEF SyncTags, AfterTags, Succeeds
<1>4. OnSuccess(Created(p)).userPoolTags = Created(p).userPoolTags
      /\ OnSuccess(Created(p)).tags = Created(p).tags
  BY <1>1 DEF OnSuccess, Resources
<1>5. del' = {}
  BY <1>2 DEF SyncTags, ToDelete
<1>6. QED
  BY <1>1, <1>2, <1>3, <1>4, <1>5

\* What TagOk, UntagOk and UpdateOk leave in hand.
LEMMA CallHolds ==
  ASSUME TypeOK, TagOk \/ UntagOk \/ \E r \in BOOLEAN : UpdateOk(r)
  PROVE  /\ UNCHANGED <<cr, desired, outcome, next, del>>
         /\ \/ pc = "tag" /\ pc' = "untag" /\ latest' = latest
            \/ pc' = "update"
            \/ /\ pc' = "patch"
               /\ \/ latest' = OnSuccess(desired)
                  \/ /\ pc \in {"tag", "untag"} /\ next = "created"
                     /\ latest' = OnSuccess(latest)
<1>1. CASE TagOk
  BY <1>1 DEF TagOk, AfterTags, Succeeds, TypeOK
<1>2. CASE UntagOk
  BY <1>2 DEF UntagOk, AfterTags, Succeeds, TypeOK
<1>3. CASE \E r \in BOOLEAN : UpdateOk(r)
  BY <1>3 DEF UpdateOk, Succeeds
<1>4. QED
  BY <1>1, <1>2, <1>3

LEMMA SuccessTags ==
  ASSUME NEW res \in Resources
  PROVE  /\ OnSuccess(res).tags = res.tags
         /\ OnSuccess(res).userPoolTags = res.userPoolTags
BY DEF OnSuccess, Resources

LEMMA AgreeKept ==
  ASSUME TypeOK, TypeOK', TagsAgree, [Next]_vars
  PROVE  TagsAgree'
<1>1. CASE UNCHANGED <<pc, inHand>>
  BY <1>1 DEF TagsAgree, Returned, inHand
<1>2. CASE Idle \/ Start \/ Manage \/ DescribeNotFound \/ DescribeFound
           \/ DeleteOk \/ PatchSpec \/ PatchSpecFails
  BY <1>2 DEF Idle, Start, Manage, DescribeNotFound, DescribeFound, DeleteOk,
              PatchSpec, PatchSpecFails, TagsAgree, Returned
<1>3. CASE \E err \in Errors : CallFails(err)
  BY <1>3 DEF CallFails, Fails, TagsAgree, Returned
<1>4. CASE ListTagsOk
  BY <1>4, ListTagsHolds, SuccessTags DEF TagsAgree, Returned, TypeOK
<1>5. ASSUME NEW p \in PoolIds, CreateOk(p)
      PROVE  TagsAgree'
  BY <1>5, CreateHolds DEF TagsAgree, Returned
<1>6. CASE TagOk \/ UntagOk \/ \E r \in BOOLEAN : UpdateOk(r)
  <2>1. desired \in Resources /\ latest \in Resources
    BY DEF TypeOK
  <2>2. QED
    BY <1>6, <2>1, CallHolds, SuccessTags DEF TagsAgree, Returned
<1>7. QED
  BY <1>1, <1>2, <1>3, <1>4, <1>5, <1>6, StepKinds

\* Both branches of updateConditions, whatever conditions there were.
LEMMA ConditionsTell ==
  ASSUME NEW res \in Resources
  PROVE  /\ \A err \in Errors : Tells(OnError(res, err).conds, err)
         /\ Tells(OnSuccess(res).conds, "none")
<1>1. ASSUME NEW err \in Outcomes
      PROVE  Tells(UpdateConditions(res.conds, err), err)
  BY ResourceParts
     DEF Tells, UpdateConditions, Cleared, TerminalAWSError, ConditionSets,
         ConditionTypes, Statuses, Errors, Outcomes
<1>2. /\ \A err : OnError(res, err).conds = UpdateConditions(res.conds, err)
      /\ OnSuccess(res).conds = UpdateConditions(res.conds, "none")
  BY DEF OnError, OnSuccess, Resources
<1>3. QED
  BY <1>1, <1>2 DEF Outcomes

\* The user cannot take the finalizer from under a pass.
LEMMA FinalizerStays ==
  ASSUME TypeOK, PassInvariant, [Next]_vars, cr.managed, pc' # "idle"
  PROVE  cr'.managed
<1>1. CASE cr' = cr
  BY <1>1
<1>2. CASE cr' # cr
  <2>1. ASSUME NEW spec \in UserSpecs, UserEdits(spec)
        PROVE  cr'.managed
    <3>1. cr' = [cr EXCEPT !.res =
                   [cr.res EXCEPT !.cfg = spec.cfg, !.tags = spec.tags,
                                  !.userPoolTags = spec.userPoolTags]]
      BY <2>1 DEF UserEdits, TypeOK, CRs
    <3>2. QED
      BY <3>1, SpecWritten
  <2>2. ~\E spec \in UserSpecs : UserCreates(spec)
    BY DEF UserCreates, PassInvariant, CRShape
  <2>3. UserDeletes \/ Manage => cr'.managed
    BY CRFields DEF UserDeletes, Manage
  <2>4. ASSUME PatchSpec
        PROVE  cr'.managed
    <3>1. \E c, t, u :
            cr' = [cr EXCEPT !.res = [cr.res EXCEPT !.cfg = c, !.tags = t,
                                                    !.userPoolTags = u]]
      BY <2>4 DEF PatchSpec, TypeOK, CRs
    <3>2. QED
      BY <3>1, SpecWritten
  <2>5. ~PatchStatus /\ ~Unmanage
    BY DEF PatchStatus, Unmanage, Idle
  <2>6. QED
    BY <1>2, <2>1, <2>2, <2>3, <2>4, <2>5, WhoWritesTheCR
<1>3. QED
  BY <1>1, <1>2

LEMMA OutcomeKept ==
  ASSUME TypeOK, PassInvariant, OutcomeTold, [Next]_vars
  PROVE  OutcomeTold'
<1> SUFFICES /\ pc' # "status" => outcome' = "none"
             /\ pc' \in {"patch", "status"} => Tells(latest'.conds, outcome')
             /\ pc' = "status" => cr.managed
  BY FinalizerStays DEF OutcomeTold, Tells
<1>1. CASE UNCHANGED <<pc, inHand>>
  BY <1>1 DEF OutcomeTold, inHand
<1>2. CASE Idle \/ Start \/ Manage \/ DescribeNotFound \/ DescribeFound
           \/ DeleteOk
  BY <1>2 DEF Idle, Start, Manage, DescribeNotFound, DescribeFound, DeleteOk,
              OutcomeTold, inHand
<1>3. CASE PatchSpec \/ PatchSpecFails
  BY <1>3
     DEF PatchSpec, PatchSpecFails, OutcomeTold, inHand, PassInvariant,
         LocationTells
<1>4. ASSUME NEW err \in Errors, CallFails(err)
      PROVE  /\ pc' = "status" /\ Tells(latest'.conds, outcome')
             /\ cr.managed
  <2>1. desired \in Resources /\ latest \in Resources
    BY DEF TypeOK
  <2>2. cr.managed
    BY <1>4 DEF CallFails, PassInvariant, LocationTells, CopyStillGood,
                CRShape
  <2>3. QED
    BY <1>4, <2>1, <2>2, ConditionsTell DEF CallFails, Fails
<1>5. CASE ListTagsOk
  <2>1. cr.managed /\ outcome = "none"
    BY <1>5 DEF ListTagsOk, PassInvariant, LocationTells, CopyStillGood,
                CRShape, OutcomeTold
  <2>2. \E res \in Resources : Observed = OnSuccess(res)
    <3> DEFINE read == [latest EXCEPT !.tags = pools[desired.id].tags]
    <3>1. read \in Resources
      BY <1>5, LiveIds, PoolParts, ResourceExcept, ResourceParts, EmptyTypes
         DEF ListTagsOk, TypeOK
    <3>2. QED
      BY <3>1 DEF Observed
  <2>3. desired' \in Resources
    BY <1>5, ReadType DEF ListTagsOk
  <2>4. QED
    BY <1>5, <2>1, <2>2, <2>3, ListTagsHolds, ConditionsTell
<1>6. ASSUME NEW p \in PoolIds, CreateOk(p)
      PROVE  /\ pc' # "status" /\ outcome' = "none"
             /\ pc' = "patch" => Tells(latest'.conds, outcome')
  BY <1>6, CreateHolds, CreatedType, ConditionsTell DEF CreateOk, OutcomeTold
<1>7. CASE TagOk \/ UntagOk \/ \E r \in BOOLEAN : UpdateOk(r)
  <2>1. desired \in Resources /\ latest \in Resources /\ pc # "status"
    BY <1>7 DEF TypeOK, TagOk, UntagOk, UpdateOk
  <2>2. QED
    BY <1>7, <2>1, CallHolds, ConditionsTell DEF OutcomeTold
<1>8. QED
  BY <1>1, <1>2, <1>3, <1>4, <1>5, <1>6, <1>7, StepKinds

-----------------------------------------------------------------------------
(* What the steps that write the CR put in it                              *)

LEMMA SpecWrittenTags ==
  ASSUME TypeOK, NEW c, NEW t, NEW u,
         cr' = [cr EXCEPT !.res = [cr.res EXCEPT !.cfg = c, !.tags = t,
                                                 !.userPoolTags = u]]
  PROVE  cr'.res.tags = t /\ cr'.res.userPoolTags = u
<1> DEFINE r == [cr.res EXCEPT !.cfg = c, !.tags = t, !.userPoolTags = u]
<1>1. r.tags = t /\ r.userPoolTags = u
  BY CRParts DEF Resources
<1>2. cr' = [cr EXCEPT !.res = r]
  OBVIOUS
<1> HIDE DEF r
<1>3. QED
  BY <1>1, <1>2 DEF TypeOK, CRs

LEMMA StatusWrittenTags ==
  ASSUME TypeOK, NEW i, NEW s,
         cr' = [cr EXCEPT !.res = [cr.res EXCEPT !.id = i, !.conds = s]]
  PROVE  /\ cr'.res.tags = cr.res.tags
         /\ cr'.res.userPoolTags = cr.res.userPoolTags
         /\ cr'.res.conds = s
<1> DEFINE r == [cr.res EXCEPT !.id = i, !.conds = s]
<1>1. /\ r.tags = cr.res.tags /\ r.userPoolTags = cr.res.userPoolTags
      /\ r.conds = s
  BY CRParts DEF Resources
<1>2. cr' = [cr EXCEPT !.res = r]
  OBVIOUS
<1> HIDE DEF r
<1>3. QED
  BY <1>1, <1>2 DEF TypeOK, CRs

\* PatchStatus leaves the tags alone, and writes the conditions.
LEMMA PatchStatusTags ==
  ASSUME TypeOK, PatchStatus, cr.present
  PROVE  /\ cr'.res.tags = cr.res.tags
         /\ cr'.res.userPoolTags = cr.res.userPoolTags
         /\ cr'.res.conds = latest.conds
<1> DEFINE i == IF latest.id = desired.id THEN cr.res.id ELSE latest.id
<1>1. cr' = [cr EXCEPT !.res = [cr.res EXCEPT !.id = i,
                                              !.conds = latest.conds]]
  BY DEF PatchStatus, TypeOK, CRs
<1> HIDE DEF i
<1>2. QED
  BY <1>1, StatusWrittenTags

LEMMA PatchSpecTags ==
  ASSUME TypeOK, PatchSpec
  PROVE  /\ cr'.res.tags = Merged(cr.res.tags, FilterSystemTags(desired.tags),
                                  FilterSystemTags(latest.tags))
         /\ cr'.res.userPoolTags = Merged(cr.res.userPoolTags,
                                          desired.userPoolTags,
                                          latest.userPoolTags)
<1> DEFINE c == Merged(cr.res.cfg, desired.cfg, latest.cfg)
           t == Merged(cr.res.tags, FilterSystemTags(desired.tags),
                       FilterSystemTags(latest.tags))
           u == Merged(cr.res.userPoolTags, desired.userPoolTags,
                       latest.userPoolTags)
<1>1. cr' = [cr EXCEPT !.res = [cr.res EXCEPT !.cfg = c, !.tags = t,
                                              !.userPoolTags = u]]
  BY DEF PatchSpec, TypeOK, CRs
<1> HIDE DEF c, t, u
<1>2. cr'.res.tags = t /\ cr'.res.userPoolTags = u
  BY <1>1, SpecWrittenTags
<1>3. QED
  BY <1>2 DEF t, u

LEMMA UserEditsTags ==
  ASSUME TypeOK, NEW spec, UserEdits(spec)
  PROVE  cr'.res.userPoolTags = spec.userPoolTags
<1>1. cr' = [cr EXCEPT !.res =
               [cr.res EXCEPT !.cfg = spec.cfg, !.tags = spec.tags,
                              !.userPoolTags = spec.userPoolTags]]
  BY DEF UserEdits, TypeOK, CRs
<1>2. QED
  BY <1>1, SpecWrittenTags

-----------------------------------------------------------------------------
(* "aws:" tags                                                             *)

\* The user's UserPoolTags name no "aws:" tag, which the service would refuse.
UserTagsAreOurs == \A spec \in UserSpecs : HasNoAws(spec.userPoolTags)

LEMMA CRStaysSpared ==
  ASSUME TypeOK, UserTagsAreOurs, AwsSpared, [Next]_vars
  PROVE  HasNoAws(cr'.res.userPoolTags)
<1>1. HasNoAws(cr.res.userPoolTags)
  BY DEF AwsSpared
<1>2. ASSUME NEW spec \in UserSpecs, UserCreates(spec)
      PROVE  HasNoAws(cr'.res.userPoolTags)
  <2>1. cr'.res.userPoolTags = spec.userPoolTags
    BY <1>2 DEF UserCreates, NewCR
  <2>2. QED
    BY <2>1 DEF UserTagsAreOurs
<1>3. ASSUME NEW spec \in UserSpecs, UserEdits(spec)
      PROVE  HasNoAws(cr'.res.userPoolTags)
  BY <1>3, UserEditsTags DEF UserTagsAreOurs
<1>4. HasNoAws(NoCR.res.userPoolTags)
  BY TagAssumption DEF NoCR, NoResource, NoTags, HasNoAws
<1>5. CASE UserDeletes \/ Manage \/ Unmanage
  <2>1. \/ cr' = NoCR
        \/ cr' = [cr EXCEPT !.deleting = TRUE]
        \/ cr' = [cr EXCEPT !.managed = TRUE]
    <3>1. CASE UserDeletes
      BY <3>1 DEF UserDeletes
    <3>2. CASE Manage
      BY <3>2 DEF Manage
    <3>3. CASE Unmanage
      BY <3>3 DEF Unmanage
    <3>4. QED
      BY <1>5, <3>1, <3>2, <3>3
  <2>2. /\ [cr EXCEPT !.deleting = TRUE].res = cr.res
        /\ [cr EXCEPT !.managed = TRUE].res = cr.res
    BY DEF TypeOK, CRs
  <2>3. cr' = NoCR \/ cr'.res = cr.res
    BY <2>1, <2>2
  <2>4. QED
    BY <1>1, <1>4, <2>3
<1>6. CASE PatchSpec
  <2>1. HasNoAws(latest.userPoolTags)
    BY <1>6 DEF PatchSpec, AwsSpared, Returned
  <2>2. DOMAIN cr.res.userPoolTags = Keys
    BY CRParts, ResourceParts DEF TagMaps
  <2>3. QED
    BY <1>1, <1>6, <2>1, <2>2, PatchSpecTags, TagAssumption
       DEF Merged, HasNoAws
<1>7. CASE PatchStatus
  BY <1>1, <1>7, PatchStatusTags, CRParts DEF PatchStatus
<1>8. QED
  BY <1>1, <1>2, <1>3, <1>5, <1>6, <1>7, WhoWritesTheCR

LEMMA SparedKept ==
  ASSUME TypeOK, UserTagsAreOurs, AwsSpared, [Next]_vars
  PROVE  AwsSpared'
<1> SUFFICES /\ HasNoAws(desired'.userPoolTags)
             /\ Returned' => HasNoAws(latest'.userPoolTags)
             /\ pc' \in {"tag", "untag"} => del' \cap AwsKeys = {}
  BY CRStaysSpared DEF AwsSpared, HasNoAws
<1>1. CASE UNCHANGED <<pc, inHand>>
  BY <1>1 DEF AwsSpared, Returned, inHand
<1>2. CASE Idle
  BY <1>2, TagAssumption
     DEF Idle, Returned, NoResource, NoTags, HasNoAws
<1>3. CASE Start
  <2>1. desired'.userPoolTags = cr.res.userPoolTags
    BY <1>3, CRParts DEF Start, Resources
  <2>2. QED
    BY <1>3, <2>1 DEF Start, Returned, AwsSpared
<1>4. CASE Manage \/ DescribeNotFound \/ DescribeFound \/ DeleteOk
           \/ PatchSpec \/ PatchSpecFails
  BY <1>4 DEF Manage, DescribeNotFound, DescribeFound, DeleteOk, PatchSpec,
              PatchSpecFails, AwsSpared, Returned, inHand
<1>5. CASE \E err \in Errors : CallFails(err)
  BY <1>5 DEF CallFails, Fails, AwsSpared, Returned
<1>6. CASE ListTagsOk
  <2>1. desired' \in Resources
    BY <1>6, ReadType DEF ListTagsOk
  <2>2. HasNoAws(desired'.userPoolTags)
    BY <1>6, ListTagsHolds DEF AwsSpared
  <2>3. QED
    BY <1>6, <2>1, <2>2, ListTagsHolds, SuccessTags DEF Returned
<1>7. ASSUME NEW p \in PoolIds, CreateOk(p)
      PROVE  /\ HasNoAws(desired'.userPoolTags)
             /\ HasNoAws(latest'.userPoolTags) /\ del' \cap AwsKeys = {}
  BY <1>7, CreateHolds DEF AwsSpared
<1>8. CASE TagOk \/ UntagOk \/ \E r \in BOOLEAN : UpdateOk(r)
  <2>1. desired \in Resources /\ latest \in Resources
    BY DEF TypeOK
  <2>2. QED
    BY <1>8, <2>1, CallHolds, SuccessTags DEF AwsSpared, Returned
<1>9. QED
  BY <1>1, <1>2, <1>3, <1>4, <1>5, <1>6, <1>7, <1>8, StepKinds

\* The steps that write the pools without a fault.
LEMMA WhoWritesThePools ==
  ASSUME TypeOK, [Next]_vars, pools' # pools, faults' = faults
  PROVE  \/ \E p \in PoolIds : CreateOk(p)
         \/ TagOk \/ UntagOk \/ DeleteOk
         \/ \E r \in BOOLEAN : UpdateOk(r)
<1>1. ~Fault
  BY ReconcileAssumption DEF Fault, OneFault, TypeOK
<1>2. ~User /\ ~Service /\ ~Crash /\ ~Stopped /\ ~UNCHANGED vars
  BY <1>1 DEF User, UserCreates, UserEdits, UserDeletes, Service,
              PoolRemoved, TagDrifts, Crash, Stopped, vars
<1>3. ~Start /\ ~ReadOne
  BY DEF Start, ReadOne, DescribeNotFound, DescribeFound, DescribeFails,
         ListTagsOk, ListTagsFails
<1>4. Create => \E p \in PoolIds : CreateOk(p)
  BY <1>1 DEF Create, Manage, ManageFails, CreateRefused, CreateAnswerLost,
              CreateFails, AnswerLost
<1>5. Update => TagOk \/ UntagOk \/ \E r \in BOOLEAN : UpdateOk(r)
  BY <1>1 DEF Update, TagAnswerLost, UpdateRefused, UpdateAnswerLost,
              TagFails, UntagFails, UpdateFails, AnswerLost
<1>6. ~Patch
  BY DEF Patch, PatchSpec, PatchSpecFails, PatchStatus, PatchStatusFails
<1>7. Delete => DeleteOk
  BY <1>1 DEF Delete, DeleteAnswerLost, Unmanage, UnmanageFails, DeleteFails,
              AnswerLost
<1>8. QED
  BY <1>2, <1>3, <1>4, <1>5, <1>6, <1>7 DEF Next, Controller

LEMMA AwsTagsStay ==
  ASSUME TypeOK, AwsSpared, [Next]_vars, faults' = faults,
         NEW p \in PoolIds, NEW k \in AwsKeys,
         pools[p].state = "live", pools'[p].state = "live"
  PROVE  pools'[p].tags[k] = pools[p].tags[k]
<1>1. k \in Keys /\ pools \in [PoolIds -> Pools]
  BY TagAssumption DEF TypeOK
<1>2. ASSUME NEW q \in PoolIds, CreateOk(q)
      PROVE  pools'[p].tags[k] = pools[p].tags[k]
  BY <1>1, <1>2 DEF CreateOk
<1>3. ASSUME NEW t, pools' = [pools EXCEPT ![latest.id].tags = t],
             t[k] = pools[latest.id].tags[k]
      PROVE  pools'[p].tags[k] = pools[p].tags[k]
  <2>1. [pools[p] EXCEPT !.tags = t].tags = t
    BY PoolParts DEF Pools
  <2>2. QED
    BY <1>1, <1>3, <2>1
<1>4. CASE TagOk
  <2>1. pools' = [pools EXCEPT ![latest.id].tags =
                      TagResource(pools[latest.id].tags, add)]
        /\ k \notin KeysOf(add)
    BY <1>4 DEF TagOk
  <2>2. TagResource(pools[latest.id].tags, add)[k] = pools[latest.id].tags[k]
    BY <1>1, <2>1 DEF TagResource, KeysOf, Has
  <2>3. QED
    BY <1>3, <2>1, <2>2
<1>5. CASE UntagOk
  <2>1. pools' = [pools EXCEPT ![latest.id].tags =
                      UntagResource(pools[latest.id].tags, del)]
        /\ k \notin del
    BY <1>5 DEF UntagOk, AwsSpared
  <2>2. UntagResource(pools[latest.id].tags, del)[k]
          = pools[latest.id].tags[k]
    BY <1>1, <2>1 DEF UntagResource
  <2>3. QED
    BY <1>3, <2>1, <2>2
<1>6. CASE DeleteOk
  BY <1>1, <1>6 DEF DeleteOk, PoolGone, NoPoolYet
<1>7. ASSUME NEW r \in BOOLEAN, UpdateOk(r)
      PROVE  pools'[p].tags[k] = pools[p].tags[k]
  <2>1. desired.userPoolTags[k] = Absent
    BY DEF AwsSpared, HasNoAws
  <2>2. ASSUME NEW pool \in Pools
        PROVE  UpdatedPool(pool, desired, r).tags[k] = pool.tags[k]
    BY <1>1, <2>1 DEF UpdatedPool, Pools, Has
  <2>3. pools' = [pools EXCEPT ![desired.id] =
                      UpdatedPool(pools[desired.id], desired, r)]
    BY <1>7 DEF UpdateOk
  <2>4. QED
    BY <1>1, <2>2, <2>3
<1>8. QED
  BY <1>2, <1>4, <1>5, <1>6, <1>7, WhoWritesThePools

-----------------------------------------------------------------------------

\* SpecTagsAreTheUsers: no tag of the controller's or of the service's is ever
\* patched into the CR.
THEOREM ReconcileSpecTags == Spec => SpecTagsAreTheUsers
<1>1. Init => TagsAgree
  BY DEF Init, TagsAgree, Returned
<1>2. TypeOK /\ TypeOK' /\ TagsAgree /\ [Next]_vars => TagsAgree'
  BY AgreeKept
<1>3. ASSUME TypeOK, TagsAgree, [Next]_vars, edits' = edits, cr'.present
      PROVE  cr'.res.tags = cr.res.tags
  <2>1. ~UserStep
    BY <1>3, ReconcileAssumption DEF UserStep, TypeOK
  <2>2. ~Unmanage
    BY <1>3, EmptyCR DEF Unmanage
  <2>3. CASE Manage
    BY <2>3, CRFields DEF Manage
  <2>4. CASE PatchSpec
    <3>1. cr'.res.tags = Merged(cr.res.tags, FilterSystemTags(desired.tags),
                                FilterSystemTags(desired.tags))
      BY <1>3, <2>4, PatchSpecTags DEF PatchSpec, TagsAgree, Returned
    <3>2. cr.res.tags \in [Keys -> Vals \union {Absent, Nil}]
      BY <1>3, CRParts, ResourceParts DEF SpecTagMaps
    <3>3. QED
      BY <3>1, <3>2 DEF Merged
  <2>5. CASE PatchStatus
    BY <1>3, <2>5, PatchStatusTags, CRParts DEF PatchStatus
  <2>6. QED
    BY <1>3, <2>1, <2>2, <2>3, <2>4, <2>5, WhoWritesTheCR
       DEF UserCreates, UserEdits, UserDeletes
<1>4. TypeOK /\ TagsAgree /\ [Next]_vars
        => [(edits' = edits /\ cr'.present)
              => cr'.res.tags = cr.res.tags]_vars
  BY <1>3
<1>5. QED
  BY <1>1, <1>2, <1>4, ReconcileTypeCorrect, PTL
     DEF Spec, SpecTagsAreTheUsers

\* ConditionsTellOutcome: what a pass leaves in Status.Conditions is how it
\* ended, whatever conditions the passes before it had left.
THEOREM ReconcileConditions == Spec => ConditionsTellOutcome
<1>1. Init => OutcomeTold
  BY DEF Init, OutcomeTold
<1>2. TypeOK /\ PassInvariant /\ OutcomeTold /\ [Next]_vars => OutcomeTold'
  BY OutcomeKept
<1>3. ASSUME TypeOK, PassInvariant, OutcomeTold, [Next]_vars,
             pc = "status", reported' # reported
      PROVE  Tells(cr'.res.conds, outcome)
  <2>1. cr.present
    BY <1>3 DEF OutcomeTold, PassInvariant, CRShape
  <2>2. ~User /\ ~Service /\ ~Crash /\ ~Stopped /\ ~UNCHANGED vars
    BY <1>3, <2>1
       DEF User, UserCreates, UserEdits, UserDeletes, Service, PoolRemoved,
           TagDrifts, Crash, Stopped, vars, request
  <2>3. ~Start /\ ~ReadOne /\ ~Create
    BY <1>3 DEF Start, ReadOne, DescribeNotFound, DescribeFound,
                DescribeFails, ListTagsOk, ListTagsFails, Create, Manage,
                ManageFails, CreateRefused, CreateOk, CreateAnswerLost,
                CreateFails
  <2>4. ~Update
    BY <1>3 DEF Update, TagOk, TagAnswerLost, UntagOk, UpdateRefused,
                UpdateOk, UpdateAnswerLost, TagFails, UntagFails, UpdateFails
  <2>5. ~Delete
    BY <1>3 DEF Delete, DeleteOk, DeleteAnswerLost, Unmanage, UnmanageFails,
                DeleteFails
  <2>6. PatchStatus
    BY <1>3, <2>2, <2>3, <2>4, <2>5
       DEF Next, Controller, Patch, PatchSpec, PatchSpecFails,
           PatchStatusFails, request
  <2>7. cr'.res.conds = latest.conds
    BY <1>3, <2>1, <2>6, PatchStatusTags
  <2>8. QED
    BY <1>3, <2>7 DEF OutcomeTold
<1>4. TypeOK /\ PassInvariant /\ OutcomeTold /\ [Next]_vars
        => [(pc = "status" /\ reported' # reported)
              => Tells(cr'.res.conds, outcome)]_vars
  BY <1>3
<1>5. QED
  BY <1>1, <1>2, <1>4, ReconcileTypeCorrect, ReconcileInvariant, PTL
     DEF Spec, ConditionsTellOutcome

\* AwsTagsUntouched: whatever the service tags a pool with while a pass is
\* under way, no call of the pass takes it away or changes it.
THEOREM ReconcileSparesAwsTags ==
  ASSUME UserTagsAreOurs
  PROVE  Spec => AwsTagsUntouched
<1>1. Init => AwsSpared
  BY TagAssumption
     DEF Init, AwsSpared, Returned, NoCR, NoResource, NoTags, HasNoAws
<1>2. TypeOK /\ AwsSpared /\ [Next]_vars => AwsSpared'
  BY SparedKept
<1>3. TypeOK /\ AwsSpared /\ [Next]_vars
        => [faults' = faults =>
              \A p \in PoolIds, k \in AwsKeys :
                (pools[p].state = "live" /\ pools'[p].state = "live")
                  => pools'[p].tags[k] = pools[p].tags[k]]_vars
  BY AwsTagsStay
<1>4. QED
  BY <1>1, <1>2, <1>3, ReconcileTypeCorrect, PTL DEF Spec, AwsTagsUntouched

\* WorkInvariant: what the worker holds in the middle of a pass.
COROLLARY ReconcileWork ==
  ASSUME UserTagsAreOurs
  PROVE  Spec => []WorkInvariant
<1>1. Init => WorkInvariant
  BY TagAssumption
     DEF Init, WorkInvariant, TagsAgree, OutcomeTold, AwsSpared, Returned,
         NoCR, NoResource, NoTags, HasNoAws
<1>2. TypeOK /\ TypeOK' /\ PassInvariant /\ WorkInvariant /\ [Next]_vars
        => WorkInvariant'
  BY AgreeKept, OutcomeKept, SparedKept DEF WorkInvariant
<1>3. QED
  BY <1>1, <1>2, ReconcileTypeCorrect, ReconcileInvariant, PTL DEF Spec

=============================================================================
