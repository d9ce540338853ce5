---------------------------- MODULE TagPass_proofs ----------------------------
(***************************************************************************)
(* Proofs about TagPass, for every set of keys and values, every           *)
(* --resource-tags and every Spec.Tags without "aws:" keys.                *)
(***************************************************************************)
EXTENDS TagPass, Tags_proofs

\* TypeOK is not inductive: TagResource sends toAdd, which is free of nil
\* because the working copy is.
TypeInv == TypeOK /\ desired \in TagMaps /\ add \in TagMaps

LEMMA PassTypeInv == Spec => []TypeInv
<1>1. Init => TypeInv
  BY DEF Init, TypeInv, TypeOK, NoTags, TagMaps, SpecTagMaps, Stages
<1>2. TypeInv /\ [Next]_vars => TypeInv'
  <2> SUFFICES ASSUME TypeInv, [Next]_vars PROVE TypeInv'
    OBVIOUS
  <2>0. TagMaps \subseteq SpecTagMaps
    BY DEF TagMaps, SpecTagMaps
  <2> USE DEF TypeInv, TypeOK, Stages
  <2>1. CASE Ensure
    BY <2>0, <2>1, EnsureTagsType DEF Ensure
  <2>2. CASE Read
    BY <2>0, <2>2, MirrorAWSTagsType DEF Read
  <2>3. CASE Compare
    BY <2>0, <2>3, PlanType DEF Compare
  <2>4. CASE Add
    BY <2>4, ServiceTagsType DEF Add
  <2>5. CASE Remove
    BY <2>5, ServiceTagsType DEF Remove
  <2>6. CASE Fail
    BY <2>6 DEF Fail
  <2>7. CASE Store
    <3>1. spec' \in SpecTagMaps
      BY <2>7, FilterSystemTagsType DEF Store, TagMaps, SpecTagMaps
    <3>2. QED
      BY <2>7, <3>1 DEF Store
  <2>8. CASE Again
    BY <2>8 DEF Again, NoTags, TagMaps, SpecTagMaps
  <2>9. CASE UNCHANGED vars
    BY <2>9 DEF vars
  <2>10. CASE Update
    BY <2>10 DEF Update
  <2>11. QED
    BY <2>1, <2>2, <2>3, <2>4, <2>5, <2>6, <2>7, <2>8, <2>9, <2>10 DEF Next
<1>3. QED
  BY <1>1, <1>2, PTL DEF Spec

\* The tags keep their types: no nil value reaches the service.
THEOREM PassTypeCorrect == Spec => []TypeOK
<1>1. TypeInv => TypeOK
  BY DEF TypeInv
<1>2. QED
  BY <1>1, PassTypeInv, PTL

\* The working copy after EnsureTags is what is wanted, key by key.
LEMMA EnsureTagsWanted ==
  ASSUME spec \in SpecTagMaps, NEW k \in Keys
  PROVE  EnsureTags(spec)[k] = Wanted(k)
BY TagAssumption DEF EnsureTags, MergeTags, ToACKTags, Has, Wanted, SpecTagMaps

\* A valid spec and the controller's tags have no "aws:" key.
LEMMA WantedHasNoAwsTag ==
  ASSUME ValidSpec(spec), NEW k \in AwsKeys
  PROVE  Wanted(k) = Absent
BY TagAssumption, DefaultTagsAssumption DEF ValidSpec, Wanted

\* Each point of a pass, key by key.
PassInv ==
  /\ ValidSpec(spec)
  /\ stage = "read" => \A k \in Keys : desired[k] = Wanted(k)
  /\ stage \in {"compare", "add", "remove", "update", "store"} =>
       /\ latest = pool0
       /\ \A k \in Keys :
            desired[k] = IF k \in AwsKeys THEN latest[k] ELSE Wanted(k)
  /\ stage \in {"begin", "read", "compare", "add"} => pool = pool0
  /\ stage \in {"add", "remove"} =>
       add = ToAdd(desired, latest) /\ del = ToDelete(desired, latest)
  /\ stage = "remove" =>
       \A k \in Keys : pool[k] = TagResource(latest, add)[k]
  /\ stage \in {"update", "store", "done"} => InLine(pool0)
  /\ stage = "failed" =>
       \A k \in Keys \ AwsKeys : pool0[k] = Wanted(k) => pool[k] = pool0[k]

LEMMA PassInvariant == Spec => [](TypeInv /\ PassInv)
<1>1. Init => PassInv
  BY DEF Init, PassInv
<1>2. TypeInv /\ TypeInv' /\ PassInv /\ [Next]_vars => PassInv'
  <2> SUFFICES ASSUME TypeInv, TypeInv', PassInv, [Next]_vars PROVE PassInv'
    OBVIOUS
  <2>0. /\ spec \in SpecTagMaps /\ pool \in TagMaps /\ latest \in TagMaps
        /\ desired \in TagMaps /\ add \in TagMaps /\ pool0 \in TagMaps
        /\ AwsKeys \subseteq Keys
    BY TagAssumption DEF TypeInv, TypeOK
  <2>a. ASSUME spec' = spec PROVE \A k : Wanted(k)' = Wanted(k)
    BY <2>a DEF Wanted
  <2>1. CASE Ensure
    BY <2>0, <2>1, <2>a, EnsureTagsWanted DEF Ensure, PassInv, ValidSpec
  <2>2. CASE Read
    <3>1. \A k \in Keys :
            desired'[k] = IF k \in AwsKeys THEN pool[k] ELSE Wanted(k)
      BY <2>0, <2>2, MirrorAWSTagsAt, WantedHasNoAwsTag
         DEF Read, PassInv, Has
    <3>2. QED
      BY <2>2, <2>a, <3>1 DEF Read, PassInv, ValidSpec
  <2>3. CASE Compare
    <3>1. ~TagsDiffer(desired, latest) => InLine(pool0)
      BY <2>0, <2>3, ToACKTagsId DEF Compare, PassInv, TagsDiffer, InLine
    <3>2. QED
      BY <2>3, <2>a, <3>1 DEF Compare, PassInv, ValidSpec, InLine
  <2>4. CASE Add
    <3>1. \A k \in Keys : pool'[k] = TagResource(latest, add)[k]
      BY <2>0, <2>4 DEF Add, PassInv, TagResource, KeysOf, Has
    <3>2. QED
      BY <2>4, <2>a, <3>1 DEF Add, PassInv, ValidSpec, TagResource
  <2>5. CASE Remove
    <3>1. \A k \in Keys : pool'[k] = UntagResource(pool, del)[k]
      BY <2>0, <2>5 DEF Remove, UntagResource
    <3>2. \A k \in Keys : pool'[k] = desired[k]
      BY <2>0, <2>5, <3>1
         DEF Remove, PassInv, UntagResource, TagResource, ToAdd, ToDelete,
             KeysOf, Has
    <3>3. InLine(pool0)'
      BY <2>0, <2>5, <2>a, <3>2 DEF Remove, PassInv, InLine
    <3>4. QED
      BY <2>5, <2>a, <3>3 DEF Remove, PassInv, ValidSpec
  <2>6. CASE Fail
    <3>1. ASSUME NEW k \in Keys \ AwsKeys, pool0[k] = Wanted(k)
          PROVE  pool[k] = pool0[k]
      <4>1. CASE stage = "update"
        BY <3>1, <4>1 DEF PassInv, InLine
      <4>2. CASE stage # "update"
        BY <2>0, <2>6, <3>1, <4>2
           DEF Fail, PassInv, TagResource, ToAdd, Has
      <4>3. QED
        BY <4>1, <4>2
    <3>2. QED
      BY <2>6, <2>a, <3>1 DEF Fail, PassInv, ValidSpec
  <2>7. CASE Store
    <3>1. \A k \in Keys :
            FilterSystemTags(spec)[k] = FilterSystemTags(desired)[k]
      BY <2>0, <2>7, TagAssumption, DefaultTagsAssumption
         DEF Store, PassInv, FilterSystemTags, IgnoreSystemTags, ToACKTags,
             Wanted, SpecTagMaps, TagMaps
    <3>2. spec' = spec
      BY <2>0, <2>7, <3>1 DEF Store, SpecTagMaps
    <3>3. InLine(pool0)'
      BY <2>7, <2>a, <3>2 DEF Store, PassInv, InLine
    <3>4. QED
      BY <2>7, <3>2, <3>3 DEF Store, PassInv, ValidSpec
  <2>8. CASE Again
    BY <2>8 DEF Again, PassInv, ValidSpec
  <2>9. CASE UNCHANGED vars
    BY <2>9, <2>a DEF vars, PassInv, ValidSpec, InLine
  <2>10. CASE Update
    BY <2>10, <2>a DEF Update, PassInv, ValidSpec, InLine
  <2>11. QED
    BY <2>1, <2>2, <2>3, <2>4, <2>5, <2>6, <2>7, <2>8, <2>9, <2>10 DEF Next
<1>3. QED
  BY <1>1, <1>2, PassTypeInv, PTL DEF Spec

\* A pass that ends without an error leaves the service with the user's
\* tags, the controller's where the user has none, and the "aws:" ones.
THEOREM PassReachesSpec == Spec => []PoolMatchesSpec
<1>1. PassInv => PoolMatchesSpec
  BY DEF PassInv, PoolMatchesSpec
<1>2. QED
  BY <1>1, PassInvariant, PTL

\* SyncTags dereferences no nil.
THEOREM PassNoNil == Spec => []NoNilInSync
<1>1. TypeInv => NoNilInSync
  BY TagAssumption
     DEF TypeInv, TypeOK, NoNilInSync, SyncTagsPanics, KeysOf, TagMaps
<1>2. QED
  BY <1>1, PassTypeInv, PTL

\* TagResource and UntagResource are never asked for an "aws:" key.
THEOREM PassSparesAwsTags == Spec => []AwsTagsNeverSent
<1>1. TypeInv /\ PassInv => AwsTagsNeverSent
  BY TagAssumption
     DEF TypeInv, TypeOK, PassInv, AwsTagsNeverSent, ToAdd, ToDelete, KeysOf,
         Has
<1>2. QED
  BY <1>1, PassInvariant, PTL

\* A pass that fails between the two calls has spoilt no tag.
THEOREM PartialPassSafe == Spec => []PartialPassKeepsGoodTags
<1>1. PassInv => PartialPassKeepsGoodTags
  BY DEF PassInv, PartialPassKeepsGoodTags
<1>2. QED
  BY <1>1, PassInvariant, PTL

\* What the filter lets through to the patch is what is in the CR already.
LEMMA SpecStays ==
  ASSUME TypeInv, PassInv, [Next]_vars
  PROVE  spec' = spec
<1> SUFFICES ASSUME Store PROVE spec' = spec
  BY DEF Next, vars, Ensure, Read, Compare, Add, Remove, Update, Fail, Again
<1>1. \A k \in Keys :
        FilterSystemTags(spec)[k] = FilterSystemTags(desired)[k]
  BY TagAssumption, DefaultTagsAssumption
     DEF TypeInv, TypeOK, Store, PassInv, FilterSystemTags,
         IgnoreSystemTags, ToACKTags, Wanted, SpecTagMaps, TagMaps
<1>2. QED
  BY <1>1 DEF TypeInv, TypeOK, Store, SpecTagMaps

\* No step of a pass changes Spec.Tags in the API server.
THEOREM PassKeepsSpec == Spec => SpecTagsUntouched
<1>1. TypeInv /\ PassInv /\ [Next]_vars => [spec' = spec]_spec
  BY SpecStays
<1>2. QED
  BY <1>1, PassInvariant, PTL DEF Spec, SpecTagsUntouched

\* The tags of a pool in line are left alone by a whole pass: it makes no tag
\* call, and no call it makes changes a tag.
THEOREM PassSettles == Spec => []Settled
<1>1. Init => Settled
  BY DEF Init, Settled
<1>2. TypeInv /\ PassInv /\ Settled /\ [Next]_vars => Settled'
  <2> SUFFICES ASSUME TypeInv, PassInv, Settled, [Next]_vars PROVE Settled'
    OBVIOUS
  <2>1. CASE Again
    BY <2>1 DEF Again, Settled
  <2>2. CASE ~Again
    <3>1. pool0' = pool0
      BY <2>2 DEF Next, vars, Ensure, Read, Compare, Add, Remove, Update,
                  Fail, Store
    <3>2. WasInLine' => WasInLine
      BY <3>1, SpecStays DEF WasInLine, Wanted
    <3>3. ASSUME WasInLine, Compare PROVE ~TagsDiffer(desired, latest)
      <4>1. \A k \in Keys : desired[k] = latest[k]
        BY <3>3 DEF Compare, PassInv, WasInLine
      <4>2. QED
        BY <4>1 DEF TagsDiffer, ToACKTags
    <3>4. QED
      BY <2>2, <3>1, <3>2, <3>3
         DEF Settled, Next, vars, Ensure, Read, Compare, Add, Remove, Update,
             Fail, Store
  <2>3. QED
    BY <2>1, <2>2
<1>3. QED
  BY <1>1, <1>2, PassInvariant, PTL DEF Spec

=============================================================================
