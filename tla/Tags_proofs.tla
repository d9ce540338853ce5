----------------------------- MODULE Tags_proofs -----------------------------
(***************************************************************************)
(* Lemmas about the tag operators, for every set of keys and values and    *)
(* every --resource-tags: what each returns, and that SyncTags' plan does  *)
(* what it is for.                                                         *)
(***************************************************************************)
EXTENDS Tags, TLAPS

\* Conversions lose no key, and leave no nil value.
LEMMA ToACKTagsType ==
  ASSUME NEW t \in SpecTagMaps
  PROVE  /\ ToACKTags(t) \in TagMaps
         /\ \A k \in Keys : Has(ToACKTags(t), k) <=> Has(t, k)
BY TagAssumption DEF ToACKTags, TagMaps, SpecTagMaps, Has

LEMMA EnsureTagsType ==
  ASSUME NEW t \in SpecTagMaps
  PROVE  EnsureTags(t) \in TagMaps
BY ToACKTagsType, DefaultTagsAssumption DEF EnsureTags, MergeTags, TagMaps

LEMMA FilterSystemTagsType ==
  ASSUME NEW t \in SpecTagMaps
  PROVE  FilterSystemTags(t) \in TagMaps
BY ToACKTagsType DEF FilterSystemTags, IgnoreSystemTags, TagMaps

LEMMA MirrorAWSTagsType ==
  ASSUME NEW a \in SpecTagMaps, NEW b \in SpecTagMaps
  PROVE  MirrorAWSTags(a, b) \in TagMaps
BY ToACKTagsType DEF MirrorAWSTags, SyncAWSTags, TagMaps

\* On maps without nil values, as the service holds them, a conversion
\* changes nothing.
LEMMA ToACKTagsId ==
  ASSUME NEW t \in TagMaps, NEW k \in Keys
  PROVE  ToACKTags(t)[k] = t[k]
BY TagAssumption DEF ToACKTags, TagMaps

\* Mirroring, key by key.
LEMMA MirrorAWSTagsAt ==
  ASSUME NEW a \in TagMaps, NEW b \in TagMaps, NEW k \in Keys
  PROVE  MirrorAWSTags(a, b)[k] =
           IF k \in AwsKeys /\ Has(b, k) THEN b[k] ELSE a[k]
<1>1. ToACKTags(a)[k] = a[k] /\ ToACKTags(b)[k] = b[k]
  BY ToACKTagsId
<1>2. QED
  BY <1>1 DEF MirrorAWSTags, SyncAWSTags, Has

\* What SyncTags adds and removes.
LEMMA PlanType ==
  ASSUME NEW a \in TagMaps, NEW b \in TagMaps
  PROVE  ToAdd(a, b) \in TagMaps /\ ToDelete(a, b) \subseteq Keys
BY DEF ToAdd, ToDelete, TagMaps, KeysOf

LEMMA ServiceTagsType ==
  ASSUME NEW pool1 \in TagMaps, NEW add1 \in TagMaps, NEW del1 \in SUBSET Keys
  PROVE  /\ TagResource(pool1, add1) \in TagMaps
         /\ UntagResource(pool1, del1) \in TagMaps
BY DEF TagResource, UntagResource, TagMaps

\* Two calls carry out the plan: afterwards the service holds the desired
\* map, key by key.
LEMMA PlanReachesDesired ==
  ASSUME NEW a \in TagMaps, NEW b \in TagMaps, NEW k \in Keys
  PROVE  UntagResource(TagResource(b, ToAdd(a, b)), ToDelete(a, b))[k] = a[k]
BY DEF UntagResource, TagResource, ToAdd, ToDelete, KeysOf, Has, TagMaps

=============================================================================
