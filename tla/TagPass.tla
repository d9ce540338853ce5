------------------------------- MODULE TagPass -------------------------------
(***************************************************************************)
(* One undisturbed pass over the tags of a user pool that already exists,  *)
(* from any Spec.Tags its Go type can hold (nil values included, which the *)
(* CRD does not let through) and any tags the service can hold:            *)
(*                                                                         *)
(*   EnsureTags -> ReadOne (ListTagsForResource, mirrorAWSTags) -> delta   *)
(*   -> SyncTags: TagResource, then UntagResource -> UpdateUserPool        *)
(*   -> FilterSystemTags                                                   *)
(*                                                                         *)
(* Each call to the service may fail; the pass then ends, as SyncTags and  *)
(* its callers return at the first error, and another pass may begin.      *)
(* The CR leaves UserPoolTags alone and its settings are the pool's; other *)
(* CRs, users and the service are in UserPoolReconcile.                    *)
(***************************************************************************)
EXTENDS Tags

VARIABLES
  spec,     \* Spec.Tags in the API server
  pool,     \* the tags the service holds
  desired,  \* Spec.Tags of the resource being reconciled
  latest,   \* Spec.Tags, and UserPoolTags, of the resource ReadOne returned
  add,      \* toAdd of SyncTags
  del,      \* toDelete of SyncTags
  stage,
  pool0     \* history: the service's tags when the pass began

vars == <<spec, pool, desired, latest, add, del, stage, pool0>>

Stages == {"begin", "read", "compare", "add", "remove", "update", "store",
           "done", "failed"}

TypeOK ==
  /\ spec \in SpecTagMaps
  /\ pool \in TagMaps
  /\ desired \in SpecTagMaps
  /\ latest \in TagMaps
  /\ add \in SpecTagMaps
  /\ del \subseteq Keys
  /\ stage \in Stages
  /\ pool0 \in TagMaps

\* The user cannot set an "aws:" tag the service would accept, so a valid
\* Spec.Tags has none.
ValidSpec(t) == \A k \in AwsKeys : t[k] = Absent

Init ==
  /\ spec \in {t \in SpecTagMaps : ValidSpec(t)}
  /\ pool \in TagMaps
  /\ desired = NoTags /\ latest = NoTags /\ add = NoTags
  /\ del = {}
  /\ stage = "begin"
  /\ pool0 = pool

\* rm.EnsureTags on the copy of the custom resource
Ensure ==
  /\ stage = "begin"
  /\ desired' = EnsureTags(spec)
  /\ stage' = "read"
  /\ UNCHANGED <<spec, pool, latest, add, del, pool0>>

\* ListTagsForResource, then mirrorAWSTags(r, observed)
Read ==
  /\ stage = "read"
  /\ latest' = pool
  /\ desired' = MirrorAWSTags(desired, pool)
  /\ stage' = "compare"
  /\ UNCHANGED <<spec, pool, add, del, pool0>>

\* sdkFind also reads the pool's tags into UserPoolTags, where the CR has
\* none: the delta holds more than Spec.Tags as soon as the pool has a tag
UserPoolTagsDiffer == latest # NoTags

\* newResourceDelta.  Update is called when anything differs; sdkUpdate calls
\* SyncTags when Spec.Tags does, and UpdateUserPool when anything else does.
Compare ==
  /\ stage = "compare"
  /\ IF TagsDiffer(desired, latest)
     THEN /\ add' = ToAdd(desired, latest)
          /\ del' = ToDelete(desired, latest)
          /\ stage' = "add"
     ELSE /\ stage' = IF UserPoolTagsDiffer THEN "update" ELSE "done"
          /\ UNCHANGED <<add, del>>
  /\ UNCHANGED <<spec, pool, desired, latest, pool0>>

\* addTags: one TagResource call, when there is something to add
Add ==
  /\ stage = "add"
  /\ pool' = IF KeysOf(add) = {} THEN pool ELSE TagResource(pool, add)
  /\ stage' = "remove"
  /\ UNCHANGED <<spec, desired, latest, add, del, pool0>>

\* removeTags: one UntagResource call, when there is something to remove
Remove ==
  /\ stage = "remove"
  /\ pool' = IF del = {} THEN pool ELSE UntagResource(pool, del)
  /\ stage' = IF UserPoolTagsDiffer THEN "update" ELSE "store"
  /\ UNCHANGED <<spec, desired, latest, add, del, pool0>>

\* UpdateUserPool: the request carries the desired UserPoolTags, which are
\* nil, so the service leaves the tags as they are
Update ==
  /\ stage = "update"
  /\ stage' = "store"
  /\ UNCHANGED <<spec, pool, desired, latest, add, del, pool0>>

\* a failed call ends the pass
Fail ==
  /\ \/ stage \in {"read", "update"}
     \/ stage = "add" /\ KeysOf(add) # {}
     \/ stage = "remove" /\ del # {}
  /\ stage' = "failed"
  /\ UNCHANGED <<spec, pool, desired, latest, add, del, pool0>>

\* the patch: the resource the update returned against the one it was given,
\* both without system tags; the API server receives what differs
Store ==
  /\ stage = "store"
  /\ stage' = "done"
  /\ LET before == FilterSystemTags(spec)
         after == FilterSystemTags(desired)
     IN spec' = [k \in Keys |-> IF before[k] = after[k]
                                THEN spec[k] ELSE after[k]]
  /\ UNCHANGED <<pool, desired, latest, add, del, pool0>>

\* the next reconciliation
Again ==
  /\ stage \in {"done", "failed"}
  /\ stage' = "begin"
  /\ desired' = NoTags /\ latest' = NoTags /\ add' = NoTags
  /\ del' = {}
  /\ pool0' = pool
  /\ UNCHANGED <<spec, pool>>

Next ==
  \/ Ensure \/ Read \/ Compare \/ Add \/ Remove \/ Update \/ Fail \/ Store
  \/ Again

Spec == Init /\ [][Next]_vars

-----------------------------------------------------------------------------

\* The tags the user and the controller ask for, key by key: the user's
\* value first, the empty string for a nil one, else the controller's tag.
Wanted(k) == CASE spec[k] = Absent -> DefaultTags[k]
               [] spec[k] = Nil    -> Empty
               [] OTHER            -> spec[k]

\* The pool carries just those, and the "aws:" tags of old.
InLine(old) ==
  \A k \in Keys : pool[k] = IF k \in AwsKeys THEN old[k] ELSE Wanted(k)

\* What SyncTags is for: when a pass ends without an error the service holds
\* exactly the user's tags, the controller's tags where the user did not set
\* the key, and the "aws:" tags that were there before.
PoolMatchesSpec ==
  stage = "done" => InLine(pool0)

\* SyncTags dereferences tag values: no nil reaches it although the Go
\* type of Spec.Tags admits nil values.
NoNilInSync == stage = "compare" => ~SyncTagsPanics(desired, latest)

\* Neither call of SyncTags names an "aws:" key (the service rejects it), at
\* any point of a pass, whatever the pool carries.
AwsTagsNeverSent ==
  stage \in {"add", "remove"} => (KeysOf(add) \union del) \cap AwsKeys = {}

\* A pass that failed half way (TagResource done, UntagResource not) has
\* lost no tag the user asked for: every tag that was right before it is
\* still right.
PartialPassKeepsGoodTags ==
  stage = "failed" =>
    \A k \in Keys \ AwsKeys :
      pool0[k] = Wanted(k) => pool[k] = pool0[k]

\* No step of a pass changes the Spec.Tags the user wrote: the tags EnsureTags
\* and mirrorAWSTags put into the working copy never reach the API server.
SpecTagsUntouched == [][spec' = spec]_spec

\* When the pass began the pool had the wanted tags.
WasInLine == \A k \in Keys \ AwsKeys : pool0[k] = Wanted(k)

\* The tags of a pool in line are left alone: whatever "aws:" tags it carries,
\* the pass makes no tag call, and no other call changes a tag (mirrorAWSTags,
\* the delta of Spec.Tags, SyncTags).  It may well call UpdateUserPool, which
\* is not needed.
Settled == WasInLine => stage \notin {"add", "remove"} /\ pool = pool0

=============================================================================
