-------------------------------- MODULE Tags --------------------------------
(***************************************************************************)
(* The tag maps of a UserPool and the operators of                         *)
(* pkg/resource/user_pool/{tags,hook,manager}.go that compute with them.   *)
(*                                                                         *)
(* A Go map over tag keys is a function on Keys whose value is Absent      *)
(* where the map has no entry.  Spec.Tags is a map[string]*string, so an   *)
(* entry may also be the nil pointer (Nil); acktags.Tags and the tags the  *)
(* service stores are map[string]string and have no Nil.                   *)
(* A nil map and an empty map are the same function: no reader tells them  *)
(* apart.                                                                  *)
(***************************************************************************)
EXTENDS FiniteSets

CONSTANTS
  Keys,        \* the tag keys in play
  AwsKeys,     \* those with the prefix "aws:"
  SystemKeys,  \* the keys of --resource-tags (ACK_RESOURCE_TAGS)
  Vals,        \* tag values
  Empty,       \* the empty string
  Nil,         \* the nil pointer
  Absent,      \* no entry
  DefaultTags  \* ackrt.GetDefaultTags: the controller's own tags

TagMaps == [Keys -> Vals \union {Absent}]
SpecTagMaps == [Keys -> Vals \union {Absent, Nil}]

ASSUME TagAssumption ==
  /\ AwsKeys \subseteq Keys
  /\ SystemKeys \subseteq Keys
  /\ AwsKeys \cap SystemKeys = {}
  /\ Empty \in Vals
  /\ Nil \notin Vals
  /\ Absent \notin Vals
  /\ Nil # Absent

ASSUME DefaultTagsAssumption ==
  /\ DefaultTags \in TagMaps
  /\ \A k \in Keys : DefaultTags[k] # Absent <=> k \in SystemKeys

Has(t, k) == t[k] # Absent
KeysOf(t) == {k \in Keys : Has(t, k)}
NoTags == [k \in Keys |-> Absent]

-----------------------------------------------------------------------------
(* Conversions: tags.go                                                    *)

\* Faulty variants, named after what they get wrong, stand before the
\* definition they vary; only the mutation checks of PROJECT.json use them.
ToACKTagsKeepNil(t) == [k \in Keys |-> t[k]]
SyncNoTags(a, b) == a
MergeSecondWins(a, b) == [k \in Keys |-> IF Has(b, k) THEN b[k] ELSE a[k]]

\* convertToOrderedACKTags: a nil value becomes the empty string
ToACKTags(t) == [k \in Keys |-> IF t[k] = Nil THEN Empty ELSE t[k]]

\* ignoreSystemTags
IgnoreSystemTags(t) ==
  [k \in Keys |-> IF k \in AwsKeys \union SystemKeys THEN Absent ELSE t[k]]

\* syncAWSTags(a, b): a with every "aws:" entry of b
SyncAWSTags(a, b) ==
  [k \in Keys |-> IF k \in AwsKeys /\ Has(b, k) THEN b[k] ELSE a[k]]

\* acktags.Merge as EnsureTags uses it: existing entries win
MergeTags(a, b) == [k \in Keys |-> IF Has(a, k) THEN a[k] ELSE b[k]]

-----------------------------------------------------------------------------
(* What the resource manager does with them: manager.go                    *)

EnsureTags(t) == MergeTags(ToACKTags(t), DefaultTags)

FilterSystemTags(t) == IgnoreSystemTags(ToACKTags(t))

MirrorAWSTags(desired, latest) ==
  SyncAWSTags(ToACKTags(desired), ToACKTags(latest))

\* the Spec.Tags comparison of newResourceDelta
TagsDiffer(a, b) == ToACKTags(a) # ToACKTags(b)

-----------------------------------------------------------------------------
(* SyncTags: hook.go                                                       *)

\* faulty: only keys the service lacks are added
ToAddNewKeysOnly(desired, existing) ==
  [k \in Keys |-> IF Has(desired, k) /\ ~Has(existing, k)
                  THEN desired[k] ELSE Absent]

\* toAdd; Absent where nothing is to be added
ToAdd(desired, existing) ==
  [k \in Keys |-> IF Has(desired, k) /\ desired[k] # existing[k]
                  THEN desired[k] ELSE Absent]

\* toDelete
ToDelete(desired, existing) == KeysOf(existing) \ KeysOf(desired)

\* SyncTags dereferences *v for every desired entry and *ev for every
\* existing entry of the same key: none of them may be nil
SyncTagsPanics(desired, existing) ==
  \E k \in KeysOf(desired) :
    \/ desired[k] = Nil
    \/ existing[k] = Nil

\* TagResource and UntagResource on the service's own map
TagResource(pool, add) ==
  [k \in Keys |-> IF Has(add, k) THEN add[k] ELSE pool[k]]
UntagResource(pool, del) ==
  [k \in Keys |-> IF k \in del THEN Absent ELSE pool[k]]

=============================================================================
