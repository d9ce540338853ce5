------------------------- MODULE UserPoolQuiet_proofs -------------------------
(***************************************************************************)
(* A pass that nobody disturbs does its job, and passes that follow each   *)
(* other bring the pool in line, or end the deletion: for every set of     *)
(* pools, fields, tags and specs.                                          *)
(*                                                                         *)
(* First the steps: which there are when all is quiet, and what each does  *)
(* to the pool and to the work still to be done.  Then the temporal part:  *)
(* from "the worker keeps working" to Converges and DeletionEnds.          *)
(***************************************************************************)
EXTENDS UserPoolQuiet, UserPoolReconcile_proofs

-----------------------------------------------------------------------------
(* The field tables of sdk.go                                              *)

\* What can be updated is sent on creation, read back and compared; what is
\* narrowed to int32 is sent by both requests.
LEMMA FieldTables ==
  /\ UpdateRequestFields \subseteq CreateRequestFields
  /\ UpdateRequestFields \subseteq FoundFields \cap ComparedFields
  /\ CreatedFields \subseteq CreateRequestFields
  /\ UpdateRequestFields \subseteq CreatedFields
<1> USE DEF UpdateRequestFields, UpdateAccountToEmail,
            UpdateLambdaToVerification
<1>1. CreatedFields \subseteq CreateRequestFields
  BY DEF CreatedFields, CreatedAccountToEmail, CreatedLambdaToPolicies,
         CreatedSmsToVerification, CreateRequestFields, CreateAccountToEmail,
         CreateLambdaToName, CreateSchemaToVerification
<1>2. UpdateRequestFields \subseteq CreatedFields
  BY DEF CreatedFields, CreatedAccountToEmail, CreatedLambdaToPolicies,
         CreatedSmsToVerification
<1>3. UpdateRequestFields \subseteq FoundFields
  BY DEF FoundFields, FoundAccountToEmail, FoundLambdaToPolicies,
         FoundSmsToVerification
<1>4. UpdateRequestFields \subseteq ComparedFields
  BY DEF ComparedFields, ComparedAccountToEmail, ComparedEmailToLambda,
         ComparedMFAToSms, ComparedUserToVerification
<1>5. QED
  BY <1>1, <1>2, <1>3, <1>4

-----------------------------------------------------------------------------
(* The steps there are when all is quiet                                   *)

\* A call for a pool that is there and is not refused does not fail.
QuietStep ==
  \/ UNCHANGED vars
  \/ Start \/ DescribeNotFound \/ DescribeFound \/ ListTagsOk
  \/ Manage \/ CreateRefused \/ \E p \in PoolIds : CreateOk(p)
  \/ TagOk \/ UntagOk \/ UpdateRefused \/ \E r \in BOOLEAN : UpdateOk(r)
  \/ PatchSpec \/ PatchStatus
  \/ DeleteOk \/ Unmanage
  \/ pc = "manage" /\ ~cr.present
  \/ pc = "listtags" /\ ~Live(desired.id)
  \/ pc \in {"tag", "untag"} /\ ~Live(latest.id)
  \/ pc = "tag" /\ KeysOf(add) \cap AwsKeys # {}
  \/ pc = "update" /\ ~Live(desired.id)
  \/ /\ pc = "delete" /\ (Live(latest.id) => Protected(latest.id))
     /\ \E err \in Errors :
          /\ Fails(latest, err)
          /\ Live(latest.id) => err = "InvalidParameterException"
     /\ UNCHANGED <<cr, pools, mode, managed, desired, add, del, next,
                    request, lost>>

LEMMA QuietSteps ==
  ASSUME TypeOK, [Next]_vars, Quiet
  PROVE  QuietStep
<1>1. ~OneFault /\ ~Fault /\ ~UserStep
  BY ReconcileAssumption DEF OneFault, Fault, UserStep, TypeOK, Quiet
<1>2. CASE UNCHANGED vars \/ Stopped
  BY <1>2 DEF Stopped, QuietStep
<1>3. ~User /\ ~Service /\ ~Crash
  BY <1>1 DEF User, UserCreates, UserEdits, UserDeletes, Service,
              PoolRemoved, TagDrifts, Crash
<1>4. CASE Start
  BY <1>4 DEF QuietStep
<1>5. CASE ReadOne
  <2>1. ASSUME NEW err \in Errors, DescribeFails(err) \/ ListTagsFails(err)
        PROVE  pc = "listtags" /\ ~Live(desired.id)
    BY <1>1, <2>1 DEF DescribeFails, ListTagsFails, Outage, NotTaken,
                         NotThere
  <2>2. QED
    BY <1>5, <2>1 DEF ReadOne, QuietStep
<1>6. CASE Create
  <2>1. ManageFails => pc = "manage" /\ ~cr.present
    BY <1>1 DEF ManageFails
  <2>2. \A p \in PoolIds : ~CreateAnswerLost(p)
    BY <1>1 DEF CreateAnswerLost, AnswerLost
  <2>3. \A err \in Errors : ~CreateFails(err)
    BY <1>1 DEF CreateFails, Outage, NotTaken
  <2>4. QED
    BY <1>6, <2>1, <2>2, <2>3 DEF Create, QuietStep
<1>7. CASE Update
  <2>1. ~TagAnswerLost /\ \A r \in BOOLEAN : ~UpdateAnswerLost(r)
    BY <1>1 DEF TagAnswerLost, UpdateAnswerLost, AnswerLost
  <2>2. ASSUME NEW err \in Errors, TagFails(err)
        PROVE  /\ pc = "tag"
               /\ ~Live(latest.id) \/ KeysOf(add) \cap AwsKeys # {}
    BY <1>1, <2>2 DEF TagFails, Outage, NotTaken, NotThere
  <2>3. ASSUME NEW err \in Errors, UntagFails(err)
        PROVE  pc = "untag" /\ ~Live(latest.id)
    BY <1>1, <2>3 DEF UntagFails, Outage, NotTaken, NotThere
  <2>4. ASSUME NEW err \in Errors, UpdateFails(err)
        PROVE  pc = "update" /\ ~Live(desired.id)
    BY <1>1, <2>4 DEF UpdateFails, Outage, NotTaken, NotThere
  <2>5. QED
    BY <1>7, <2>1, <2>2, <2>3, <2>4 DEF Update, QuietStep
<1>8. CASE Patch
  BY <1>1, <1>8 DEF Patch, PatchSpecFails, PatchStatusFails, QuietStep
<1>9. CASE Delete
  <2>1. ~DeleteAnswerLost /\ ~UnmanageFails
    BY <1>1 DEF DeleteAnswerLost, UnmanageFails, AnswerLost
  <2>2. ASSUME NEW err \in Errors, DeleteFails(err)
        PROVE  QuietStep
    <3>1. /\ pc = "delete" /\ (Live(latest.id) => Protected(latest.id))
          /\ Live(latest.id) => err = "InvalidParameterException"
      BY <1>1, <2>2 DEF DeleteFails, Outage, NotTaken, NotThere
    <3>2. /\ Fails(latest, err)
          /\ UNCHANGED <<cr, pools, mode, managed, desired, add, del, next,
                         request, lost>>
      BY <2>2 DEF DeleteFails
    <3>3. QED
      BY <2>2, <3>1, <3>2 DEF QuietStep, DeleteFails
  <2>3. QED
    BY <1>9, <2>1, <2>2 DEF Delete, QuietStep
<1>10. QED
  BY <1>2, <1>3, <1>4, <1>5, <1>6, <1>7, <1>8, <1>9 DEF Next, Controller

-----------------------------------------------------------------------------
(* What the operators return                                               *)

\* EnsureTags gives each key what it should have.
LEMMA WantedIs ==
  ASSUME TypeOK, NEW k \in Keys
  PROVE  EnsureTags(cr.res.tags)[k] = WantedTag(k)
<1>1. cr.res.tags \in SpecTagMaps
  BY CRParts, ResourceParts
<1>2. ToACKTags(cr.res.tags)[k] =
        IF cr.res.tags[k] = Nil THEN Empty ELSE cr.res.tags[k]
  BY DEF ToACKTags
<1>3. QED
  BY <1>1, <1>2, TagAssumption
     DEF EnsureTags, MergeTags, WantedTag, Has, SpecTagMaps

LEMMA WantedStays ==
  ASSUME cr'.res.tags = cr.res.tags, NEW k \in Keys
  PROVE  WantedTag(k)' = WantedTag(k)
BY DEF WantedTag

LEMMA AnswerParts ==
  ASSUME NEW res \in Resources
  PROVE  /\ OnSuccess(res).cfg = res.cfg /\ OnSuccess(res).tags = res.tags
         /\ OnSuccess(res).userPoolTags = res.userPoolTags
         /\ OnSuccess(res).id = res.id
BY DEF OnSuccess, Resources

\* What ReadOne returns, and what it makes of the resource it was given.
LEMMA ReadParts ==
  ASSUME TypeOK, Live(desired.id)
  PROVE  /\ Mirrored.id = desired.id /\ Mirrored.cfg = desired.cfg
         /\ Mirrored.userPoolTags = desired.userPoolTags
         /\ Mirrored.tags = MirrorAWSTags(desired.tags, Observed.tags)
         /\ Observed.tags = pools[desired.id].tags
         /\ Observed.cfg = latest.cfg /\ Observed.id = latest.id
<1> DEFINE t == MirrorAWSTags(desired.tags, Observed.tags)
           read == [latest EXCEPT !.tags = pools[desired.id].tags]
<1>1. Mirrored = [desired EXCEPT !.tags = t]
  BY DEF Mirrored
<1>2. pools[desired.id].tags \in SpecTagMaps
  BY LiveIds, PoolParts, EmptyTypes
<1>3. read \in Resources
  BY <1>2, ResourceExcept, ResourceParts DEF TypeOK
<1>4. /\ read.tags = pools[desired.id].tags
      /\ read.cfg = latest.cfg /\ read.id = latest.id
  BY DEF TypeOK, Resources
<1>5. Observed = OnSuccess(read)
  BY DEF Observed
<1> HIDE DEF t, read
<1>6. /\ Mirrored.id = desired.id /\ Mirrored.cfg = desired.cfg
      /\ Mirrored.userPoolTags = desired.userPoolTags /\ Mirrored.tags = t
  BY <1>1 DEF TypeOK, Resources
<1>7. QED
  BY <1>3, <1>4, <1>5, <1>6, AnswerParts DEF t

\* The observed tags, with the wanted ones in the place of all but the
\* service's own.
LEMMA MirroredIs ==
  ASSUME TypeOK, Acceptable, Live(desired.id),
         desired.tags = EnsureTags(cr.res.tags)
  PROVE  \A k \in Keys : Mirrored.tags[k] =
           IF k \in AwsKeys THEN pools[desired.id].tags[k] ELSE WantedTag(k)
<1> TAKE k \in Keys
<1>1. desired.tags \in TagMaps
  BY EnsureTagsType, CRParts, ResourceParts
<1>2. Observed.tags \in TagMaps
  BY ReadType
<1>3. Mirrored.tags[k] = IF k \in AwsKeys /\ Has(Observed.tags, k)
                         THEN Observed.tags[k] ELSE desired.tags[k]
  BY <1>1, <1>2, MirrorAWSTagsAt, ReadParts
<1>4. k \in AwsKeys => desired.tags[k] = Absent
  <2>1. k \in AwsKeys => WantedTag(k) = DefaultTags[k]
    <3>1. k \in AwsKeys => cr.res.tags[k] = Absent
      BY DEF Acceptable
    <3>2. QED
      BY <3>1, TagAssumption DEF WantedTag
  <2>2. k \in AwsKeys => DefaultTags[k] = Absent
    BY DefaultTagsAssumption, TagAssumption
  <2>3. QED
    BY <2>1, <2>2, WantedIs
<1>5. QED
  BY <1>3, <1>4, WantedIs, ReadParts DEF Has

\* A payload of the CR's settings fits, whichever request it is for.
LEMMA PayloadFits ==
  ASSUME Acceptable
  PROVE  /\ ~PayloadError(cr.res.cfg, CreateRequestFields)
         /\ ~PayloadError(cr.res.cfg, UpdateRequestFields)
<1>1. ~PayloadError(cr.res.cfg, CreateRequestFields)
  BY DEF Acceptable
<1>2. QED
  BY <1>1, FieldTables DEF PayloadError

\* What UpdateUserPool makes of the pool when UserPoolTags is not sent.
LEMMA UpdatedPoolIs ==
  ASSUME NEW pool \in Pools, NEW res \in Resources, NEW r \in BOOLEAN,
         res.userPoolTags = NoTags
  PROVE  /\ UpdatedPool(pool, res, r).state = pool.state
         /\ UpdatedPool(pool, res, r).tags = pool.tags
         /\ \A f \in Fields \cap UpdateRequestFields :
              res.cfg[f] # Unset
                => UpdatedPool(pool, res, r).cfg[f] = res.cfg[f]
BY DEF UpdatedPool, Payload, Pools

\* The settings of a new pool.
LEMMA NewPoolIs ==
  ASSUME NEW res
  PROVE  /\ NewPool(res).state = "live" /\ NewPool(res).tags = res.userPoolTags
         /\ \A f \in Fields \cap CreateRequestFields :
              NewPool(res).cfg[f] =
                IF res.cfg[f] = Unset THEN Defaults[f] ELSE res.cfg[f]
BY DEF NewPool, Payload

-----------------------------------------------------------------------------
(* A sync, step by step                                                    *)

Sound == TypeOK /\ PassInvariant /\ TagsAgree /\ OutcomeTold

\* What stays true of the CR and its pool when neither is written.
LEMMA NothingWritten ==
  ASSUME UNCHANGED <<cr, pools>>
  PROVE  /\ Acceptable' <=> Acceptable
         /\ InLine' <=> InLine
         /\ \A p : Live(p)' <=> Live(p)
         /\ \A p : SettingsOf(p)' <=> SettingsOf(p)
         /\ \A k \in Keys : WantedTag(k)' = WantedTag(k)
<1>1. \A p : Live(p)' <=> Live(p)
  BY DEF Live
<1>2. \A p : SettingsOf(p)' <=> SettingsOf(p)
  BY DEF SettingsOf
<1>3. \A k \in Keys : WantedTag(k)' = WantedTag(k)
  BY WantedStays
<1>4. TagsInLine' <=> TagsInLine
  BY <1>3 DEF TagsInLine
<1>5. Acceptable' <=> Acceptable
  BY DEF Acceptable
<1>6. InLine' <=> InLine
  BY <1>1, <1>2, <1>4 DEF InLine
<1>7. QED
  BY <1>1, <1>2, <1>3, <1>5, <1>6

LEMMA AtWork ==
  ASSUME Sound, SyncOnTrack, pc # "idle"
  PROVE  /\ desired.id = cr.res.id /\ mode = "sync" /\ outcome = "none"
         /\ desired.userPoolTags = NoTags
         /\ pc # "status" => desired.cfg = cr.res.cfg
         /\ Acceptable /\ desired \in Resources /\ latest \in Resources
BY DEF Sound, TypeOK, SyncOnTrack, CopyIsWhole, PassInvariant, CopyStillGood

LEMMA SyncStutters ==
  ASSUME SyncOnTrack, UNCHANGED vars
  PROVE  SyncOnTrack' /\ (InLine => InLine')
<1>1. UNCHANGED <<cr, pools, pc, mode, desired, latest, add, del, next,
                  outcome>>
  BY DEF vars, inHand
<1>2. CopyIsWhole' <=> CopyIsWhole
  BY <1>1 DEF CopyIsWhole
<1>3. PlanHolds' <=> PlanHolds
  <2>1. \A k : WantedTag(k)' = WantedTag(k)
    BY <1>1 DEF WantedTag
  <2>2. QED
    BY <1>1, <2>1 DEF PlanHolds
<1>4. Brings(latest.id)' <=> Brings(latest.id)
  BY <1>1 DEF Brings, Live, SettingsOf
<1>5. QED
  BY <1>1, <1>2, <1>3, <1>4, NothingWritten DEF SyncOnTrack

LEMMA SyncStarts ==
  ASSUME Sound, SyncOnTrack, Start
  PROVE  SyncOnTrack' /\ (InLine => InLine')
<1>1. ~cr.deleting /\ cr.res.userPoolTags = NoTags
  BY DEF SyncOnTrack, Acceptable
<1>2. desired' = [cr.res EXCEPT !.tags = EnsureTags(cr.res.tags),
                                !.conds = NoConditions]
  BY <1>1 DEF Start
<1>3. /\ desired'.cfg = cr.res.cfg /\ desired'.userPoolTags = NoTags
      /\ desired'.tags = EnsureTags(cr.res.tags)
  BY <1>1, <1>2, CRParts DEF Sound, Resources
<1>4. outcome' = "none"
  BY DEF Start, Sound, OutcomeTold
<1>5. pc' = "describe" /\ mode' = "sync" /\ UNCHANGED <<cr, pools>>
  BY <1>1 DEF Start
<1>6. QED
  BY <1>3, <1>4, <1>5, NothingWritten DEF SyncOnTrack, CopyIsWhole

LEMMA SyncNotFound ==
  ASSUME Sound, SyncOnTrack, DescribeNotFound
  PROVE  SyncOnTrack' /\ (InLine => InLine')
<1>1. pc = "describe" /\ pc' \in {"create", "manage"}
  BY AtWork DEF DescribeNotFound
<1>2. UNCHANGED <<cr, pools, inHand>>
  BY DEF DescribeNotFound
<1>3. QED
  BY <1>1, <1>2, NothingWritten DEF inHand, SyncOnTrack, CopyIsWhole

LEMMA SyncFound ==
  ASSUME Sound, SyncOnTrack, DescribeFound
  PROVE  SyncOnTrack' /\ (InLine => InLine')
<1> DEFINE c == MergeFound(desired.cfg, pools[desired.id].cfg)
<1>1. latest' = [desired EXCEPT !.cfg = c,
                                !.userPoolTags = pools[desired.id].tags]
  BY DEF DescribeFound
<1>2. latest'.cfg = c
  <2> HIDE DEF c
  <2>1. QED
    BY <1>1 DEF Sound, TypeOK, Resources
<1>3. /\ pc = "describe" /\ pc' = "listtags" /\ Live(desired.id)
      /\ UNCHANGED <<cr, pools, mode, desired, outcome>>
  BY DEF DescribeFound
<1>4. QED
  BY <1>2, <1>3, NothingWritten DEF SyncOnTrack, CopyIsWhole

LEMMA SyncManages ==
  ASSUME Sound, SyncOnTrack, Manage
  PROVE  SyncOnTrack' /\ (InLine => InLine')
<1>1. /\ cr'.res = cr.res /\ cr'.present = cr.present
      /\ cr'.deleting = cr.deleting
  BY DEF Manage, Sound, TypeOK, CRs
<1>2. /\ pc = "manage" /\ pc' = "create"
      /\ UNCHANGED <<pools, mode, desired, outcome>>
  BY DEF Manage
<1>3. Acceptable' <=> Acceptable
  BY <1>1 DEF Acceptable
<1>4. InLine => InLine'
  BY <1>1, <1>2, WantedStays DEF InLine, Live, TagsInLine, SettingsOf
<1>5. QED
  BY <1>1, <1>2, <1>3, <1>4 DEF SyncOnTrack, CopyIsWhole

\* A pool is created with the settings of the CR.
LEMMA SyncCreates ==
  ASSUME Sound, SyncOnTrack, NEW p \in PoolIds, CreateOk(p)
  PROVE  SyncOnTrack' /\ (InLine => InLine')
<1>1. /\ pc = "create" /\ ~Live(cr.res.id) /\ p # cr.res.id
      /\ pools[p].state = "unused"
  BY ReconcileAssumption
     DEF CreateOk, Sound, PassInvariant, LocationTells, CopyStillGood,
         CRShape
<1>2. pc' = "patch" /\ latest'.id = p
  BY CreateGoesOn DEF Sound
<1>3. latest' = OnSuccess(Created(p))
      /\ latest'.userPoolTags = desired.userPoolTags
  BY <1>2, CreateHolds DEF Sound
<1>4. latest'.cfg = MergeCreated(desired.cfg, NewPool(desired).cfg)
  <2> DEFINE c == MergeCreated(desired.cfg, NewPool(desired).cfg)
             u == NewPool(desired).tags
  <2>1. Created(p) = [desired EXCEPT !.id = p, !.cfg = c,
                                     !.userPoolTags = u]
    BY DEF Created
  <2> HIDE DEF c, u
  <2>2. Created(p).cfg = c
    BY <2>1 DEF Sound, TypeOK, Resources
  <2>3. QED
    BY <1>3, <2>2, CreatedType, AnswerParts DEF Sound, c
<1>5. pools' = [pools EXCEPT ![p] = NewPool(desired)]
      /\ UNCHANGED <<cr, mode, desired, outcome>>
  BY DEF CreateOk
<1>6. pools'[p] = NewPool(desired) /\ pools'[p].state = "live"
  BY <1>5, NewPoolIs DEF Sound, TypeOK
<1>7. cr.res.id \in PoolIds => pools'[cr.res.id] = pools[cr.res.id]
  BY <1>1, <1>5 DEF Sound, TypeOK
<1>8. ~Live(cr.res.id)' /\ Live(p)'
  BY <1>1, <1>5, <1>6, <1>7 DEF Live
<1>9. Brings(latest.id)'
  BY <1>2, <1>3, <1>4, <1>5, <1>6, <1>8, AtWork, <1>1 DEF Brings
<1>10. Acceptable'
  BY <1>5 DEF Acceptable, SyncOnTrack
<1>11. QED
  BY <1>1, <1>2, <1>5, <1>9, <1>10 DEF SyncOnTrack, CopyIsWhole, InLine

\* ListTagsOk computes a plan that leaves no wanted tag out and spares the
\* service's, or finds everything in line.
LEMMA SyncPlans ==
  ASSUME Sound, SyncOnTrack, ListTagsOk
  PROVE  SyncOnTrack' /\ (InLine => InLine')
<1> DEFINE p == cr.res.id
           held == pools[p].tags
<1>1. /\ pc = "listtags" /\ Live(p) /\ desired.id = p /\ mode = "sync"
      /\ desired.tags = EnsureTags(cr.res.tags)
      /\ desired.cfg = cr.res.cfg /\ desired.userPoolTags = NoTags
      /\ latest.cfg = MergeFound(desired.cfg, pools[p].cfg)
      /\ outcome = "none" /\ Acceptable
  BY AtWork DEF ListTagsOk, SyncOnTrack
<1>2. /\ desired' = Mirrored /\ UNCHANGED <<cr, pools, mode, outcome>>
      /\ \/ /\ TagsDiffer(Mirrored.tags, Observed.tags)
            /\ SyncTags(Mirrored, Observed.tags, WhatFollows, Observed)
         \/ /\ ~TagsDiffer(Mirrored.tags, Observed.tags)
            /\ pc' = IF WhatFollows = "update" THEN "update" ELSE "status"
            /\ next' = WhatFollows
  BY <1>1 DEF ListTagsOk
<1>3. /\ Mirrored \in Resources /\ Mirrored.tags \in TagMaps
      /\ Observed.tags \in TagMaps /\ Observed.tags = held
      /\ Mirrored.id = p /\ Mirrored.cfg = cr.res.cfg
      /\ Mirrored.userPoolTags = NoTags /\ Observed.cfg = latest.cfg
  BY <1>1, ReadType, ReadParts DEF Sound
<1>4. \A k \in Keys : Mirrored.tags[k] =
        IF k \in AwsKeys THEN held[k] ELSE WantedTag(k)
  BY <1>1, MirroredIs DEF Sound
<1>5. WhatFollows = "done" => SettingsOf(p)
  <2>1. WhatFollows = "done" => ~ConfigDiffers(Mirrored.cfg, Observed.cfg)
    BY DEF WhatFollows, DiffersExceptTags
  <2>2. \A f \in Fields \cap UpdateRequestFields :
          Observed.cfg[f] = pools[p].cfg[f]
    BY <1>1, <1>3, FieldTables DEF MergeFound
  <2>3. QED
    BY <2>1, <2>2, <1>3, FieldTables DEF ConfigDiffers, SettingsOf
<1>6. CopyIsWhole'
  BY <1>1, <1>2, <1>3 DEF CopyIsWhole
<1>7. Live(p)' /\ desired'.id = p /\ Acceptable' /\ cr'.res.id = p
  BY <1>1, <1>2, <1>3, NothingWritten
<1>8. WhatFollows \in {"update", "done"}
  BY DEF WhatFollows
<1>9. SettingsOf(p)' <=> SettingsOf(p)
  BY <1>2, NothingWritten
<1>10. CASE ~TagsDiffer(Mirrored.tags, Observed.tags)
  <2>1. \A k \in Keys : Mirrored.tags[k] = held[k]
    <3>1. ToACKTags(Mirrored.tags) = ToACKTags(Observed.tags)
      BY <1>10 DEF TagsDiffer
    <3>2. QED
      BY <1>3, <3>1, ToACKTagsId
  <2>2. \A k \in Keys \ AwsKeys : held[k] = WantedTag(k)
    BY <1>4, <2>1
  <2>3. TagsInLine'
    BY <1>2, <2>2, WantedStays DEF TagsInLine
  <2>4. CASE WhatFollows = "update"
    <3>1. pc' = "update" /\ next' = "update"
      BY <1>2, <1>10, <2>4
    <3>2. PlanHolds'
      BY <1>2, <1>7, <2>2, <3>1, WantedStays DEF PlanHolds
    <3>3. QED
      BY <1>2, <1>6, <1>7, <3>1, <3>2, NothingWritten DEF SyncOnTrack
  <2>5. CASE WhatFollows = "done"
    <3>1. pc' = "status"
      BY <1>2, <1>10, <2>5
    <3>2. InLine'
      BY <1>5, <1>7, <1>9, <2>3, <2>5 DEF InLine
    <3>3. QED
      BY <1>6, <1>7, <3>1, <3>2 DEF SyncOnTrack
  <2>6. QED
    BY <1>8, <2>4, <2>5
<1>11. CASE SyncTags(Mirrored, Observed.tags, WhatFollows, Observed)
  <2>1. /\ add' = ToAdd(Mirrored.tags, held)
        /\ del' = ToDelete(Mirrored.tags, held) /\ next' = WhatFollows
    BY <1>3, <1>11 DEF SyncTags
  <2>2. \A k \in Keys :
          /\ k \in KeysOf(add') <=> /\ Mirrored.tags[k] # Absent
                                    /\ Mirrored.tags[k] # held[k]
          /\ k \in KeysOf(add') => add'[k] = Mirrored.tags[k]
          /\ k \in del' <=> Mirrored.tags[k] = Absent /\ held[k] # Absent
    BY <2>1 DEF ToAdd, ToDelete, KeysOf, Has
  <2>3. /\ KeysOf(add') \subseteq Keys /\ del' \subseteq Keys
        /\ (KeysOf(add') \union del') \cap AwsKeys = {}
        /\ \A k \in KeysOf(add') : add'[k] = WantedTag(k)
        /\ \A k \in del' : WantedTag(k) = Absent
        /\ \A k \in Keys \ (AwsKeys \union KeysOf(add') \union del') :
             held[k] = WantedTag(k)
    <3>1. KeysOf(add') \subseteq Keys /\ del' \subseteq Keys
      BY <2>1 DEF KeysOf, ToDelete
    <3>2. QED
      BY <1>4, <2>2, <3>1
  <2>4. CASE pc' = "tag" \/ (pc' = "untag" /\ KeysOf(add') = {})
    <3>1. PlanHolds'
      BY <1>2, <1>7, <2>3, <2>4, WantedStays DEF PlanHolds
    <3>2. next' = "done" => SettingsOf(p)'
      BY <1>5, <1>9, <2>1
    <3>3. QED
      BY <1>2, <1>6, <1>7, <1>8, <2>1, <2>4, <3>1, <3>2, NothingWritten
         DEF SyncOnTrack
  <2>5. CASE /\ KeysOf(add') = {} /\ del' = {}
             /\ AfterTags(WhatFollows, Mirrored, Observed)
    <3>1. \A k \in Keys \ AwsKeys : held[k] = WantedTag(k)
      BY <2>3, <2>5
    <3>2. TagsInLine'
      BY <1>2, <3>1, WantedStays DEF TagsInLine
    <3>3. CASE WhatFollows = "update"
      <4>1. pc' = "update" /\ next' = "update"
        BY <2>1, <2>5, <3>3 DEF AfterTags
      <4>2. PlanHolds'
        BY <1>2, <1>7, <3>1, <4>1, WantedStays DEF PlanHolds
      <4>3. QED
        BY <1>2, <1>6, <1>7, <4>1, <4>2, NothingWritten DEF SyncOnTrack
    <3>4. CASE WhatFollows = "done"
      <4>1. pc' = "patch" /\ latest' = OnSuccess(Mirrored)
        BY <2>5, <3>4 DEF AfterTags, Succeeds
      <4>2. InLine'
        BY <1>5, <1>7, <1>9, <3>2, <3>4 DEF InLine
      <4>3. latest'.cfg = desired'.cfg /\ latest'.userPoolTags = NoTags
        BY <1>2, <1>3, <4>1, AnswerParts
      <4>4. QED
        BY <1>6, <1>7, <4>1, <4>2, <4>3 DEF SyncOnTrack
    <3>5. QED
      BY <1>8, <3>3, <3>4
  <2>6. QED
    BY <1>2, <1>11, <2>4, <2>5, NothingWritten DEF SyncTags
<1>12. QED
  BY <1>2, <1>10, <1>11, NothingWritten

\* What the calls of sdkUpdate work on.
LEMMA UpdatesOwn ==
  ASSUME Sound, SyncOnTrack, pc \in {"tag", "untag", "update"}
  PROVE  /\ latest.id = cr.res.id /\ desired.id = cr.res.id
         /\ Live(cr.res.id) /\ cr.res.id \in PoolIds
         /\ next \in {"update", "done"}
         /\ next = "done" => pc # "update" /\ SettingsOf(cr.res.id)
BY AtWork
   DEF Sound, PassInvariant, LocationTells, SyncOnTrack, Live

\* The pool of the CR after a call that writes its tags only.
LEMMA TagsWritten ==
  ASSUME TypeOK, NEW p \in PoolIds, NEW t, UNCHANGED cr,
         pools' = [pools EXCEPT ![p].tags = t]
  PROVE  /\ pools'[p].tags = t /\ pools'[p].cfg = pools[p].cfg
         /\ Live(p)' <=> Live(p)
         /\ SettingsOf(p)' <=> SettingsOf(p)
<1> DEFINE q == [pools[p] EXCEPT !.tags = t]
<1>1. /\ q.tags = t /\ q.cfg = pools[p].cfg /\ q.state = pools[p].state
  BY PoolParts DEF Pools
<1>2. pools'[p] = q
  BY DEF TypeOK
<1> HIDE DEF q
<1>3. QED
  BY <1>1, <1>2 DEF Live, SettingsOf

\* The tags are written, the rest of the pass is still to come.
LEMMA TagsDone ==
  ASSUME Sound, SyncOnTrack, pc \in {"tag", "untag"},
         UNCHANGED <<cr, mode, desired, outcome, next>>,
         Live(cr.res.id)', SettingsOf(cr.res.id)' <=> SettingsOf(cr.res.id),
         \A k \in Keys \ AwsKeys : pools'[cr.res.id].tags[k] = WantedTag(k),
         AfterTags(next, desired, latest)
  PROVE  SyncOnTrack' /\ (InLine => InLine')
<1>1. TagsInLine'
  BY WantedStays DEF TagsInLine
<1>2. CopyIsWhole' /\ Acceptable'
  BY AtWork DEF CopyIsWhole, Acceptable
<1> SUFFICES SyncOnTrack'
  BY <1>1 DEF InLine
<1>3. CASE next = "update"
  <2>1. pc' = "update"
    BY <1>3 DEF AfterTags
  <2>2. PlanHolds'
    BY <2>1, WantedStays, UpdatesOwn DEF PlanHolds
  <2>3. QED
    BY <1>2, <1>3, <2>1, <2>2, UpdatesOwn DEF SyncOnTrack
<1>4. CASE next = "done"
  <2>1. pc' = "patch" /\ latest' = OnSuccess(desired)
    BY <1>4 DEF AfterTags, Succeeds
  <2>2. InLine'
    BY <1>1, <1>4, UpdatesOwn DEF InLine
  <2>3. latest'.cfg = desired'.cfg /\ latest'.userPoolTags = NoTags
    BY <2>1, AtWork, AnswerParts
  <2>4. QED
    BY <1>2, <2>1, <2>2, <2>3 DEF SyncOnTrack
<1>5. QED
  BY <1>3, <1>4, UpdatesOwn

LEMMA SyncTagged ==
  ASSUME Sound, SyncOnTrack, TagOk
  PROVE  SyncOnTrack' /\ (InLine => InLine')
<1> DEFINE p == cr.res.id
           held == pools[p].tags
           t == TagResource(held, add)
<1>1. /\ pc = "tag" /\ latest.id = p /\ desired.id = p /\ p \in PoolIds
      /\ Live(p)
  BY UpdatesOwn DEF TagOk
<1>2. /\ pools' = [pools EXCEPT ![p].tags = t]
      /\ UNCHANGED <<cr, mode, desired, outcome, next, add, del>>
      /\ \/ del # {} /\ pc' = "untag" /\ latest' = latest
         \/ del = {} /\ AfterTags(next, desired, latest)
  BY <1>1 DEF TagOk
<1>3. /\ \A k \in KeysOf(add) : add[k] = WantedTag(k)
      /\ \A k \in del : WantedTag(k) = Absent
      /\ del \cap AwsKeys = {}
      /\ \A k \in Keys \ (AwsKeys \union KeysOf(add) \union del) :
           held[k] = WantedTag(k)
  BY <1>1 DEF SyncOnTrack, PlanHolds
<1>4. \A k \in Keys : t[k] = IF k \in KeysOf(add) THEN WantedTag(k)
                             ELSE held[k]
  BY <1>3 DEF TagResource, KeysOf
<1> HIDE DEF t
<1>5. /\ pools'[p].tags = t /\ Live(p)'
      /\ SettingsOf(p)' <=> SettingsOf(p)
  BY <1>1, <1>2, TagsWritten DEF Sound
<1>6. CASE del # {} /\ pc' = "untag" /\ latest' = latest
  <2>1. \A k \in Keys \ (AwsKeys \union del) : t[k] = WantedTag(k)
    BY <1>3, <1>4
  <2>2. PlanHolds'
    <3>1. del \subseteq Keys
      BY DEF Sound, TypeOK
    <3>2. \A k \in Keys : WantedTag(k)' = WantedTag(k)
      BY <1>2, WantedStays
    <3>3. QED
      BY <1>1, <1>2, <1>3, <1>5, <1>6, <2>1, <3>1, <3>2 DEF PlanHolds
  <2>3. CopyIsWhole' /\ Acceptable'
    BY <1>1, <1>2, <1>6, AtWork DEF CopyIsWhole, Acceptable
  <2>4. InLine => InLine'
    BY <1>2, <1>4, <1>5, WantedStays DEF InLine, TagsInLine
  <2>5. QED
    BY <1>1, <1>2, <1>5, <1>6, <2>2, <2>3, <2>4, UpdatesOwn DEF SyncOnTrack
<1>7. CASE del = {} /\ AfterTags(next, desired, latest)
  <2>1. \A k \in Keys \ AwsKeys : t[k] = WantedTag(k)
    BY <1>3, <1>4, <1>7
  <2>2. QED
    BY <1>1, <1>2, <1>5, <1>7, <2>1, TagsDone
<1>8. QED
  BY <1>2, <1>6, <1>7

LEMMA SyncUntagged ==
  ASSUME Sound, SyncOnTrack, UntagOk
  PROVE  SyncOnTrack' /\ (InLine => InLine')
<1> DEFINE p == cr.res.id
           held == pools[p].tags
           t == UntagResource(held, del)
<1>1. /\ pc = "untag" /\ latest.id = p /\ p \in PoolIds /\ Live(p)
      /\ desired.id = p
  BY UpdatesOwn DEF UntagOk
<1>2. /\ pools' = [pools EXCEPT ![p].tags = t]
      /\ UNCHANGED <<cr, mode, desired, outcome, next>>
      /\ AfterTags(next, desired, latest)
  BY <1>1 DEF UntagOk
<1>3. /\ \A k \in del : WantedTag(k) = Absent
      /\ \A k \in Keys \ (AwsKeys \union del) : held[k] = WantedTag(k)
  BY <1>1 DEF SyncOnTrack, PlanHolds
<1>4. \A k \in Keys \ AwsKeys : t[k] = WantedTag(k)
  BY <1>3 DEF UntagResource
<1> HIDE DEF t
<1>5. /\ pools'[p].tags = t /\ Live(p)'
      /\ SettingsOf(p)' <=> SettingsOf(p)
  BY <1>1, <1>2, TagsWritten DEF Sound
<1>6. QED
  BY <1>1, <1>2, <1>4, <1>5, TagsDone

LEMMA SyncUpdates ==
  ASSUME Sound, SyncOnTrack, NEW r \in BOOLEAN, UpdateOk(r)
  PROVE  SyncOnTrack' /\ (InLine => InLine')
<1> DEFINE p == cr.res.id
           q == UpdatedPool(pools[p], desired, r)
<1>1. /\ pc = "update" /\ p \in PoolIds /\ Live(p) /\ desired.id = p
      /\ desired.userPoolTags = NoTags /\ desired.cfg = cr.res.cfg
      /\ desired \in Resources
  BY UpdatesOwn, AtWork DEF UpdateOk
<1>2. /\ pools' = [pools EXCEPT ![p] = q] /\ pc' = "patch"
      /\ UNCHANGED <<cr, mode, desired, outcome>>
      /\ latest' = OnSuccess(desired)
  BY <1>1 DEF UpdateOk, Succeeds
<1>3. /\ q.state = pools[p].state /\ q.tags = pools[p].tags
      /\ \A f \in Fields \cap UpdateRequestFields :
           cr.res.cfg[f] # Unset => q.cfg[f] = cr.res.cfg[f]
  BY <1>1, PoolParts, UpdatedPoolIs DEF Sound
<1> HIDE DEF q
<1>4. pools'[p] = q
  BY <1>1, <1>2 DEF Sound, TypeOK
<1>5. Live(p)' /\ SettingsOf(p)'
  BY <1>1, <1>2, <1>3, <1>4 DEF Live, SettingsOf
<1>6. \A k \in Keys \ AwsKeys : pools[p].tags[k] = WantedTag(k)
  BY <1>1 DEF SyncOnTrack, PlanHolds, KeysOf
<1>7. TagsInLine'
  BY <1>2, <1>3, <1>4, <1>6, WantedStays DEF TagsInLine
<1>8. InLine'
  BY <1>2, <1>5, <1>7 DEF InLine
<1>9. CopyIsWhole' /\ Acceptable'
  BY <1>1, <1>2, AtWork DEF CopyIsWhole, Acceptable
<1>10. latest'.cfg = desired'.cfg /\ latest'.userPoolTags = NoTags
  BY <1>1, <1>2, AnswerParts
<1>11. QED
  BY <1>2, <1>8, <1>9, <1>10 DEF SyncOnTrack

LEMMA PatchSpecWrites ==
  ASSUME TypeOK, PatchSpec
  PROVE  /\ cr'.present = cr.present /\ cr'.deleting = cr.deleting
         /\ cr'.res.id = cr.res.id
         /\ cr'.res.cfg = Merged(cr.res.cfg, desired.cfg, latest.cfg)
<1> DEFINE c == Merged(cr.res.cfg, desired.cfg, latest.cfg)
           t == Merged(cr.res.tags, FilterSystemTags(desired.tags),
                       FilterSystemTags(latest.tags))
           u == Merged(cr.res.userPoolTags, desired.userPoolTags,
                       latest.userPoolTags)
           r == [cr.res EXCEPT !.cfg = c, !.tags = t, !.userPoolTags = u]
<1>1. cr' = [cr EXCEPT !.res = r]
  BY DEF PatchSpec, TypeOK, CRs
<1> HIDE DEF c, t, u
<1>2. r.cfg = c
  BY CRParts DEF Resources
<1>3. cr'.res = r
  BY <1>1 DEF TypeOK, CRs
<1>4. QED
  BY <1>1, <1>2, <1>3, SpecWritten DEF c

\* The spec patch writes what a new pool got from the service, and nothing
\* when the pool was there already.
LEMMA SyncPatchesSpec ==
  ASSUME Sound, SyncOnTrack, PatchSpec
  PROVE  SyncOnTrack' /\ (InLine => InLine')
<1> DEFINE p == latest.id
<1>1. /\ pc = "patch" /\ pc' = "status" /\ UNCHANGED <<pools, inHand>>
  BY DEF PatchSpec
<1>2. /\ desired.userPoolTags = NoTags /\ desired.cfg = cr.res.cfg
      /\ latest.userPoolTags = NoTags /\ latest.tags = desired.tags
      /\ cr.res.userPoolTags = NoTags /\ Acceptable
      /\ Brings(p) \/ (InLine /\ latest.cfg = desired.cfg)
  <2>1. latest.tags = desired.tags
    BY <1>1 DEF Sound, TagsAgree, Returned
  <2>2. /\ desired.userPoolTags = NoTags /\ desired.cfg = cr.res.cfg
        /\ cr.res.userPoolTags = NoTags /\ Acceptable
    BY <1>1, AtWork DEF Acceptable
  <2>3. \/ Brings(p) /\ latest.userPoolTags = NoTags
        \/ InLine /\ latest.cfg = desired.cfg /\ latest.userPoolTags = NoTags
    BY <1>1 DEF SyncOnTrack, Brings
  <2>4. QED
    BY <2>1, <2>2, <2>3
<1>3. /\ cr.res.cfg \in [Fields -> FieldVals \union {Unset}]
      /\ cr.res.tags \in [Keys -> Vals \union {Absent, Nil}]
      /\ cr.res.userPoolTags \in [Keys -> Vals \union {Absent}]
  BY CRParts, ResourceParts DEF Sound, Configs, SpecTagMaps, TagMaps
<1>4. /\ cr'.present = cr.present /\ cr'.deleting = cr.deleting
      /\ cr'.res.id = cr.res.id /\ cr'.res.tags = cr.res.tags
      /\ cr'.res.userPoolTags = NoTags
      /\ cr'.res.cfg = Merged(cr.res.cfg, desired.cfg, latest.cfg)
  <2>1. cr'.res.tags = cr.res.tags
    <3>1. cr'.res.tags = Merged(cr.res.tags, FilterSystemTags(desired.tags),
                                FilterSystemTags(desired.tags))
      BY <1>2, PatchSpecTags DEF Sound
    <3>2. QED
      BY <1>3, <3>1 DEF Merged
  <2>2. cr'.res.userPoolTags = NoTags
    <3>1. cr'.res.userPoolTags = Merged(NoTags, NoTags, NoTags)
      BY <1>2, PatchSpecTags DEF Sound
    <3>2. QED
      BY <3>1 DEF Merged, NoTags
  <2>3. QED
    BY <2>1, <2>2, PatchSpecWrites DEF Sound
<1>5. CopyIsWhole'
  BY <1>1, <1>2, AtWork DEF CopyIsWhole, inHand
<1>6. CASE Brings(p)
  <2>1. /\ latest.cfg = MergeCreated(desired.cfg, pools[p].cfg)
        /\ pools[p].cfg = NewPool(desired).cfg
        /\ ~Live(cr.res.id) /\ Live(p)
    BY <1>1, <1>6 DEF Brings
  <2>2. \A f \in Fields :
          cr'.res.cfg[f] = IF f \in CreatedFields THEN pools[p].cfg[f]
                           ELSE cr.res.cfg[f]
    BY <1>2, <1>3, <1>4, <2>1 DEF Merged, MergeCreated
  <2>3. \A f \in Fields \cap CreatedFields :
          pools[p].cfg[f] = IF cr.res.cfg[f] = Unset THEN Defaults[f]
                            ELSE cr.res.cfg[f]
    BY <1>2, <2>1, NewPoolIs, FieldTables
  <2>4. SettingsOf(p)'
    BY <1>1, <2>2, FieldTables DEF SettingsOf, inHand
  <2>5. ~PayloadError(cr'.res.cfg, CreateRequestFields)
    <3>1. ~PayloadError(cr.res.cfg, CreateRequestFields)
      BY <1>2 DEF Acceptable
    <3>2. \A f \in Fields : cr'.res.cfg[f] \in WideVals
                              => cr.res.cfg[f] \in WideVals
      BY <2>2, <2>3, ReconcileAssumption
    <3>3. QED
      BY <3>1, <3>2 DEF PayloadError
  <2>6. Acceptable'
    BY <1>2, <1>4, <2>5 DEF Acceptable
  <2>7. Brings(latest.id)'
    BY <1>1, <1>4, <2>1, <2>4 DEF Brings, Live, inHand
  <2>8. ~InLine
    BY <2>1 DEF InLine
  <2>9. QED
    BY <1>1, <1>5, <2>6, <2>7, <2>8 DEF SyncOnTrack
<1>7. CASE InLine /\ latest.cfg = desired.cfg
  <2>1. cr'.res.cfg = cr.res.cfg
    BY <1>3, <1>4, <1>7 DEF Merged
  <2>2. Acceptable'
    BY <1>2, <1>4, <2>1 DEF Acceptable
  <2>3. InLine'
    BY <1>1, <1>4, <1>7, <2>1, WantedStays
       DEF InLine, Live, TagsInLine, SettingsOf
  <2>4. QED
    BY <1>1, <1>5, <2>2, <2>3 DEF SyncOnTrack
<1>8. QED
  BY <1>2, <1>6, <1>7

LEMMA PatchStatusWrites ==
  ASSUME TypeOK, PatchStatus, cr.present
  PROVE  /\ cr'.present = cr.present /\ cr'.deleting = cr.deleting
         /\ cr'.res.id = IF latest.id = desired.id THEN cr.res.id
                         ELSE latest.id
         /\ cr'.res.cfg = cr.res.cfg /\ cr'.res.tags = cr.res.tags
         /\ cr'.res.userPoolTags = cr.res.userPoolTags
<1> DEFINE i == IF latest.id = desired.id THEN cr.res.id ELSE latest.id
           r == [cr.res EXCEPT !.id = i, !.conds = latest.conds]
<1>1. cr' = [cr EXCEPT !.res = r]
  BY DEF PatchStatus, TypeOK, CRs
<1> HIDE DEF i
<1>2. r.cfg = cr.res.cfg /\ r.id = i
  BY CRParts DEF Resources
<1>3. cr'.res = r /\ cr'.present = cr.present /\ cr'.deleting = cr.deleting
  BY <1>1 DEF TypeOK, CRs
<1>4. QED
  BY <1>2, <1>3, PatchStatusTags DEF i

\* The status patch leaves a pool in line where it is, and makes the CR name
\* the new pool.
LEMMA SyncEnds ==
  ASSUME Sound, SyncOnTrack, PatchStatus
  PROVE  /\ SyncOnTrack' /\ (InLine => InLine')
         /\ Live(cr.res.id)' /\ queued' /\ pc' = "idle"
<1>1. /\ pc = "status" /\ pc' = "idle" /\ cr.present
      /\ Acceptable /\ outcome = "none" /\ desired.id = cr.res.id
      /\ Brings(latest.id) \/ InLine
      /\ UNCHANGED pools
  BY AtWork DEF PatchStatus, Idle, SyncOnTrack, Acceptable
<1>2. /\ cr'.present = cr.present /\ cr'.deleting = cr.deleting
      /\ cr'.res.id = IF latest.id = desired.id THEN cr.res.id
                      ELSE latest.id
      /\ cr'.res.cfg = cr.res.cfg /\ cr'.res.tags = cr.res.tags
      /\ cr'.res.userPoolTags = cr.res.userPoolTags
  BY <1>1, PatchStatusWrites DEF Sound
<1>3. Acceptable'
  BY <1>1, <1>2 DEF Acceptable
<1>4. queued'
  BY <1>1, <1>2 DEF PatchStatus, PassIsOver, TerminalAWSError
<1>5. CASE Brings(latest.id)
  <2>1. ~Live(cr.res.id) /\ Live(latest.id)
    BY <1>5 DEF Brings
  <2>2. cr'.res.id = latest.id /\ UNCHANGED pools
    BY <1>1, <1>2, <2>1 DEF PatchStatus
  <2>3. Live(cr.res.id)' /\ ~InLine
    BY <2>1, <2>2 DEF Live, InLine
  <2>4. QED
    BY <1>1, <1>3, <1>4, <2>3 DEF SyncOnTrack
<1>6. CASE InLine
  <2>1. Live(cr.res.id)
    BY <1>6 DEF InLine
  <2>2. latest.id = desired.id
    BY <1>1, <2>1 DEF Sound, PassInvariant, LocationTells
  <2>3. cr'.res.id = cr.res.id /\ UNCHANGED pools
    BY <1>2, <2>2 DEF PatchStatus
  <2>4. InLine'
    BY <1>2, <1>6, <2>3, WantedStays
       DEF InLine, Live, TagsInLine, SettingsOf
  <2>5. QED
    BY <1>1, <1>3, <1>4, <2>4 DEF SyncOnTrack, InLine
<1>7. QED
  BY <1>1, <1>5, <1>6

\* A call on the way is not refused, and no pool it works on is missing.
LEMMA NothingRefused ==
  ASSUME Sound, SyncOnTrack
  PROVE  /\ pc = "manage" => cr.present
         /\ pc = "listtags" => Live(desired.id)
         /\ pc \in {"tag", "untag"} => Live(latest.id)
         /\ pc = "tag" => KeysOf(add) \cap AwsKeys = {}
         /\ pc = "update" => Live(desired.id)
         /\ pc \notin {"delete", "unmanage"}
         /\ ~CreateRefused /\ ~UpdateRefused
<1>1. cr.present /\ (pc = "listtags" => Live(desired.id))
      /\ pc \notin {"delete", "unmanage"}
  BY DEF SyncOnTrack, Acceptable
<1>2. /\ pc \in {"tag", "untag"} => Live(latest.id)
      /\ pc = "update" => Live(desired.id)
  BY UpdatesOwn
<1>3. pc = "tag" => KeysOf(add) \cap AwsKeys = {}
  BY DEF SyncOnTrack, PlanHolds
<1>4. ~CreateRefused /\ ~UpdateRefused
  <2>1. pc \in {"create", "update"} =>
          /\ ~PayloadError(desired.cfg, CreateRequestFields)
          /\ ~PayloadError(desired.cfg, UpdateRequestFields)
    BY AtWork, PayloadFits
  <2>2. QED
    BY <2>1 DEF CreateRefused, UpdateRefused
<1>5. QED
  BY <1>1, <1>2, <1>3, <1>4

LEMMA SyncKept ==
  ASSUME Sound, SyncOnTrack, [Next]_vars, Quiet
  PROVE  SyncOnTrack' /\ (InLine => InLine')
<1>1. QuietStep
  BY QuietSteps DEF Sound
<1>2. ~DeleteOk /\ ~Unmanage
  BY NothingRefused DEF DeleteOk, Unmanage
<1>3. \/ UNCHANGED vars
      \/ Start \/ DescribeNotFound \/ DescribeFound \/ ListTagsOk
      \/ Manage \/ \E p \in PoolIds : CreateOk(p)
      \/ TagOk \/ UntagOk \/ \E r \in BOOLEAN : UpdateOk(r)
      \/ PatchSpec \/ PatchStatus
  BY <1>1, <1>2, NothingRefused DEF QuietStep
<1>4. CASE UNCHANGED vars \/ Start \/ DescribeNotFound \/ DescribeFound
  BY <1>4, SyncStutters, SyncStarts, SyncNotFound, SyncFound
<1>5. CASE ListTagsOk \/ Manage \/ \E p \in PoolIds : CreateOk(p)
  BY <1>5, SyncPlans, SyncManages, SyncCreates
<1>6. CASE TagOk \/ UntagOk \/ \E r \in BOOLEAN : UpdateOk(r)
  BY <1>6, SyncTagged, SyncUntagged, SyncUpdates
<1>7. CASE PatchSpec \/ PatchStatus
  BY <1>7, SyncPatchesSpec, SyncEnds
<1>8. QED
  BY <1>3, <1>4, <1>5, <1>6, <1>7

-----------------------------------------------------------------------------
(* A deletion, step by step                                                *)

LEMMA DeletesAt ==
  ASSUME Sound, DeleteOnTrack, pc # "idle"
  PROVE  /\ desired.id = cr.res.id /\ mode = "delete" /\ ~queued
         /\ pc \in {"listtags", "delete"} => latest.id = cr.res.id
         /\ pc \in {"describe", "listtags", "delete", "unmanage", "status"}
BY DEF Sound, DeleteOnTrack, PassInvariant, CopyStillGood, LocationTells

LEMMA DeleteReads ==
  ASSUME Sound, DeleteOnTrack,
         Start \/ DescribeNotFound \/ DescribeFound \/ ListTagsOk
  PROVE  DeleteOnTrack'
<1>1. CASE Start
  BY <1>1 DEF Start, DeleteOnTrack
<1>2. CASE DescribeNotFound
  BY <1>2, DeletesAt DEF DescribeNotFound, DeleteOnTrack, inHand, request
<1>3. CASE DescribeFound
  BY <1>3, DeletesAt
     DEF DescribeFound, DeleteOnTrack, inHand, request, Live
<1>4. CASE ListTagsOk
  <2>1. /\ pc = "listtags" /\ pc' = "delete" /\ latest' = Observed
        /\ UNCHANGED <<cr, pools, mode, queued>> /\ Live(cr.res.id)
    BY <1>4, DeletesAt DEF ListTagsOk, request
  <2>2. latest'.id = cr.res.id
    BY <2>1, DeletesAt, ReadParts DEF Sound
  <2>3. QED
    BY <2>1, <2>2, DeletesAt DEF DeleteOnTrack, Live
<1>5. QED
  BY <1>1, <1>2, <1>3, <1>4

LEMMA DeleteKept ==
  ASSUME Sound, DeleteOnTrack, [Next]_vars, Quiet
  PROVE  DeleteOnTrack' \/ ~cr'.present
<1>1. QuietStep
  BY QuietSteps DEF Sound
<1>2. /\ pc \notin {"manage", "create", "tag", "untag", "update", "patch"}
      /\ pc = "listtags" => Live(desired.id)
      /\ pc = "delete" => Live(latest.id)
  BY DEF DeleteOnTrack
<1>3. /\ ~Manage /\ ~CreateRefused /\ \A p \in PoolIds : ~CreateOk(p)
      /\ ~TagOk /\ ~UntagOk /\ ~UpdateRefused
      /\ \A r \in BOOLEAN : ~UpdateOk(r)
      /\ ~PatchSpec
  BY <1>2 DEF Manage, CreateRefused, CreateOk, TagOk, UntagOk,
              UpdateRefused, UpdateOk, PatchSpec
<1>4. CASE UNCHANGED vars
  BY <1>4 DEF vars, inHand, request, DeleteOnTrack, Live, Protected
<1>5. CASE Start \/ DescribeNotFound \/ DescribeFound \/ ListTagsOk
  BY <1>5, DeleteReads
<1>6. CASE DeleteOk
  BY <1>6, DeletesAt DEF DeleteOk, DeleteOnTrack, inHand, request
<1>7. CASE Unmanage
  BY <1>7, EmptyCR DEF Unmanage
<1>8. CASE PatchStatus
  <2>1. pc' = "idle" /\ cr'.present /\ cr'.deleting
    BY <1>8, PatchStatusWrites
       DEF Sound, DeleteOnTrack, PatchStatus, Idle
  <2>2. QED
    BY <2>1 DEF DeleteOnTrack
<1>9. ASSUME pc = "delete", Protected(latest.id),
             Fails(latest, "InvalidParameterException"),
             UNCHANGED <<cr, pools, mode, request>>
      PROVE  DeleteOnTrack'
  <2>1. pc' = "status" /\ outcome' = "InvalidParameterException"
    BY <1>9 DEF Fails
  <2>2. Live(cr.res.id) /\ Protected(cr.res.id) /\ mode = "delete" /\ ~queued
    BY <1>2, <1>9, DeletesAt
  <2>3. QED
    BY <1>9, <2>1, <2>2
       DEF DeleteOnTrack, Live, Protected, TerminalAWSError, request
<1>10. QED
  BY <1>1, <1>2, <1>3, <1>4, <1>5, <1>6, <1>7, <1>8, <1>9 DEF QuietStep

-----------------------------------------------------------------------------

\* TagsAgree and OutcomeTold: what the worker holds in the middle of a pass.
LEMMA AlwaysSound == Spec => []Sound
<1>1. Init => TagsAgree /\ OutcomeTold
  BY DEF Init, TagsAgree, OutcomeTold, Returned
<1>2. TypeOK /\ TypeOK' /\ PassInvariant /\ TagsAgree /\ OutcomeTold
        /\ [Next]_vars => TagsAgree' /\ OutcomeTold'
  BY AgreeKept, OutcomeKept
<1>3. Sound <=> TypeOK /\ PassInvariant /\ TagsAgree /\ OutcomeTold
  BY DEF Sound
<1>4. QED
  BY <1>1, <1>2, <1>3, ReconcileTypeCorrect, ReconcileInvariant, PTL
     DEF Spec

\* UndisturbedPass: a pass that nobody disturbs does its job, whatever state
\* it finds the pool in, and a sync spoils nothing that is in line already.
THEOREM ReconcileUndisturbed == Spec => UndisturbedPass
<1>1. ASSUME Sound, [Next]_vars
      PROVE  [Quiet => /\ SyncOnTrack => SyncOnTrack' /\ (InLine => InLine')
                       /\ DeleteOnTrack
                            => DeleteOnTrack' \/ ~cr'.present]_vars
  BY <1>1, SyncKept, DeleteKept
<1>2. Sound /\ [Next]_vars
        => [Quiet => /\ SyncOnTrack => SyncOnTrack' /\ (InLine => InLine')
                     /\ DeleteOnTrack => DeleteOnTrack' \/ ~cr'.present]_vars
  BY <1>1
<1>3. QED
  BY <1>2, AlwaysSound, PTL DEF Spec, UndisturbedPass

-----------------------------------------------------------------------------
(* A pass comes to its end                                                 *)

\* The next call of a pass, from each call.
LEMMA PassMoves ==
  ASSUME TypeOK, [Next]_vars, pc # "idle"
  PROVE  \/ pc' = pc
         \/ pc' = "idle"
         \/ pc' = "status" /\ pc \notin {"status", "unmanage"}
         \/ pc = "describe" /\ pc' \in {"listtags", "manage", "create",
                                        "unmanage"}
         \/ pc = "listtags" /\ pc' \in {"tag", "untag", "update", "patch",
                                        "delete"}
         \/ pc = "manage" /\ pc' = "create"
         \/ pc \in {"create", "update"} /\ pc' = "patch"
         \/ pc = "tag" /\ pc' \in {"untag", "update", "patch"}
         \/ pc = "untag" /\ pc' \in {"update", "patch"}
         \/ pc = "delete" /\ pc' = "unmanage"
<1>1. CASE UNCHANGED <<pc, inHand>> \/ Idle
  BY <1>1 DEF Idle
<1>2. CASE Start \/ Manage \/ DescribeNotFound \/ DescribeFound
  BY <1>2 DEF Start, Manage, DescribeNotFound, DescribeFound
<1>3. CASE \E err \in Errors : CallFails(err)
  BY <1>3 DEF CallFails, Fails
<1>4. CASE ListTagsOk
  <2>1. pc = "listtags"
    BY <1>4 DEF ListTagsOk
  <2>2. QED
    BY <1>4, <2>1, ListTagsHolds
<1>5. ASSUME NEW p \in PoolIds, CreateOk(p)
      PROVE  pc = "create" /\ pc' = "patch"
  BY <1>5, CreateGoesOn DEF CreateOk
<1>6. CASE TagOk \/ UntagOk
  BY <1>6 DEF TagOk, UntagOk, AfterTags, Succeeds, TypeOK
<1>7. CASE \E r \in BOOLEAN : UpdateOk(r)
  BY <1>7 DEF UpdateOk, Succeeds
<1>8. CASE PatchSpec \/ PatchSpecFails \/ DeleteOk
  BY <1>8 DEF PatchSpec, PatchSpecFails, DeleteOk
<1>9. QED
  BY <1>1, <1>2, <1>3, <1>4, <1>5, <1>6, <1>7, <1>8, StepKinds

LEMMA CallsLeftFall ==
  ASSUME TypeOK, [Next]_vars, pc # "idle", pc' # pc
  PROVE  CallsLeft[pc'] < CallsLeft[pc]
BY PassMoves DEF CallsLeft, TypeOK, Locations

\* PassesAdvance: no pass turns in a circle, whatever moves around it.
THEOREM ReconcileAdvances == Spec => PassesAdvance
<1>1. ASSUME TypeOK, [Next]_vars, pc # "idle", pc' # pc
      PROVE  CallsLeft[pc'] < CallsLeft[pc]
  BY <1>1, CallsLeftFall
<1>2. TypeOK /\ [Next]_vars
        => [pc # "idle" /\ pc' # pc => CallsLeft[pc'] < CallsLeft[pc]]_vars
  BY <1>1
<1>3. QED
  BY <1>2, ReconcileTypeCorrect, PTL DEF Spec, PassesAdvance

\* Every action of the controller takes the worker on.
LEMMA ControllerMovesOn ==
  ASSUME TypeOK, Controller
  PROVE  pc' # pc
<1>1. CASE Start
  BY <1>1 DEF Start
<1>2. CASE ReadOne
  <2>1. CASE ListTagsOk
    <3>1. pc = "listtags"
      BY <2>1 DEF ListTagsOk
    <3>2. QED
      BY <2>1, <3>1, ListTagsHolds
  <2>2. CASE ~ListTagsOk
    BY <1>2, <2>2 DEF ReadOne, DescribeNotFound, DescribeFound,
                      DescribeFails, ListTagsFails, Fails
  <2>3. QED
    BY <2>1, <2>2
<1>3. CASE Create
  <2>1. ASSUME NEW p \in PoolIds, CreateOk(p)
        PROVE  pc' # pc
    BY <2>1, CreateGoesOn DEF CreateOk
  <2>2. QED
    BY <1>3, <2>1 DEF Create, Manage, ManageFails, CreateRefused,
                      CreateAnswerLost, CreateFails, Fails, Idle
<1>4. CASE Update
  <2>1. CASE TagOk \/ UntagOk
    BY <2>1 DEF TagOk, UntagOk, AfterTags, Succeeds, TypeOK
  <2>2. CASE ~TagOk /\ ~UntagOk
    BY <1>4, <2>2
       DEF Update, TagAnswerLost, UpdateRefused, UpdateOk, UpdateAnswerLost,
           TagFails, UntagFails, UpdateFails, SyncTagsFails, Fails, Succeeds
  <2>3. QED
    BY <2>1, <2>2
<1>5. CASE Patch
  BY <1>5 DEF Patch, PatchSpec, PatchSpecFails, PatchStatus,
              PatchStatusFails, Idle
<1>6. CASE Delete
  BY <1>6 DEF Delete, DeleteOk, DeleteAnswerLost, Unmanage, UnmanageFails,
              DeleteFails, Fails, Idle
<1>7. QED
  BY <1>1, <1>2, <1>3, <1>4, <1>5, <1>6 DEF Controller

\* A quiet step that is not the controller's is none.
LEMMA QuietIsController ==
  ASSUME TypeOK, [Next]_vars, Quiet
  PROVE  Controller \/ UNCHANGED vars
<1>1. ~OneFault /\ ~Fault /\ ~UserStep
  BY ReconcileAssumption DEF OneFault, Fault, UserStep, TypeOK, Quiet
<1>2. ~User /\ ~Service /\ ~Crash
  BY <1>1 DEF User, UserCreates, UserEdits, UserDeletes, Service,
              PoolRemoved, TagDrifts, Crash
<1>3. QED
  BY <1>2 DEF Next, Stopped

-----------------------------------------------------------------------------
(* Passes that follow each other                                           *)

\* From some moment on nothing but the controller moves, and it does move.
QuietRun ==
  []Sound /\ [][Next]_vars /\ [][Quiet]_vars /\ KeepsWorking

Left(n) == CallsLeft[pc] = n

\* The worker comes to rest again and again, since CallsLeft falls.
LEMMA PassesEnd == QuietRun => []<>(pc = "idle")
<1>1. Sound => \/ Left(0) \/ Left(1) \/ Left(2) \/ Left(3) \/ Left(4)
               \/ Left(5) \/ Left(6) \/ Left(7)
  BY DEF Sound, TypeOK, Locations, CallsLeft, Left
<1>2. Sound /\ Left(0) => pc = "idle"
  BY DEF Sound, TypeOK, Locations, CallsLeft, Left
<1>3. ~Busy => Left(0)
  BY DEF Busy, CallsLeft, Left
<1>4. Sound /\ Sound' /\ [Next]_vars /\ <<Controller>>_vars =>
        /\ Left(1) => Left(0)'
        /\ Left(2) => Left(0)' \/ Left(1)'
        /\ Left(3) => Left(0)' \/ Left(1)' \/ Left(2)'
        /\ Left(4) => Left(0)' \/ Left(1)' \/ Left(2)' \/ Left(3)'
        /\ Left(5) => Left(0)' \/ Left(1)' \/ Left(2)' \/ Left(3)' \/ Left(4)'
        /\ Left(6) => \/ Left(0)' \/ Left(1)' \/ Left(2)' \/ Left(3)'
                      \/ Left(4)' \/ Left(5)'
        /\ Left(7) => \/ Left(0)' \/ Left(1)' \/ Left(2)' \/ Left(3)'
                      \/ Left(4)' \/ Left(5)' \/ Left(6)'
  <2> SUFFICES ASSUME Sound, Sound', [Next]_vars, Controller,
                      pc # "idle"
               PROVE  /\ CallsLeft[pc'] < CallsLeft[pc]
                      /\ CallsLeft[pc'] \in 0..7
    BY DEF Left, CallsLeft
  <2>1. CallsLeft[pc'] < CallsLeft[pc]
    BY CallsLeftFall, ControllerMovesOn DEF Sound
  <2>2. CallsLeft[pc'] \in 0..7
    BY DEF Sound, TypeOK, Locations, CallsLeft
  <2>3. QED
    BY <2>1, <2>2
<1>5. Sound /\ [Next]_vars /\ [Quiet]_vars /\ ~<<Controller>>_vars =>
        /\ Left(1) => Left(1)'
        /\ Left(2) => Left(2)'
        /\ Left(3) => Left(3)'
        /\ Left(4) => Left(4)'
        /\ Left(5) => Left(5)'
        /\ Left(6) => Left(6)'
        /\ Left(7) => Left(7)'
  <2> SUFFICES ASSUME Sound, [Next]_vars, [Quiet]_vars,
                      ~<<Controller>>_vars
               PROVE  UNCHANGED pc
    BY DEF Left
  <2>1. QED
    BY QuietIsController DEF Sound, Quiet, vars
<1>6. QED
  BY <1>1, <1>2, <1>3, <1>4, <1>5, PTL DEF QuietRun, KeepsWorking

\* Live(cr.res.id) is kept by a sync: its calls spare the pool, and the CR
\* goes on naming it.
LEMMA OwnStays ==
  ASSUME Sound, SyncOnTrack, [Next]_vars, Quiet, Live(cr.res.id)
  PROVE  Live(cr.res.id)'
<1> DEFINE p == cr.res.id
<1>1. QuietStep
  BY QuietSteps DEF Sound
<1>2. ~Fault /\ ~UserStep /\ faults' = faults
  BY ReconcileAssumption
     DEF OneFault, Fault, UserStep, Sound, TypeOK, Quiet
<1>3. ~DeleteOk /\ ~Unmanage
  BY NothingRefused DEF DeleteOk, Unmanage
<1>4. p \in PoolIds /\ pools[p].state = "live"
  BY DEF Live
<1>5. pools'[p].state = "live"
  <2>1. ASSUME NEW q \in PoolIds, CreateOk(q)
        PROVE  pools'[p].state = "live"
    BY <1>4, <2>1, NewPoolLives DEF CreateOk, Sound
  <2>2. ASSUME NEW t, pools' = [pools EXCEPT ![p].tags = t]
        PROVE  pools'[p].state = "live"
    BY <1>4, <2>2, TagsKeepStates DEF Sound
  <2>6. CASE TagOk
    <3>1. pools' = [pools EXCEPT ![p].tags = TagResource(pools[p].tags, add)]
      BY <2>6, UpdatesOwn DEF TagOk
    <3>2. QED
      BY <2>2, <3>1
  <2>7. CASE UntagOk
    <3>1. pools' = [pools EXCEPT ![p].tags = UntagResource(pools[p].tags, del)]
      BY <2>7, UpdatesOwn DEF UntagOk
    <3>2. QED
      BY <2>2, <3>1
  <2>3. ASSUME NEW r \in BOOLEAN, UpdateOk(r)
        PROVE  pools'[p].state = "live"
    BY <1>4, <2>3, UpdateKeepsStates, UpdatesOwn DEF UpdateOk, Sound
  <2>4. CASE pools' = pools
    BY <1>4, <2>4
  <2>5. QED
    BY <1>2, <1>3, <2>1, <2>3, <2>4, <2>6, <2>7, WhoWritesThePools
       DEF Sound
<1>6. cr'.res.id = p
  <2>1. CASE Manage
    BY <2>1 DEF Manage, Sound, TypeOK, CRs
  <2>2. CASE PatchSpec
    BY <2>2, PatchSpecWrites DEF Sound
  <2>3. CASE PatchStatus
    <3>1. /\ pc = "status" /\ cr.present /\ desired.id = p
          /\ latest.id = desired.id
      BY <2>3, AtWork
         DEF PatchStatus, Sound, PassInvariant, LocationTells, Acceptable
    <3>2. QED
      BY <2>3, <3>1, PatchStatusWrites DEF Sound
  <2>4. CASE cr' = cr
    BY <2>4
  <2>5. QED
    BY <1>2, <1>3, <2>1, <2>2, <2>3, <2>4, WhoWritesTheCR
       DEF Sound, UserCreates, UserEdits, UserDeletes
<1>7. QED
  BY <1>4, <1>5, <1>6 DEF Live

\* Only a spec patch can make a CR acceptable, and it ends the pass.
LEMMA AcceptableBecause ==
  ASSUME Sound, [Next]_vars, Quiet
  PROVE  /\ ~Acceptable /\ Acceptable' => pc' = "status"
         /\ Acceptable /\ pc = "status" => Acceptable'
<1>1. ~UserStep
  BY ReconcileAssumption DEF UserStep, Sound, TypeOK, Quiet, aux
<1>2. CASE cr' = cr
  BY <1>2 DEF Acceptable
<1>3. CASE Manage
  <2>1. /\ cr'.res = cr.res /\ cr'.present = cr.present
        /\ cr'.deleting = cr.deleting
    BY <1>3 DEF Manage, Sound, TypeOK, CRs
  <2>2. QED
    BY <2>1 DEF Acceptable
<1>4. CASE PatchSpec
  BY <1>4 DEF PatchSpec
<1>5. CASE PatchStatus /\ cr.present
  <2>1. /\ cr'.present = cr.present /\ cr'.deleting = cr.deleting
        /\ cr'.res.cfg = cr.res.cfg /\ cr'.res.tags = cr.res.tags
        /\ cr'.res.userPoolTags = cr.res.userPoolTags
    BY <1>5, PatchStatusWrites DEF Sound
  <2>2. QED
    BY <2>1 DEF Acceptable
<1>6. CASE PatchStatus /\ ~cr.present
  BY <1>2, <1>6 DEF PatchStatus
<1>7. CASE Unmanage
  BY <1>7, EmptyCR DEF Unmanage, Acceptable
<1>8. QED
  BY <1>1, <1>2, <1>3, <1>4, <1>5, <1>6, <1>7, WhoWritesTheCR
     DEF Sound, UserCreates, UserEdits, UserDeletes

-----------------------------------------------------------------------------
(* The pool gets in line                                                   *)

AtIdle == pc = "idle"
AtEnd == pc = "status"
Asked == queued
Owns == Live(cr.res.id)

\* The worker reaches the end of a sync by a patch or with nothing to do, and
\* goes from there to idle only.
LEMMA EndsOnce ==
  ASSUME TypeOK, [Next]_vars, Quiet
  PROVE  /\ pc = "status" => pc' = "status" \/ (pc' = "idle" /\ PatchStatus)
         /\ pc = "idle" => (pc' = "idle" /\ queued' = queued) \/ Start
<1>1. QuietStep
  BY QuietSteps
<1>2. ASSUME NEW p \in PoolIds, CreateOk(p)
      PROVE  pc = "create"
  BY <1>2 DEF CreateOk
<1>3. ASSUME NEW r \in BOOLEAN, UpdateOk(r)
      PROVE  pc = "update"
  BY <1>3 DEF UpdateOk
<1>4. \/ UNCHANGED vars \/ Start \/ pc \notin {"idle", "status"}
      \/ PatchStatus
  BY <1>1, <1>2, <1>3
     DEF QuietStep, DescribeNotFound, DescribeFound, ListTagsOk, Manage,
         CreateRefused, TagOk, UntagOk, UpdateRefused, PatchSpec, DeleteOk,
         Unmanage
<1>5. QED
  BY <1>4 DEF vars, request, Start, PatchStatus, Idle

\* A sync on track does not break off.
LEMMA SyncGoesOn ==
  ASSUME Sound, SyncOnTrack, [Next]_vars, Quiet,
         pc \notin {"idle", "status"}
  PROVE  pc' # "idle"
<1>1. QuietStep
  BY QuietSteps DEF Sound
<1>2. ASSUME NEW p \in PoolIds, CreateOk(p)
      PROVE  pc' # "idle"
  BY <1>2, CreateGoesOn DEF CreateOk, Sound
<1>3. CASE ListTagsOk
  BY <1>3, ListTagsHolds DEF ListTagsOk, Sound
<1>4. CASE TagOk \/ UntagOk
  BY <1>4 DEF TagOk, UntagOk, AfterTags, Succeeds, Sound, TypeOK
<1>5. ASSUME NEW r \in BOOLEAN, UpdateOk(r)
      PROVE  pc' # "idle"
  BY <1>5 DEF UpdateOk, Succeeds
<1>6. QED
  BY <1>1, <1>2, <1>3, <1>4, <1>5, NothingRefused
     DEF QuietStep, vars, Start, DescribeNotFound, DescribeFound, Manage,
         PatchSpec, PatchStatus, DeleteOk, Unmanage

\* What a quiet step does to a sync.
LEMMA SyncMoves ==
  ASSUME Sound, [Next]_vars, [Quiet]_vars
  PROVE  /\ SyncOnTrack => SyncOnTrack'
         /\ SyncOnTrack /\ InLine => InLine'
         /\ SyncOnTrack /\ Owns => Owns'
         /\ SyncOnTrack /\ ~AtIdle /\ ~AtEnd => ~AtIdle'
         /\ SyncOnTrack /\ AtEnd => AtEnd' \/ (AtIdle' /\ Asked' /\ Owns')
         /\ AtEnd => AtEnd' \/ AtIdle'
         /\ AtIdle /\ AtIdle' => (Asked' <=> Asked)
         /\ AtIdle /\ ~Asked => AtIdle'
         /\ ~Acceptable /\ Acceptable' => AtEnd'
         /\ Acceptable /\ AtEnd => Acceptable'
<1>1. Quiet
  BY DEF Quiet, vars, aux
<1>2. /\ SyncOnTrack => SyncOnTrack'
      /\ SyncOnTrack /\ InLine => InLine'
  BY <1>1, SyncKept
<1>3. SyncOnTrack /\ Owns => Owns'
  BY <1>1, OwnStays DEF Owns
<1>4. SyncOnTrack /\ ~AtIdle /\ ~AtEnd => ~AtIdle'
  BY <1>1, SyncGoesOn DEF AtIdle, AtEnd
<1>5. SyncOnTrack /\ AtEnd => AtEnd' \/ (AtIdle' /\ Asked' /\ Owns')
  BY <1>1, EndsOnce, SyncEnds DEF Sound, AtIdle, AtEnd, Asked, Owns
<1>6. /\ AtEnd => AtEnd' \/ AtIdle'
      /\ AtIdle /\ ~Asked => AtIdle'
  BY <1>1, EndsOnce DEF Sound, AtIdle, AtEnd, Asked, Start
<1>7. AtIdle /\ AtIdle' => (Asked' <=> Asked)
  BY <1>1, EndsOnce DEF Sound, AtIdle, Asked, Start
<1>8. /\ ~Acceptable /\ Acceptable' => AtEnd'
      /\ Acceptable /\ AtEnd => Acceptable'
  BY <1>1, AcceptableBecause DEF AtEnd
<1>9. QED
  BY <1>2, <1>3, <1>4, <1>5, <1>6, <1>7, <1>8

\* What its place tells of a sync.
LEMMA SyncStands ==
  ASSUME Sound
  PROVE  /\ ~(AtIdle /\ AtEnd)
         /\ SyncOnTrack => Acceptable
         /\ Acceptable /\ AtIdle => SyncOnTrack
         /\ SyncOnTrack /\ AtEnd /\ Owns => InLine
         /\ SyncOnTrack /\ ~Busy => AtIdle /\ ~Asked
<1>1. SyncOnTrack => Acceptable
  BY DEF SyncOnTrack
<1>2. Acceptable /\ AtIdle => SyncOnTrack
  BY DEF SyncOnTrack, AtIdle
<1>3. SyncOnTrack /\ AtEnd /\ Owns => InLine
  BY DEF SyncOnTrack, AtEnd, Owns, Brings
<1>4. SyncOnTrack /\ ~Busy => AtIdle /\ ~Asked
  BY <1>1 DEF Acceptable, Busy, AtIdle, Asked
<1>5. QED
  BY <1>1, <1>2, <1>3, <1>4 DEF AtIdle, AtEnd

\* Passes follow each other until the pool is in line, and then it stays so.
LEMMA QuietConverges ==
  QuietRun => <>[](Acceptable => InLine \/ (AtIdle /\ ~Asked))
<1>1. Sound /\ [Next]_vars /\ [Quiet]_vars =>
        /\ SyncOnTrack => SyncOnTrack'
        /\ SyncOnTrack /\ InLine => InLine'
        /\ SyncOnTrack /\ Owns => Owns'
        /\ SyncOnTrack /\ ~AtIdle /\ ~AtEnd => ~AtIdle'
        /\ SyncOnTrack /\ AtEnd => AtEnd' \/ (AtIdle' /\ Asked' /\ Owns')
        /\ AtEnd => AtEnd' \/ AtIdle'
        /\ AtIdle /\ AtIdle' => (Asked' <=> Asked)
        /\ AtIdle /\ ~Asked => AtIdle'
        /\ ~Acceptable /\ Acceptable' => AtEnd'
        /\ Acceptable /\ AtEnd => Acceptable'
  BY SyncMoves
<1>2. Sound =>
        /\ ~(AtIdle /\ AtEnd)
        /\ SyncOnTrack => Acceptable
        /\ Acceptable /\ AtIdle => SyncOnTrack
        /\ SyncOnTrack /\ AtEnd /\ Owns => InLine
        /\ SyncOnTrack /\ ~Busy => AtIdle /\ ~Asked
  BY SyncStands
<1>3. Sound /\ <<Controller>>_vars /\ AtIdle => ~AtIdle'
  BY ControllerMovesOn DEF Sound, AtIdle
<1>4. QuietRun => []<>AtIdle
  BY PassesEnd DEF AtIdle
<1>5. QED
  BY <1>1, <1>2, <1>3, <1>4, PTL DEF QuietRun, KeepsWorking

\* A sync converges: once users, service and faults have come to rest and the
\* worker keeps working, the pool has, and keeps, every setting the user can
\* change and exactly the wanted tags, whatever outage, crash, drift, half-done
\* tag update or removal of the pool came before.
THEOREM ReconcileConverges ==
  Spec /\ ComesToRest /\ KeepsWorking => Converges
<1>1. InLine => Live(cr.res.id) /\ TagsInLine /\ SettingsInLine
  BY DEF InLine, SettingsOf, SettingsInLine
<1>2. AtIdle /\ ~Asked <=> GivenUp
  BY DEF AtIdle, Asked, GivenUp
<1>3. QED
  BY <1>1, <1>2, AlwaysSound, QuietConverges, PTL
     DEF Spec, ComesToRest, QuietRun, KeepsWorking, Converges

-----------------------------------------------------------------------------
(* A deletion ends                                                         *)

\* A step around a pass: the service's, or none.
LEMMA RefusalStands ==
  ASSUME Sound, RefusalsAreEarned,
         UNCHANGED <<cr, pc, inHand, queued, refused>>,
         Live(cr.res.id)' => /\ Live(cr.res.id)
                             /\ pools'[cr.res.id].cfg = pools[cr.res.id].cfg
  PROVE  RefusalsAreEarned'
BY DEF RefusalsAreEarned, KeptByRefusal, inHand, Live, Protected

\* The calls of a deletion.
LEMMA RefusalRead ==
  ASSUME Sound, RefusalsAreEarned, cr.deleting, ~queued,
         \/ DescribeNotFound \/ DescribeFound \/ ListTagsOk \/ DeleteOk
         \/ \E err \in Errors : DescribeFails(err) \/ ListTagsFails(err)
         \/ DeleteAnswerLost \/ \E err \in Errors : DeleteFails(err)
  PROVE  RefusalsAreEarned'
<1>1. pc # "idle"
  BY DEF DescribeNotFound, DescribeFound, ListTagsOk, DescribeFails,
         ListTagsFails, DeleteOk, DeleteFails, DeleteAnswerLost
<1>2. /\ mode = "delete" /\ desired.id = cr.res.id
      /\ pc \in {"listtags", "delete"} => latest.id = cr.res.id
      /\ desired \in Resources /\ latest \in Resources
  BY <1>1 DEF RefusalsAreEarned, Sound, TypeOK, PassInvariant, CopyStillGood,
              LocationTells
<1>3. CASE DescribeNotFound \/ DescribeFound \/ ListTagsOk \/ DeleteOk
  <2>1. /\ pc' \in {"listtags", "delete", "unmanage"} /\ mode' = "delete"
        /\ UNCHANGED <<cr, queued>>
    BY <1>2, <1>3 DEF DescribeNotFound, DescribeFound, ListTagsOk, DeleteOk,
                      inHand, request
  <2>2. QED
    BY <2>1 DEF RefusalsAreEarned
<1>4. ASSUME NEW err \in Errors, pc' = "status", mode' = "delete",
             outcome' = err, UNCHANGED <<cr, desired, queued>>,
             latest'.id = cr.res.id,
             TerminalAWSError(err) => KeptByRefusal'
      PROVE  RefusalsAreEarned'
  BY <1>2, <1>4 DEF RefusalsAreEarned
<1>5. ASSUME NEW err \in Errors, DescribeFails(err) \/ ListTagsFails(err)
      PROVE  RefusalsAreEarned'
  <2>1. /\ pc' = "status" /\ outcome' = err
        /\ latest' = OnError(desired, err)
        /\ UNCHANGED <<cr, mode, desired, queued, pools>>
        /\ \/ err = "other"
           \/ err = "ResourceNotFoundException" /\ ~Live(desired.id)
           \/ refused'
    BY <1>2, <1>5 DEF DescribeFails, ListTagsFails, Fails, Outage, NotTaken,
                      NotThere, request
  <2>2. latest'.id = cr.res.id
    BY <1>2, <2>1, AnswerIds
  <2>3. QED
    BY <1>2, <1>4, <2>1, <2>2 DEF TerminalAWSError, KeptByRefusal, Live
<1>6. CASE DeleteAnswerLost
  <2>1. /\ pc = "delete" /\ pc' = "status" /\ outcome' = "other"
        /\ latest' = OnError(latest, "other")
        /\ UNCHANGED <<cr, mode, desired, queued>>
    BY <1>6 DEF DeleteAnswerLost, Fails, request
  <2>2. latest'.id = cr.res.id
    BY <1>2, <2>1, AnswerIds DEF Errors
  <2>3. QED
    BY <1>2, <1>4, <2>1, <2>2 DEF TerminalAWSError, Errors
<1>7. ASSUME NEW err \in Errors, DeleteFails(err)
      PROVE  RefusalsAreEarned'
  <2>1. /\ pc = "delete" /\ pc' = "status" /\ outcome' = err
        /\ latest' = OnError(latest, err)
        /\ UNCHANGED <<cr, mode, desired, queued, pools>>
        /\ \/ err = "other"
           \/ err = "ResourceNotFoundException" /\ ~Live(latest.id)
           \/ Live(latest.id) /\ Protected(latest.id)
           \/ refused'
    BY <1>2, <1>7 DEF DeleteFails, Fails, Outage, NotTaken, NotThere,
                      request
  <2>2. latest'.id = cr.res.id
    BY <1>2, <2>1, AnswerIds
  <2>3. Live(cr.res.id)' => Live(cr.res.id)
    BY <2>1 DEF Live
  <2>4. QED
    BY <1>2, <1>4, <2>1, <2>2, <2>3
       DEF TerminalAWSError, KeptByRefusal, Live, Protected
<1>8. QED
  BY <1>3, <1>5, <1>6, <1>7

\* The end of a pass: a refusal is told, and nobody works on it any more.
LEMMA RefusalTold ==
  ASSUME Sound, RefusalsAreEarned, PatchStatus \/ PatchStatusFails
  PROVE  RefusalsAreEarned'
<1> SUFFICES ASSUME cr'.deleting, ~queued'
             PROVE  pc' = "idle" /\ KeptByRefusal'
  BY DEF RefusalsAreEarned
<1>1. /\ pc = "status" /\ pc' = "idle" /\ PassIsOver
      /\ UNCHANGED <<pools, refused>>
  BY DEF PatchStatus, PatchStatusFails, Idle, Fault, aux
<1>2. cr'.deleting = cr.deleting
  BY PatchStatusWrites DEF PatchStatus, PatchStatusFails, Sound
<1>3. cr.present
  BY <1>2 DEF Sound, PassInvariant, CRShape
<1>4. TerminalAWSError(outcome) /\ ~queued
  BY <1>1, <1>3 DEF PassIsOver
<1>5. latest.id = desired.id /\ KeptByRefusal
  BY <1>1, <1>2, <1>4 DEF RefusalsAreEarned
<1>6. cr'.res.id = cr.res.id
  BY <1>3, <1>5, PatchStatusWrites DEF PatchStatusFails, Sound
<1>7. QED
  BY <1>1, <1>5, <1>6 DEF KeptByRefusal, Live, Protected

\* The other steps either set off a pass or leave the request as it is.
LEMMA RefusalKept ==
  ASSUME Sound, Sound', RefusalsAreEarned, [Next]_vars
  PROVE  RefusalsAreEarned'
<1>1. CASE User \/ Crash \/ ManageFails \/ UnmanageFails \/ Unmanage
  <2> SUFFICES ASSUME cr'.deleting PROVE queued'
    BY DEF RefusalsAreEarned
  <2>1. cr'.present /\ cr'.managed
    BY DEF Sound, PassInvariant, CRShape
  <2>2. QED
    BY <1>1, <2>1, EmptyCR, CRFields
       DEF User, UserCreates, UserEdits, UserDeletes, Crash, ManageFails,
           UnmanageFails, Unmanage, NewCR, Sound
<1>2. CASE Start
  BY <1>2 DEF Start, RefusalsAreEarned
<1>3. CASE Stopped \/ UNCHANGED vars
  BY <1>3, RefusalStands DEF Stopped, vars, aux, request, Live
<1>4. CASE Service
  <2>1. PICK p \in PoolIds :
          \/ PoolRemoved(p)
          \/ \E k \in Keys, v \in Vals \union {Absent} : TagDrifts(p, k, v)
    BY <1>4 DEF Service
  <2>2. CASE PoolRemoved(p)
    <3>1. /\ pools' = [pools EXCEPT ![p] = PoolGone]
          /\ UNCHANGED <<cr, pc, inHand, queued, refused>>
      BY <2>2 DEF PoolRemoved, Fault, request
    <3>2. Live(cr.res.id)' => /\ Live(cr.res.id) /\ cr.res.id # p
      BY <3>1 DEF Live, PoolGone, NoPoolYet, Sound, TypeOK
    <3>3. QED
      BY <3>1, <3>2, RefusalStands DEF Sound, TypeOK, Live
  <2>3. ASSUME NEW k \in Keys, NEW v \in Vals \union {Absent},
               TagDrifts(p, k, v)
        PROVE  RefusalsAreEarned'
    <3> DEFINE t == [pools[p].tags EXCEPT ![k] = v]
    <3>1. /\ pools' = [pools EXCEPT ![p].tags = t]
          /\ UNCHANGED <<cr, pc, inHand, queued, refused>>
      BY <2>3 DEF TagDrifts, Fault, request
    <3> HIDE DEF t
    <3>2. pools'[p].cfg = pools[p].cfg /\ (Live(p)' <=> Live(p))
      BY <3>1, TagsWritten DEF Sound
    <3>3. Live(cr.res.id)' =>
            /\ Live(cr.res.id)
            /\ pools'[cr.res.id].cfg = pools[cr.res.id].cfg
      <4>1. CASE cr.res.id = p
        BY <3>1, <3>2, <4>1
      <4>2. CASE cr.res.id # p
        BY <3>1, <4>2 DEF Live, Sound, TypeOK
      <4>3. QED
        BY <4>1, <4>2
    <3>4. QED
      BY <3>1, <3>3, RefusalStands
  <2>4. QED
    BY <2>1, <2>2, <2>3
<1>5. CASE PatchStatus \/ PatchStatusFails
  BY <1>5, RefusalTold
<1>6. CASE /\ \/ ReadOne \/ Create \/ Update \/ PatchSpec \/ PatchSpecFails
              \/ DeleteOk \/ DeleteAnswerLost
              \/ \E err \in Errors : DeleteFails(err)
           /\ ~ManageFails
  <2> SUFFICES ASSUME cr'.deleting, ~queued'
               PROVE  RefusalsAreEarned'
    BY DEF RefusalsAreEarned
  <2>1. queued' = queued
    BY <1>6
       DEF ReadOne, DescribeNotFound, DescribeFound, ListTagsOk,
           DescribeFails, ListTagsFails, Create, Manage, CreateRefused,
           CreateOk, CreateAnswerLost, CreateFails, Update, TagOk,
           TagAnswerLost, UntagOk, UpdateRefused, UpdateOk,
           UpdateAnswerLost, TagFails, UntagFails, UpdateFails, PatchSpec,
           PatchSpecFails, DeleteOk, DeleteAnswerLost, DeleteFails, request
  <2>2. cr'.deleting = cr.deleting
    <3>1. CASE cr' = cr
      BY <3>1
    <3>2. CASE Manage
      BY <3>2, CRFields DEF Manage, Sound
    <3>3. CASE PatchSpec
      BY <3>3, PatchSpecWrites DEF Sound
    <3>4. QED
      BY <1>6, <3>1, <3>2, <3>3
         DEF ReadOne, DescribeNotFound, DescribeFound, ListTagsOk,
             DescribeFails, ListTagsFails, Create, CreateRefused,
             CreateOk, CreateAnswerLost, CreateFails, Update, TagOk,
             TagAnswerLost, UntagOk, UpdateRefused, UpdateOk,
             UpdateAnswerLost, TagFails, UntagFails, UpdateFails,
             PatchSpecFails, DeleteOk, DeleteAnswerLost, DeleteFails
  <2>3. pc \in {"idle", "describe", "listtags", "delete", "unmanage",
                "status"}
    BY <2>1, <2>2 DEF RefusalsAreEarned
  <2>4. ~Create /\ ~Update /\ ~PatchSpec /\ ~PatchSpecFails
    BY <1>6, <2>3
       DEF Create, Manage, CreateRefused, CreateOk, CreateAnswerLost,
           CreateFails, Update, TagOk, TagAnswerLost, UntagOk,
           UpdateRefused, UpdateOk, UpdateAnswerLost, TagFails, UntagFails,
           UpdateFails, PatchSpec, PatchSpecFails
  <2>5. QED
    BY <1>6, <2>1, <2>2, <2>4, RefusalRead DEF ReadOne
<1>7. QED
  BY <1>1, <1>2, <1>3, <1>4, <1>5, <1>6
     DEF Next, Controller, Patch, Delete

\* RefusalsAreEarned: a deletion nobody works on any more was refused by the
\* service in its last pass, for the pool's protection or another reason.
THEOREM ReconcileRefusals == Spec => []RefusalsAreEarned
<1>1. Init => RefusalsAreEarned
  BY EmptyCR DEF Init, RefusalsAreEarned
<1>2. Sound /\ Sound' /\ RefusalsAreEarned /\ [Next]_vars
        => RefusalsAreEarned'
  BY RefusalKept
<1>3. QED
  BY <1>1, <1>2, AlwaysSound, PTL DEF Spec

\* A deletion is not taken back.
LEMMA DeletingStays ==
  ASSUME Sound, [Next]_vars, cr.deleting
  PROVE  cr'.deleting \/ ~cr'.present
<1>1. CASE cr' = cr
  BY <1>1
<1>2. CASE Manage
  BY <1>2, CRFields DEF Manage, Sound
<1>3. CASE PatchSpec
  BY <1>3, PatchSpecWrites DEF Sound
<1>4. CASE PatchStatus
  BY <1>4, PatchStatusWrites DEF PatchStatus, Sound
<1>5. CASE Unmanage
  BY <1>5, EmptyCR DEF Unmanage
<1>6. cr.present
  BY DEF Sound, PassInvariant, CRShape
<1>7. ~UserDeletes /\ \A spec \in UserSpecs : ~UserCreates(spec)
  BY <1>6 DEF UserDeletes, UserCreates
<1>8. ASSUME NEW spec \in UserSpecs, UserEdits(spec)
      PROVE  cr'.deleting
  BY <1>8, CRFields DEF UserEdits, Sound
<1>9. QED
  BY <1>1, <1>2, <1>3, <1>4, <1>5, <1>7, <1>8, WhoWritesTheCR DEF Sound

Deleting == cr.deleting
Present == cr.present

\* What a quiet step does to a deletion: while it is under way no request is
\* queued, so at its end nobody works on it.
LEMMA DeleteMoves ==
  ASSUME Sound, [Next]_vars, [Quiet]_vars
  PROVE  /\ DeleteOnTrack => DeleteOnTrack' \/ ~Present'
         /\ DeleteOnTrack /\ ~AtIdle => ~AtIdle' \/ ~Asked' \/ ~Present'
         /\ AtIdle /\ AtIdle' => (Asked' <=> Asked)
<1>1. Quiet
  BY DEF Quiet, vars, aux
<1>2. DeleteOnTrack => DeleteOnTrack' \/ ~Present'
  BY <1>1, DeleteKept DEF Present
<1>3. DeleteOnTrack /\ ~AtIdle => ~AtIdle' \/ ~Asked' \/ ~Present'
  <2> SUFFICES ASSUME DeleteOnTrack, pc # "idle", cr'.present
               PROVE  ~queued'
    BY DEF AtIdle, Asked, Present
  <2>1. ~queued /\ QuietStep
    BY <1>1, QuietSteps DEF Sound, DeleteOnTrack
  <2>2. CASE PatchStatus
    BY <2>2, DeletesAt
       DEF PatchStatus, PassIsOver, DeleteOnTrack
  <2>3. ASSUME NEW p \in PoolIds, CreateOk(p)
        PROVE  ~queued'
    BY <2>1, <2>3 DEF CreateOk, request
  <2>4. ASSUME NEW r \in BOOLEAN, UpdateOk(r)
        PROVE  ~queued'
    BY <2>1, <2>4 DEF UpdateOk, request
  <2>5. /\ pc = "manage" => cr.present
        /\ pc = "listtags" => Live(desired.id)
        /\ pc \notin {"tag", "untag", "update", "manage"}
    BY DEF DeleteOnTrack
  <2>6. QED
    BY <2>1, <2>2, <2>3, <2>4, <2>5
       DEF QuietStep, vars, request, Start, DescribeNotFound, DescribeFound,
           ListTagsOk, Manage, CreateRefused, TagOk, UntagOk, UpdateRefused,
           PatchSpec, DeleteOk, Unmanage
<1>4. AtIdle /\ AtIdle' => (Asked' <=> Asked)
  BY <1>1, EndsOnce DEF Sound, AtIdle, Asked, Start
<1>5. QED
  BY <1>2, <1>3, <1>4

LEMMA DeleteStands ==
  ASSUME Sound
  PROVE  /\ Deleting => Present
         /\ Deleting /\ AtIdle => DeleteOnTrack
         /\ DeleteOnTrack => Deleting /\ Present
         /\ ~Busy /\ Present => AtIdle /\ ~Asked
<1>1. Deleting => Present
  BY DEF Deleting, Present, Sound, PassInvariant, CRShape
<1>2. Deleting /\ AtIdle => DeleteOnTrack
  BY <1>1 DEF Deleting, AtIdle, Present, DeleteOnTrack
<1>3. DeleteOnTrack => Deleting /\ Present
  BY DEF DeleteOnTrack, Deleting, Present
<1>4. ~Busy /\ Present => AtIdle /\ ~Asked
  BY DEF Busy, Present, AtIdle, Asked
<1>5. QED
  BY <1>1, <1>2, <1>3, <1>4

\* The first pass that begins after things have come to rest ends a deletion.
LEMMA QuietDeletes ==
  QuietRun => [](Deleting => <>(~Present \/ (AtIdle /\ ~Asked /\ Deleting)))
<1>1. Sound /\ [Next]_vars /\ [Quiet]_vars =>
        /\ DeleteOnTrack => DeleteOnTrack' \/ ~Present'
        /\ DeleteOnTrack /\ ~AtIdle => ~AtIdle' \/ ~Asked' \/ ~Present'
        /\ AtIdle /\ AtIdle' => (Asked' <=> Asked)
  BY DeleteMoves
<1>2. Sound =>
        /\ Deleting => Present
        /\ Deleting /\ AtIdle => DeleteOnTrack
        /\ DeleteOnTrack => Deleting /\ Present
        /\ ~Busy /\ Present => AtIdle /\ ~Asked
  BY DeleteStands
<1>3. Sound /\ <<Controller>>_vars /\ AtIdle => ~AtIdle'
  BY ControllerMovesOn DEF Sound, AtIdle
<1>4. Sound /\ [Next]_vars /\ Deleting => Deleting' \/ ~Present'
  BY DeletingStays DEF Deleting, Present
<1>5. QuietRun => []<>AtIdle
  BY PassesEnd DEF AtIdle
<1>6. QED
  BY <1>1, <1>2, <1>3, <1>4, <1>5, PTL DEF QuietRun, KeepsWorking

\* A deletion ends: once users, service and faults have come to rest and the
\* worker keeps working, a CR being deleted goes away, or the service refused
\* its deletion in the last pass, for the pool's protection or another reason.
THEOREM ReconcileDeletes ==
  Spec /\ ComesToRest /\ KeepsWorking => DeletionEnds
<1>1. Sound /\ [Next]_vars /\ Deleting => Deleting' \/ ~Present'
  BY DeletingStays DEF Deleting, Present
<1>2. /\ RefusalsAreEarned /\ AtIdle /\ ~Asked /\ Deleting =>
           GivenUp /\ KeptByRefusal
      /\ Deleting <=> cr.deleting
      /\ Present <=> cr.present
  BY DEF RefusalsAreEarned, AtIdle, Asked, Deleting, Present, GivenUp
<1>3. QED
  BY <1>1, <1>2, AlwaysSound, ReconcileRefusals, QuietDeletes, PTL
     DEF Spec, ComesToRest, QuietRun, KeepsWorking, DeletionEnds

\* FairSpec keeps the worker working, if it is never stuck.
LEMMA FairKeepsWorking == FairSpec /\ []NeverStuck => KeepsWorking
BY PTL DEF FairSpec, NeverStuck, KeepsWorking

\* Both promises from the fairness the code justifies: a request that is
\* queued is taken up, and a pass goes on.
COROLLARY FairReconcileKeepsPromises ==
  FairSpec /\ []NeverStuck /\ ComesToRest => Converges /\ DeletionEnds
BY FairKeepsWorking, ReconcileConverges, ReconcileDeletes, PTL DEF FairSpec

=============================================================================
