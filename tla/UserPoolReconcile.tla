-------------------------- MODULE UserPoolReconcile --------------------------
(***************************************************************************)
(* The reconciliation of one UserPool custom resource (CR) against the     *)
(* Cognito service.                                                        *)
(*                                                                         *)
(* Translated from pkg/resource/user_pool: sdkFind, sdkCreate, sdkUpdate,  *)
(* sdkDelete, SyncTags, EnsureTags, FilterSystemTags, mirrorAWSTags,       *)
(* updateConditions, the payloads and the delta.  One action per remote    *)
(* call, because everything else in the system may move between two calls: *)
(* the user edits or deletes the CR, the service changes a pool, the       *)
(* process dies, a response is lost after the call took effect.            *)
(*                                                                         *)
(* External, modelled from how this code is driven: the ACK runtime's loop *)
(* (which calls ReadOne, Create, Update, Delete in turn, adds and removes  *)
(* the finalizer, patches the CR), the API server and the service.         *)
(***************************************************************************)
EXTENDS Naturals, Tags, UserPoolFields, Conditions

CONSTANTS
  PoolIds,    \* the ids the service can still assign
  NoPool,     \* Status.ID is nil
  UserSpecs,  \* the specs the user may write: [cfg, tags, userPoolTags]
  Defaults,   \* what the service puts where a request leaves a field unset
  Active,     \* DeletionProtection = ACTIVE
  MaxFaults,  \* bound on faults of the environment
  MaxEdits    \* bound on actions of the user

ASSUME ReconcileAssumption ==
  /\ NoPool \notin PoolIds
  /\ UserSpecs \subseteq
       [cfg : Configs, tags : SpecTagMaps, userPoolTags : TagMaps]
  /\ Defaults \in Configs
  /\ \A f \in Fields : Defaults[f] \notin WideVals  \* the service's are int32
  /\ MaxFaults \in Nat /\ MaxEdits \in Nat

VARIABLES
  cr,       \* the CR in the API server
  pools,    \* the service: every pool id and what it stands for
  pc,       \* which call the worker makes next
  mode,     \* "sync" or "delete": IsBeingDeleted of the CR it read
  managed,  \* IsManaged of the CR it read: the finalizer is there
  desired,  \* the resource given to the resource manager
  latest,   \* the resource it returned
  add, del, \* toAdd and toDelete of SyncTags
  next,     \* what follows SyncTags
  outcome,  \* the error the pass ends with
  queued,   \* the workqueue has a request for the CR, or will get one
  reported, \* history: the outcome of the last pass that patched the status
  lost,     \* history: ids that a fault kept from reaching Status.ID
  faults, edits,
  refused   \* history: NotTaken, in the last pass over a deletion

inHand == <<mode, managed, desired, latest, add, del, next, outcome>>
request == <<queued, reported>>
aux == <<faults, edits, refused>>
vars == <<cr, pools, pc, inHand, request, lost, aux>>

-----------------------------------------------------------------------------
(* Types                                                                   *)

Ids == PoolIds \union {NoPool}

Resources ==
  [id : Ids, cfg : Configs, tags : SpecTagMaps, userPoolTags : TagMaps,
   conds : ConditionSets]

CRs ==
  [present : BOOLEAN, deleting : BOOLEAN, managed : BOOLEAN, res : Resources]

Pools == [state : {"unused", "live", "gone"}, cfg : Configs, tags : TagMaps]

Locations ==
  {"idle", "describe", "listtags", "manage", "create", "tag", "untag",
   "update", "patch", "status", "delete", "unmanage"}

TypeOK ==
  /\ cr \in CRs
  /\ pools \in [PoolIds -> Pools]
  /\ pc \in Locations
  /\ mode \in {"sync", "delete"}
  /\ managed \in BOOLEAN
  /\ desired \in Resources
  /\ latest \in Resources
  /\ add \in TagMaps
  /\ del \subseteq Keys
  /\ next \in {"created", "update", "done"}
  /\ outcome \in Outcomes
  /\ queued \in BOOLEAN
  /\ reported \in Outcomes
  /\ lost \subseteq PoolIds
  /\ faults \in 0..MaxFaults
  /\ edits \in 0..MaxEdits
  /\ refused \in BOOLEAN

-----------------------------------------------------------------------------
(* State formulae                                                          *)

Live(p) == p \in PoolIds /\ pools[p].state = "live"

NoResource ==
  [id |-> NoPool, cfg |-> NoConfig, tags |-> NoTags, userPoolTags |-> NoTags,
   conds |-> NoConditions]

NoPoolYet == [state |-> "unused", cfg |-> NoConfig, tags |-> NoTags]
PoolGone == [NoPoolYet EXCEPT !.state = "gone"]

NoCR ==
  [present |-> FALSE, deleting |-> FALSE, managed |-> FALSE,
   res |-> NoResource]

NewCR(spec) ==
  [present |-> TRUE, deleting |-> FALSE, managed |-> FALSE,
   res |-> [id |-> NoPool, cfg |-> spec.cfg, tags |-> spec.tags,
            userPoolTags |-> spec.userPoolTags, conds |-> NoConditions]]

Protected(p) ==
  /\ "DeletionProtection" \in Fields
  /\ pools[p].cfg["DeletionProtection"] = Active

\* A pool this pass created whose id is not in the API server yet.
InHandId ==
  {p \in {latest.id} \cap PoolIds : p # cr.res.id /\ Live(p)}

Init ==
  /\ cr = NoCR
  /\ pools = [p \in PoolIds |-> NoPoolYet]
  /\ pc = "idle"
  /\ mode = "sync" /\ managed = FALSE
  /\ desired = NoResource /\ latest = NoResource
  /\ add = NoTags /\ del = {} /\ next = "done"
  /\ outcome = "none" /\ queued = FALSE /\ reported = "none"
  /\ lost = {}
  /\ faults = 0 /\ edits = 0 /\ refused = FALSE

\* The worker drops what it holds and waits for the next request.
Idle ==
  /\ pc' = "idle"
  /\ mode' = "sync" /\ managed' = FALSE
  /\ desired' = NoResource /\ latest' = NoResource
  /\ add' = NoTags /\ del' = {} /\ next' = "done"
  /\ outcome' = "none"

OneFault == faults < MaxFaults /\ faults' = faults + 1 /\ UNCHANGED edits

Fault == OneFault /\ UNCHANGED refused

-----------------------------------------------------------------------------
(* The user                                                                *)

UserStep ==
  edits < MaxEdits /\ edits' = edits + 1 /\ UNCHANGED <<faults, refused>>

UserCreates(spec) ==
  /\ UserStep
  /\ ~cr.present
  /\ cr' = NewCR(spec)
  /\ queued' = TRUE /\ reported' = "none"
  /\ UNCHANGED <<pools, pc, inHand, lost>>

\* the spec of a CR that waits for its finalizer can still be edited
UserEdits(spec) ==
  /\ UserStep
  /\ cr.present
  /\ cr' = [cr EXCEPT !.res.cfg = spec.cfg, !.res.tags = spec.tags,
                      !.res.userPoolTags = spec.userPoolTags]
  /\ cr' # cr
  /\ queued' = TRUE
  /\ UNCHANGED <<pools, pc, inHand, reported, lost>>

\* The finalizer keeps the CR until the controller lets go of it.
UserDeletes ==
  /\ UserStep
  /\ cr.present /\ ~cr.deleting
  /\ cr' = IF cr.managed THEN [cr EXCEPT !.deleting = TRUE] ELSE NoCR
  /\ queued' = cr.managed
  /\ UNCHANGED <<pools, pc, inHand, reported, lost>>

-----------------------------------------------------------------------------
(* The service moves by itself                                             *)

\* somebody deletes the pool in the console
PoolRemoved(p) ==
  /\ Fault
  /\ Live(p)
  /\ pools' = [pools EXCEPT ![p] = PoolGone]
  /\ UNCHANGED <<cr, pc, inHand, request, lost>>

\* tags change behind the controller's back: the service adds an "aws:" tag,
\* or somebody adds, changes or removes another one
TagDrifts(p, k, v) ==
  /\ Fault
  /\ Live(p)
  /\ pools[p].tags[k] # v
  /\ k \in AwsKeys => v # Absent
  /\ pools' = [pools EXCEPT ![p].tags[k] = v]
  /\ UNCHANGED <<cr, pc, inHand, request, lost>>

\* the process dies; the next one starts from what the API server holds, and
\* lists every CR
Crash ==
  /\ Fault
  /\ pc # "idle" \/ ~queued
  /\ Idle
  /\ queued' = cr.present
  /\ lost' = lost \union InHandId
  /\ UNCHANGED <<cr, pools, reported>>

-----------------------------------------------------------------------------
(* What the steps of a pass share                                          *)

\* an outage: the call has no effect and returns some other error
Outage(err) == Fault /\ err = "other"

\* the service does not take the request, for a reason outside this module (a
\* function that is not there, a pool that still has a domain); any call may
\* be answered so
NotTaken(err) ==
  /\ OneFault
  /\ err = "InvalidParameterException"
  /\ refused' = (mode = "delete")

\* the call reached the service, its answer did not come back
AnswerLost == Fault

\* the service answers a call for a pool that is not there
NotThere(p, err) ==
  ~Live(p) /\ err = "ResourceNotFoundException" /\ UNCHANGED aux

\* the resource manager returns onError(res, err); the runtime patches its
\* status and ends the pass
Fails(res, err) ==
  /\ latest' = OnError(res, err)
  /\ outcome' = err
  /\ pc' = "status"

\* the resource manager returns onSuccess(res); the runtime patches
Succeeds(res) ==
  /\ latest' = OnSuccess(res)
  /\ pc' = "patch"

\* SyncTags is done: sdkCreate and a tags-only sdkUpdate return, any other
\* sdkUpdate goes on to UpdateUserPool.  wanted is the desired resource, held
\* the one observed or created.
AfterTags(then, wanted, held) ==
  CASE then = "update"  -> pc' = "update" /\ latest' = held
    [] then = "created" -> Succeeds(held)
    [] then = "done"    -> Succeeds(wanted)

\* SyncTags(desired tags, existing tags): compute both lists, then make the
\* calls that are needed, TagResource first
SyncTags(wanted, existing, then, held) ==
  /\ add' = ToAdd(wanted.tags, existing)
  /\ del' = ToDelete(wanted.tags, existing)
  /\ next' = then
  /\ CASE KeysOf(add') # {} -> pc' = "tag" /\ latest' = held
       [] KeysOf(add') = {} /\ del' # {} -> pc' = "untag" /\ latest' = held
       [] OTHER -> AfterTags(then, wanted, held)

-----------------------------------------------------------------------------
(* A pass begins                                                           *)

\* The runtime reads the CR; a sync drops its old conditions and calls
\* EnsureTags.
Start ==
  /\ pc = "idle" /\ queued /\ cr.present
  /\ pc' = "describe"
  /\ queued' = FALSE
  /\ mode' = IF cr.deleting THEN "delete" ELSE "sync"
  /\ managed' = cr.managed
  /\ desired' = IF cr.deleting THEN cr.res
                ELSE [cr.res EXCEPT !.tags = EnsureTags(cr.res.tags),
                                    !.conds = NoConditions]
  /\ refused' = FALSE
  /\ UNCHANGED <<cr, pools, latest, add, del, next, outcome, reported, lost,
                 faults, edits>>

(* ReadOne = sdkFind + mirrorAWSTags                                       *)

\* faulty: an id whose pool is gone is an error, not NotFound
DescribeNotFoundOnlyWithoutId ==
  /\ pc = "describe"
  /\ ~Live(desired.id)
  /\ IF desired.id # NoPool
     THEN Fails(desired, "ResourceNotFoundException")
     ELSE /\ pc' = CASE mode = "delete" -> "unmanage"
                    [] mode = "sync" /\ managed -> "create"
                    [] OTHER -> "manage"
          /\ UNCHANGED <<latest, outcome>>
  /\ UNCHANGED <<cr, pools, mode, managed, desired, add, del, next, request,
                 lost, aux>>

\* no id yet, or ResourceNotFoundException: ackerr.NotFound
DescribeNotFound ==
  /\ pc = "describe"
  /\ ~Live(desired.id)
  /\ pc' = CASE mode = "delete" -> "unmanage"
             [] mode = "sync" /\ managed -> "create"
             [] OTHER -> "manage"
  /\ UNCHANGED <<cr, pools, inHand, request, lost, aux>>

\* The response is merged into a copy of the resource; all the pool's tags
\* go into Spec.UserPoolTags.
DescribeFound ==
  /\ pc = "describe"
  /\ Live(desired.id)
  /\ latest' = [desired EXCEPT
                  !.cfg = MergeFound(@, pools[desired.id].cfg),
                  !.userPoolTags = pools[desired.id].tags]
  /\ pc' = "listtags"
  /\ UNCHANGED <<cr, pools, mode, managed, desired, add, del, next, outcome,
                 request, lost, aux>>

\* faulty: any error of DescribeUserPool means NotFound
DescribeFailsAsNotFound(err) ==
  /\ pc = "describe" /\ desired.id # NoPool
  /\ Outage(err)
  /\ pc' = IF mode = "delete" THEN "unmanage" ELSE "create"
  /\ UNCHANGED <<cr, pools, inHand, request, lost>>

DescribeFails(err) ==
  /\ pc = "describe" /\ desired.id # NoPool
  /\ Outage(err) \/ NotTaken(err)
  /\ Fails(desired, err)
  /\ UNCHANGED <<cr, pools, mode, managed, desired, add, del, next, request,
                 lost>>

\* newResourceDelta of the desired resource a and the observed one b, and
\* what the runtime and sdkUpdate do with it
DiffersExceptTags(a, b) ==
  ConfigDiffers(a.cfg, b.cfg) \/ a.userPoolTags # b.userPoolTags

\* what ReadOne returns: the merged response, with the pool's tags
Observed == OnSuccess([latest EXCEPT !.tags = pools[desired.id].tags])

\* and what it leaves in the resource it was given: mirrorAWSTags
Mirrored == [desired EXCEPT !.tags = MirrorAWSTags(@, Observed.tags)]

WhatFollows ==
  IF DiffersExceptTags(Mirrored, Observed) THEN "update" ELSE "done"

\* The reading is complete.  Nothing to do, or SyncTags if Spec.Tags differs,
\* then UpdateUserPool if anything else differs.
ListTagsOk ==
  /\ pc = "listtags"
  /\ Live(desired.id)
  /\ desired' = Mirrored
  /\ CASE mode = "delete" ->
            /\ pc' = "delete" /\ latest' = Observed
            /\ UNCHANGED <<add, del, next>>
       [] mode = "sync" /\ TagsDiffer(Mirrored.tags, Observed.tags) ->
            SyncTags(Mirrored, Observed.tags, WhatFollows, Observed)
       [] OTHER ->
            /\ latest' = Observed /\ next' = WhatFollows
            /\ pc' = IF WhatFollows = "update" THEN "update" ELSE "status"
            /\ UNCHANGED <<add, del>>
  /\ UNCHANGED <<cr, pools, mode, managed, outcome, request, lost, aux>>

\* also when the pool went away since DescribeUserPool: unlike there, a plain
\* error
ListTagsFails(err) ==
  /\ pc = "listtags"
  /\ Outage(err) \/ NotTaken(err) \/ NotThere(desired.id, err)
  /\ Fails(desired, err)
  /\ UNCHANGED <<cr, pools, mode, managed, desired, add, del, next, request,
                 lost>>

-----------------------------------------------------------------------------
(* Create                                                                  *)

\* faulty: the finalizer is set on the copy only
ManageNotSaved ==
  /\ pc = "manage"
  /\ cr.present
  /\ managed' = TRUE
  /\ pc' = "create"
  /\ UNCHANGED <<cr, pools, mode, desired, latest, add, del, next, outcome,
                 request, lost, aux>>

\* The runtime adds the finalizer before anything is created.
Manage ==
  /\ pc = "manage"
  /\ cr.present
  /\ cr' = [cr EXCEPT !.managed = TRUE]
  /\ managed' = TRUE
  /\ pc' = "create"
  /\ UNCHANGED <<pools, mode, desired, latest, add, del, next, outcome,
                 request, lost, aux>>

\* the CR is gone, or the API server does not answer
ManageFails ==
  /\ pc = "manage"
  /\ Fault \/ (~cr.present /\ UNCHANGED aux)
  /\ Idle
  /\ queued' = cr.present
  /\ UNCHANGED <<cr, pools, reported, lost>>

\* the pool CreateUserPool makes of a request: what it leaves unset gets the
\* service's default; Spec.Tags is not part of the request
NewPool(res) ==
  LET sent == Payload(res.cfg, CreateRequestFields)
  IN [state |-> "live",
      cfg |-> [f \in Fields |->
                 IF sent[f] = Unset THEN Defaults[f] ELSE sent[f]],
      tags |-> res.userPoolTags]

\* the payload does not fit: no call is made
CreateRefused ==
  /\ pc = "create"
  /\ PayloadError(desired.cfg, CreateRequestFields)
  /\ Fails(desired, "int32")
  /\ UNCHANGED <<cr, pools, mode, managed, desired, add, del, next, request,
                 lost, aux>>

\* the response merged into a copy of the desired resource, whose Spec.Tags
\* stay
Created(p) ==
  [desired EXCEPT !.id = p,
                  !.cfg = MergeCreated(@, NewPool(desired).cfg),
                  !.userPoolTags = NewPool(desired).tags]

\* faulty: the tags are synced with those of the new pool, and a refused tag
\* costs the pool its id
CreateOkThenTags(p) ==
  /\ pc = "create"
  /\ ~PayloadError(desired.cfg, CreateRequestFields)
  /\ pools[p].state = "unused"
  /\ pools' = [pools EXCEPT ![p] = NewPool(desired)]
  /\ SyncTags(desired, NewPool(desired).tags, "created", Created(p))
  /\ UNCHANGED <<cr, mode, managed, desired, outcome, request, lost, aux>>

\* The response is merged into a copy ko of the desired resource, then
\* SyncTags(desired.Spec.Tags, ko.Spec.Tags).  The response carries no
\* Spec.Tags, so ko still has the desired ones.
CreateOk(p) ==
  /\ pc = "create"
  /\ ~PayloadError(desired.cfg, CreateRequestFields)
  /\ pools[p].state = "unused"
  /\ pools' = [pools EXCEPT ![p] = NewPool(desired)]
  /\ SyncTags(desired, Created(p).tags, "created", Created(p))
  /\ UNCHANGED <<cr, mode, managed, desired, outcome, request, lost, aux>>

CreateFails(err) ==
  /\ pc = "create"
  /\ ~PayloadError(desired.cfg, CreateRequestFields)
  /\ Outage(err) \/ NotTaken(err)
  /\ Fails(desired, err)
  /\ UNCHANGED <<cr, pools, mode, managed, desired, add, del, next, request,
                 lost>>

\* the pool exists, its id is nowhere
CreateAnswerLost(p) ==
  /\ pc = "create"
  /\ ~PayloadError(desired.cfg, CreateRequestFields)
  /\ AnswerLost
  /\ pools[p].state = "unused"
  /\ pools' = [pools EXCEPT ![p] = NewPool(desired)]
  /\ lost' = lost \union {p}
  /\ Fails(desired, "other")
  /\ UNCHANGED <<cr, mode, managed, desired, add, del, next, request>>

-----------------------------------------------------------------------------
(* SyncTags: addTags, then removeTags                                      *)

\* A failed call: sdkCreate returns no resource, so Create reports on the
\* desired one, which has no id; Update reports on the latest one.
SyncTagsFails(err) ==
  /\ Fails(IF next = "created" THEN desired ELSE latest, err)
  /\ lost' = IF next = "created" THEN lost \union InHandId ELSE lost

TagOk ==
  /\ pc = "tag"
  /\ Live(latest.id)
  /\ KeysOf(add) \cap AwsKeys = {}
  /\ pools' = [pools EXCEPT ![latest.id].tags = TagResource(@, add)]
  /\ IF del # {} THEN pc' = "untag" /\ UNCHANGED latest
                 ELSE AfterTags(next, desired, latest)
  /\ UNCHANGED <<cr, mode, managed, desired, add, del, next, outcome,
                 request, lost, aux>>

\* the service refuses an "aws:" key, whatever else it refuses
TagFails(err) ==
  /\ pc = "tag"
  /\ \/ Outage(err)
     \/ NotTaken(err)
     \/ NotThere(latest.id, err)
     \/ /\ KeysOf(add) \cap AwsKeys # {} /\ Live(latest.id)
        /\ err = "InvalidParameterException"
        /\ UNCHANGED aux
  /\ SyncTagsFails(err)
  /\ UNCHANGED <<cr, pools, mode, managed, desired, add, del, next, request>>

TagAnswerLost ==
  /\ pc = "tag"
  /\ AnswerLost
  /\ Live(latest.id)
  /\ KeysOf(add) \cap AwsKeys = {}
  /\ pools' = [pools EXCEPT ![latest.id].tags = TagResource(@, add)]
  /\ SyncTagsFails("other")
  /\ UNCHANGED <<cr, mode, managed, desired, add, del, next, request>>

UntagOk ==
  /\ pc = "untag"
  /\ Live(latest.id)
  /\ pools' = [pools EXCEPT ![latest.id].tags = UntagResource(@, del)]
  /\ AfterTags(next, desired, latest)
  /\ UNCHANGED <<cr, mode, managed, desired, add, del, next, outcome,
                 request, lost, aux>>

UntagFails(err) ==
  /\ pc = "untag"
  /\ Outage(err) \/ NotTaken(err) \/ NotThere(latest.id, err)
  /\ SyncTagsFails(err)
  /\ UNCHANGED <<cr, pools, mode, managed, desired, add, del, next, request>>

-----------------------------------------------------------------------------
(* UpdateUserPool                                                          *)

\* What the service makes of an update.  For a field the request leaves
\* unset it may keep the old value or go back to the default; UserPoolTags,
\* when sent, may replace the pool's tags or be added to them.
UpdatedPool(pool, res, resets) ==
  LET sent == Payload(res.cfg, UpdateRequestFields)
  IN [pool EXCEPT
        !.cfg = [f \in Fields |->
                   CASE sent[f] # Unset -> sent[f]
                     [] sent[f] = Unset /\ f \in UpdateRequestFields
                          /\ resets -> Defaults[f]
                     [] OTHER -> pool.cfg[f]],
        !.tags = IF res.userPoolTags = NoTags THEN @
                 ELSE [k \in Keys |->
                         IF Has(res.userPoolTags, k) THEN res.userPoolTags[k]
                         ELSE IF resets /\ k \notin AwsKeys THEN Absent
                         ELSE pool.tags[k]]]

UpdateRefused ==
  /\ pc = "update"
  /\ PayloadError(desired.cfg, UpdateRequestFields)
  /\ Fails(latest, "int32")
  /\ UNCHANGED <<cr, pools, mode, managed, desired, add, del, next, request,
                 lost, aux>>

\* sdkUpdate returns a copy of the desired resource, not of the response
UpdateOk(resets) ==
  /\ pc = "update"
  /\ ~PayloadError(desired.cfg, UpdateRequestFields)
  /\ Live(desired.id)
  /\ pools' = [pools EXCEPT ![desired.id] = UpdatedPool(@, desired, resets)]
  /\ Succeeds(desired)
  /\ UNCHANGED <<cr, mode, managed, desired, add, del, next, outcome,
                 request, lost, aux>>

UpdateFails(err) ==
  /\ pc = "update"
  /\ ~PayloadError(desired.cfg, UpdateRequestFields)
  /\ Outage(err) \/ NotTaken(err) \/ NotThere(desired.id, err)
  /\ Fails(latest, err)
  /\ UNCHANGED <<cr, pools, mode, managed, desired, add, del, next, request,
                 lost>>

UpdateAnswerLost(resets) ==
  /\ pc = "update"
  /\ ~PayloadError(desired.cfg, UpdateRequestFields)
  /\ AnswerLost
  /\ Live(desired.id)
  /\ pools' = [pools EXCEPT ![desired.id] = UpdatedPool(@, desired, resets)]
  /\ Fails(latest, "other")
  /\ UNCHANGED <<cr, mode, managed, desired, add, del, next, request, lost>>

-----------------------------------------------------------------------------
(* The end of a pass: the runtime patches spec, then status                *)

\* a merge patch from map a to map b, applied to the map held by the server
Merged(held, a, b) ==
  [x \in DOMAIN held |-> IF a[x] = b[x] THEN held[x] ELSE b[x]]

\* faulty: the tags of the working copies are compared and sent unfiltered
PatchSpecUnfiltered ==
  /\ pc = "patch"
  /\ cr.present
  /\ cr' = [cr EXCEPT
              !.res.cfg = Merged(@, desired.cfg, latest.cfg),
              !.res.tags = Merged(@, cr.res.tags, latest.tags),
              !.res.userPoolTags =
                 Merged(@, desired.userPoolTags, latest.userPoolTags)]
  /\ pc' = "status"
  /\ UNCHANGED <<pools, inHand, request, lost, aux>>

\* What Create or Update changed in the spec, with system tags filtered from
\* both sides.
PatchSpec ==
  /\ pc = "patch"
  /\ cr.present
  /\ cr' = [cr EXCEPT
              !.res.cfg = Merged(@, desired.cfg, latest.cfg),
              !.res.tags = Merged(@, FilterSystemTags(desired.tags),
                                     FilterSystemTags(latest.tags)),
              !.res.userPoolTags =
                 Merged(@, desired.userPoolTags, latest.userPoolTags)]
  /\ pc' = "status"
  /\ UNCHANGED <<pools, inHand, request, lost, aux>>

\* the spec patch fails; the status patch is still made
PatchSpecFails ==
  /\ pc = "patch"
  /\ Fault
  /\ pc' = "status"
  /\ UNCHANGED <<cr, pools, inHand, request, lost>>

\* A pass that ended well is followed by one at the next resync, a failed one
\* by a retry - except that onError answers ackerr.Terminal for a terminal
\* error, and such a CR is left alone until it changes or the process restarts.
PassIsOver ==
  queued' = (cr.present /\ (TerminalAWSError(outcome) => queued))

\* Status.ID and Status.Conditions reach the API server.
PatchStatus ==
  /\ pc = "status"
  /\ IF cr.present
     THEN /\ cr' = [cr EXCEPT
                      !.res.id = IF latest.id = desired.id THEN @
                                 ELSE latest.id,
                      !.res.conds = latest.conds]
          /\ reported' = outcome
     ELSE UNCHANGED <<cr, reported>>
  /\ Idle
  /\ PassIsOver
  /\ UNCHANGED <<pools, lost, aux>>

PatchStatusFails ==
  /\ pc = "status"
  /\ Fault
  /\ Idle
  /\ PassIsOver
  /\ lost' = lost \union InHandId
  /\ UNCHANGED <<cr, pools, reported>>

-----------------------------------------------------------------------------
(* Delete                                                                  *)

\* faulty: the finalizer is dropped when the call fails
DeleteFailsButLetsGo(err) ==
  /\ pc = "delete"
  /\ Outage(err)
  /\ pc' = "unmanage"
  /\ UNCHANGED <<cr, pools, inHand, request, lost>>

\* faulty: the refusal of a protected pool has no branch of its own
DeleteRefusalHangs(err) ==
  /\ pc = "delete"
  /\ Outage(err) \/ NotTaken(err) \/ NotThere(latest.id, err)
  /\ Fails(latest, err)
  /\ UNCHANGED <<cr, pools, mode, managed, desired, add, del, next, request,
                 lost>>

\* sdkDelete passes every error on; a protected pool is always refused
DeleteFails(err) ==
  /\ pc = "delete"
  /\ \/ Outage(err)
     \/ NotTaken(err)
     \/ NotThere(latest.id, err)
     \/ /\ Live(latest.id) /\ Protected(latest.id)
        /\ err = "InvalidParameterException"
        /\ UNCHANGED aux
  /\ Fails(latest, err)
  /\ UNCHANGED <<cr, pools, mode, managed, desired, add, del, next, request,
                 lost>>

DeleteOk ==
  /\ pc = "delete"
  /\ Live(latest.id) /\ ~Protected(latest.id)
  /\ pools' = [pools EXCEPT ![latest.id] = PoolGone]
  /\ pc' = "unmanage"
  /\ UNCHANGED <<cr, inHand, request, lost, aux>>

DeleteAnswerLost ==
  /\ pc = "delete"
  /\ AnswerLost
  /\ Live(latest.id) /\ ~Protected(latest.id)
  /\ pools' = [pools EXCEPT ![latest.id] = PoolGone]
  /\ Fails(latest, "other")
  /\ UNCHANGED <<cr, mode, managed, desired, add, del, next, request, lost>>

\* The finalizer goes, and with it the CR.
Unmanage ==
  /\ pc = "unmanage"
  /\ cr' = NoCR
  /\ queued' = FALSE /\ reported' = "none"
  /\ Idle
  /\ UNCHANGED <<pools, lost, aux>>

UnmanageFails ==
  /\ pc = "unmanage"
  /\ Fault
  /\ Idle
  /\ queued' = TRUE
  /\ UNCHANGED <<cr, pools, reported, lost>>

-----------------------------------------------------------------------------

User ==
  \/ \E spec \in UserSpecs : UserCreates(spec) \/ UserEdits(spec)
  \/ UserDeletes

Service ==
  \E p \in PoolIds :
    \/ PoolRemoved(p)
    \/ \E k \in Keys, v \in Vals \union {Absent} : TagDrifts(p, k, v)

ReadOne ==
  \/ DescribeNotFound \/ DescribeFound \/ ListTagsOk
  \/ \E err \in Errors : DescribeFails(err) \/ ListTagsFails(err)

Create ==
  \/ Manage \/ ManageFails \/ CreateRefused
  \/ \E p \in PoolIds : CreateOk(p) \/ CreateAnswerLost(p)
  \/ \E err \in Errors : CreateFails(err)

Update ==
  \/ TagOk \/ TagAnswerLost \/ UntagOk \/ UpdateRefused
  \/ \E resets \in BOOLEAN : UpdateOk(resets) \/ UpdateAnswerLost(resets)
  \/ \E err \in Errors : TagFails(err) \/ UntagFails(err) \/ UpdateFails(err)

Patch == PatchSpec \/ PatchSpecFails \/ PatchStatus \/ PatchStatusFails

Delete ==
  \/ DeleteOk \/ DeleteAnswerLost \/ Unmanage \/ UnmanageFails
  \/ \E err \in Errors : DeleteFails(err)

Controller == Start \/ ReadOne \/ Create \/ Update \/ Patch \/ Delete

\* no request is left, and no user need act any more: the bound is used up, or
\* the CR has been deleted and given up
Stopped ==
  /\ pc = "idle" /\ ~queued
  /\ edits = MaxEdits \/ cr.deleting
  /\ UNCHANGED vars

Next == User \/ Service \/ Crash \/ Controller \/ Stopped

Spec == Init /\ [][Next]_vars

\* A request in the workqueue is taken up, and the worker does not stop inside
\* a pass.  Nobody owes a fault or an edit.
FairSpec == Spec /\ WF_vars(Controller)

-----------------------------------------------------------------------------
(* Safety                                                                  *)

\* The id of a pool a pass has created and still carries towards Status.ID.
Carried == IF pc \in {"tag", "untag", "patch", "status"} THEN InHandId ELSE {}

\* No pool is forgotten: every live pool is the one Status.ID names, or is
\* carried there by the pass under way, or a fault took its id (a lost
\* answer of CreateUserPool, a crash or a failed status patch before the id
\* was saved).  sdkCreate, sdkFind's NotFound, the finalizer and the patches
\* have to work together for this.
NoPoolForgotten ==
  \A p \in PoolIds : Live(p) => p = cr.res.id \/ p \in Carried \/ p \in lost

\* While a pool may depend on the CR the finalizer is there: from the call
\* that creates a pool until the pool is gone, deleting the CR waits.
FinalizerHeld ==
  (cr.res.id # NoPool \/ pc \in {"create", "tag", "untag", "update", "patch",
                                 "delete", "unmanage"})
    => cr.present /\ cr.managed

\* Whatever is deleted is what a CR being deleted names, and the finalizer is
\* dropped only when that pool is gone (sdkDelete, resource.IsBeingDeleted).
DeletesOnlyItsOwn ==
  /\ pc = "delete" => cr.deleting /\ latest.id = cr.res.id
  /\ pc = "unmanage" => cr.deleting /\ ~Live(cr.res.id)

\* Status.ID moves on only from a pool that is gone: the controller never
\* makes a second pool while the first one lives (sdkFind returns NotFound
\* for ResourceNotFoundException and a missing id, for nothing else).
IdLeavesOnlyDeadPools ==
  [][(cr.present /\ cr'.present /\ cr'.res.id # cr.res.id)
       => ~Live(cr.res.id)]_vars

\* The "aws:" tags of a live pool are never changed by a call of the
\* controller, whatever moved since the tags were listed (mirrorAWSTags,
\* SyncTags).
AwsTagsUntouched ==
  [][faults' = faults =>
       \A p \in PoolIds, k \in AwsKeys :
         (pools[p].state = "live" /\ pools'[p].state = "live")
           => pools'[p].tags[k] = pools[p].tags[k]]_vars

\* Only the user changes Spec.Tags: neither the controller's own tags
\* (EnsureTags) nor the service's (mirrorAWSTags) are patched into the CR.
SpecTagsAreTheUsers ==
  [][(edits' = edits /\ cr'.present) => cr'.res.tags = cr.res.tags]_vars

\* the conditions that go with an outcome
Tells(conds, err) ==
  /\ (conds["Terminal"] = "True") = TerminalAWSError(err)
  /\ (err \in Errors /\ ~TerminalAWSError(err))
       => conds["Recoverable"] = "True"
  /\ err = "none" => conds["Recoverable"] # "True"

\* What a status patch leaves behind tells how the pass ended: Terminal is
\* True just after a terminal error, Recoverable after any other error, and
\* neither after a success (updateConditions, onError, onSuccess).
ConditionsTellOutcome ==
  [][(pc = "status" /\ reported' # reported)
       => Tells(cr'.res.conds, outcome)]_vars

-----------------------------------------------------------------------------
(* What makes them hold: the inductive invariant of the proofs             *)

\* An id is kept only under a finalizer, and names a pool there has been.
CRShape ==
  /\ cr.managed => cr.present
  /\ cr.deleting => cr.managed
  /\ cr.res.id # NoPool =>
       cr.managed /\ pools[cr.res.id].state # "unused"

\* However the CR moved since the worker read it, its id, its finalizer and
\* its deletion are as the worker saw them.
CopyStillGood ==
  pc # "idle" =>
    /\ desired.id = cr.res.id
    /\ managed => cr.managed
    /\ mode = "delete" => cr.deleting

\* What a location tells about the pool of the CR: it was found, it was found
\* missing and is still missing, or a new one has just taken its place.
LocationTells ==
  /\ pc \in {"listtags", "update", "delete"} =>
       desired.id # NoPool /\ latest.id = desired.id
  /\ pc \in {"manage", "create", "unmanage"} => ~Live(desired.id)
  /\ pc = "create" => managed
  /\ pc \in {"delete", "unmanage"} => mode = "delete"
  /\ pc \in {"manage", "create"} => mode = "sync"
  /\ pc \in {"tag", "untag", "patch"} => cr.managed
  /\ pc \in {"tag", "untag"} /\ next # "created" => latest.id = desired.id
  /\ pc \in {"tag", "untag", "patch", "status"} =>
       \/ latest.id = desired.id
       \/ /\ managed /\ ~Live(desired.id)
          /\ latest.id # NoPool /\ pools[latest.id].state # "unused"

\* Together, and with NoPoolForgotten, these are kept by every step and give
\* FinalizerHeld, DeletesOnlyItsOwn and IdLeavesOnlyDeadPools.
PassInvariant == CRShape /\ CopyStillGood /\ LocationTells /\ NoPoolForgotten

\* SyncTags has been called for a pool that was just created, or the call is
\* complete: the worker holds what the resource manager made of desired.
Returned == pc = "patch" \/ (pc \in {"tag", "untag"} /\ next = "created")

\* Its tags are the desired ones, so the spec patch finds no difference.
TagsAgree == Returned => latest.tags = desired.tags

\* The conditions to be patched tell the outcome, and there is a CR to patch.
OutcomeTold ==
  /\ pc # "status" => outcome = "none"
  /\ pc \in {"patch", "status"} => Tells(latest.conds, outcome)
  /\ pc = "status" => cr.managed

HasNoAws(t) == \A k \in AwsKeys : t[k] = Absent

\* Nothing the worker would send names an "aws:" tag, if the user's
\* UserPoolTags do not.
AwsSpared ==
  /\ HasNoAws(cr.res.userPoolTags) /\ HasNoAws(desired.userPoolTags)
  /\ Returned => HasNoAws(latest.userPoolTags)
  /\ pc \in {"tag", "untag"} => del \cap AwsKeys = {}

\* What the worker holds in the middle of a pass.  With PassInvariant it gives
\* SpecTagsAreTheUsers, ConditionsTellOutcome and AwsTagsUntouched.
WorkInvariant == TagsAgree /\ OutcomeTold /\ AwsSpared

-----------------------------------------------------------------------------
(* Liveness, under FairSpec                                                *)

\* Key by key, the tags the user and the controller ask for.
WantedTag(k) ==
  CASE cr.res.tags[k] = Absent -> DefaultTags[k]
    [] cr.res.tags[k] = Nil    -> Empty
    [] OTHER                   -> cr.res.tags[k]

TagsInLine ==
  \A k \in Keys \ AwsKeys : pools[cr.res.id].tags[k] = WantedTag(k)

SettingsInLine ==
  \A f \in Fields \cap UpdateRequestFields :
    cr.res.cfg[f] # Unset => pools[cr.res.id].cfg[f] = cr.res.cfg[f]

\* a CR the service can accept, which leaves the tags to Spec.Tags
Acceptable ==
  /\ cr.present /\ ~cr.deleting
  /\ ~PayloadError(cr.res.cfg, CreateRequestFields)
  /\ \A k \in AwsKeys : cr.res.tags[k] = Absent
  /\ cr.res.userPoolTags = NoTags

\* The service has refused what the CR asks for, and nothing has changed since.
GivenUp == pc = "idle" /\ ~queued

\* Once the environment is quiet the pool has, and keeps, every setting the
\* user can change and exactly the wanted tags - after any outage, crash,
\* drift, half-done tag update or removal of the pool.
Converges ==
  <>[](Acceptable /\ ~GivenUp =>
         Live(cr.res.id) /\ TagsInLine /\ SettingsInLine)

\* Nothing but a refusal keeps the pool of a CR being deleted: it is
\* protected, or the service answered a call of the last pass with an
\* InvalidParameterException for a reason of its own.
KeptByRefusal == Live(cr.res.id) => Protected(cr.res.id) \/ refused

\* A CR being deleted goes away, with its pool, unless the service refuses.
\* That is a terminal error whatever call it answers, so nobody tries again,
\* not even when the pool goes away in the console later.
DeletionEnds == cr.deleting ~> ~cr.present \/ (GivenUp /\ KeptByRefusal)

-----------------------------------------------------------------------------
(* What comments of the code say, and the code does not do                 *)

\* hook.go on SyncTags: the tags "stay in sync with the Resource.Spec.Tags".
\* Then a pool that was just created has them.
CreatedPoolHasTags ==
  (pc = "patch" /\ next = "created") =>
    \A k \in Keys : Has(desired.tags, k)
                      => pools[latest.id].tags[k] = desired.tags[k]

\* manager.go on FilterSystemTags: the read state "reflects only manageable
\* tags", which "prevents unnecessary update attempts".  Then a CR that leaves
\* UserPoolTags alone is not updated when the settings agree.
NoNeedlessUpdate ==
  (pc = "update" /\ cr.res.userPoolTags = NoTags)
    => ConfigDiffers(desired.cfg, latest.cfg)

\* manager.go on Update: it returns "the newly-mutated resource".  Then every
\* setting of the resource a successful Update returns is the pool's.
UpdateReturnsThePool ==
  (pc = "patch" /\ next = "update") =>
    \A f \in Fields \cap FoundFields :
      latest.cfg[f] # Unset => latest.cfg[f] = pools[latest.id].cfg[f]

\* hook.go on SyncTags again, under fairness: once the environment is quiet
\* the tags stay in sync with Spec.Tags.
TagsStayInSync ==
  <>[]((cr.present /\ ~cr.deleting /\ Live(cr.res.id)) => TagsInLine)

=============================================================================
