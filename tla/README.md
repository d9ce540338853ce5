# Verification of the Cognito user pool controller

TLA+ models of the ACK controller for Amazon Cognito user pools, checked with
TLC and, for what matters most, proved with TLAPS. The code is the reference:
`pkg/resource/user_pool` of this repository.

## 1. The system

The controller keeps a Cognito user pool in line with a `UserPool` custom
resource (CR). The generic loop is the ACK runtime (a library, v0.59.1); this
repository gives it a resource manager, a descriptor, a delta and a factory.

| Component | Source | State it keeps | Operations |
|---|---|---|---|
| Resource manager | `sdk.go`, `manager.go` | none of its own; works on copies of the CR | `ReadOne`, `Create`, `Update`, `Delete`, `EnsureTags`, `FilterSystemTags` |
| Tags | `tags.go`, `hook.go` | none | conversions, `SyncTags` (`TagResource`, then `UntagResource`), `mirrorAWSTags` |
| Delta | `delta.go` | none | `newResourceDelta` compares field by field |
| Conditions | `sdk.go`, `manager.go` | `Status.Conditions` | `updateConditions`, `onError`, `onSuccess` |
| Factory | `manager_factory.go` | `rmCache` under an RWMutex | `ManagerFor` |
| Resource, descriptor | `resource.go`, `descriptor.go` | finalizer, deletion timestamp | `IsManaged`, `MarkManaged`, `MarkUnmanaged`, adoption |
| Controller process | `cmd/controller/main.go`, `helm/values.yaml` | the lease, its workers | start with or without leader election, exit |
| References, identifiers, registry | `references.go`, `identifiers.go`, `registry.go` | a list filled before start | constants and wiring |
| API types | `apis/v1alpha1` | - | data definitions, generated deep copies |

How they interact: a worker of the runtime takes a request for one CR from the
work queue, gets a resource manager from the factory, reads the CR and calls
`EnsureTags` and `ReadOne` (two calls to the service). No pool: the finalizer
is added and `Create` is called. A pool: the delta decides whether `Update` is
called (up to three calls). At the end the spec and then the status are patched
into the API server. A CR that is being deleted is read, its pool is deleted
and the finalizer removed. Nothing but the CR survives a restart.

What makes it hard: every call to the service may fail, or take effect and lose
its answer; the process may die between any two calls; the user edits and
deletes the CR meanwhile; the service and operators change tags and remove
pools; two fields (`Tags`, `UserPoolTags`) drive one set of tags; several
workers share the factory; several replicas of the process may take over from
each other in the middle of a pass; and inside a field, int64 members become
int32 and nil ones zero on the way to the service.

What makes each component correct:

- resource manager: one pool per CR, its id is not lost, nothing is deleted by
  mistake, the finalizer stays while a pool depends on the CR, the pool
  converges on the spec, a deletion ends;
- tags: user tags, controller tags and `aws:` tags each stay with their owner,
  half-done work loses nothing, what is in line is left alone;
- conditions: they tell how the last pass ended;
- factory: no racing map access, right manager, reuse, no deadlock;
- delta and the conversions: what the user wrote arrives or is refused, and what
  the service answers is not taken for a difference;
- process: however many replicas there are, they act as one.

`PROJECT.json` lists the hazards line by line with the properties that cover
them.

## 2. Modules

| Module | What it holds |
|---|---|
| `Tags` | tag maps and the operators of `tags.go`, `hook.go` and `manager.go` on them |
| `TagPass` | one pass over the tags of an existing pool, from any tags: `SyncTags`, then `UpdateUserPool` as the delta asks for them |
| `UserPoolFields` | which spec fields each generated function reads, sends, overwrites, compares |
| `Conditions` | `updateConditions`, `onError`, `onSuccess` |
| `UserPoolReconcile` | the reconciliation of one CR: user, API server, worker, service, faults |
| `UserPoolQuiet` | what a pass of it achieves when nobody disturbs it, and what follows |
| `PoolLifecycle` | the abstract specification: what the controller promises about a CR and its pools |
| `UserPoolRefinement` | the mapping under which `UserPoolReconcile` implements it, and the account of the pools that are made |
| `Replicas` | several replicas of `UserPoolReconcile`'s worker, with leader election; what their fairness waits for |
| `PasswordPolicy` | inside one field: nil, zero and int32 between CR and service |
| `ManagerFactory` | concurrent `ManagerFor` |
| `MCTagPass`, `MCReconcile`, `MCReplicas`, `MCPasswordPolicy`, `MCManagerFactory` | instances for TLC |
| `Tags_proofs`, `TagPass_proofs`, `ManagerFactory_proofs`, `UserPoolReconcile_proofs`, `UserPoolQuiet_proofs`, `PoolLifecycle_proofs`, `UserPoolRefinement_proofs`, `PasswordPolicy_proofs` | theorems and proofs; those of `Replicas` are in `UserPoolRefinement_proofs` |

`UserPoolReconcile` extends `Tags`, `UserPoolFields` and `Conditions`, so the
same operators are checked by themselves and inside the loop. Definitions
whose comment begins with "faulty" are deliberate errors in the style of a
plausible bug. No specification uses them; they replace a definition to show
that a property notices.

```
Tags  UserPoolFields  Conditions
   \        |          /
     UserPoolReconcile  --- UserPoolRefinement ---> PoolLifecycle
            |
        Replicas  --- implements ---> FairSpec of UserPoolReconcile
```

### State and code

Of `UserPoolReconcile`: `cr` is the object in the API server, with its
finalizer (`managed`), deletion timestamp (`deleting`), spec, `Status.ID` and
conditions; `pools` is the service. `pc` is the next remote call. `desired` and
`latest` are the two resources the runtime passes to the resource manager;
`add`, `del` are the lists of `SyncTags`, `next` what follows it. `outcome` is
the error of the pass, `queued` says whether the work queue has, or will get, a
request. `reported`, `lost` and `refused` are history variables: the outcome
told last, the ids a fault kept from reaching `Status.ID`, and whether a call of
the last pass over a deletion was refused for a reason outside the model.

There is one action for each remote call and outcome, since everything else may
move between two calls:

| Code | Actions |
|---|---|
| `sdkFind`, `DescribeUserPool` | `DescribeNotFound`, `DescribeFound`, `DescribeFails` |
| `sdkFind`, `ListTagsForResource`, `mirrorAWSTags`, delta, lists of `SyncTags` | `ListTagsOk`, `ListTagsFails` |
| finalizer | `Manage`, `ManageFails`, `Unmanage`, `UnmanageFails` |
| `sdkCreate` | `CreateRefused` (int32), `CreateOk`, `CreateFails`, `CreateAnswerLost` |
| `SyncTags` | `TagOk`, `TagFails`, `TagAnswerLost`, `UntagOk`, `UntagFails` |
| `sdkUpdate` | `UpdateRefused`, `UpdateOk`, `UpdateFails`, `UpdateAnswerLost` |
| `sdkDelete` | `DeleteOk`, `DeleteFails`, `DeleteAnswerLost` |
| end of a pass | `PatchSpec`, `PatchSpecFails`, `PatchStatus`, `PatchStatusFails` |

`PoolLifecycle` has no calls, copies or passes. The CR is `none`, `free`,
`held` (under the finalizer) or `leaving`; each pool id is `fresh`, `coming` (made, on its
way into the CR), `own`, an `orphan` or `gone`. `UserPoolRefinement` reads the
first from the finalizer and the deletion timestamp, the second from the
service and from who knows the id: `Status.ID` or the worker. Mishaps are the
faults.

`Replicas` composes copies of the worker. The worker variables of
`UserPoolReconcile` are those of the replica in `front`; the workers of the
others are `parked`, and `ComesToFront` exchanges them, so the actions of
`UserPoolReconcile` are used as they are. `leader` is the holder of the lease,
`working` the replicas past `mgr.Start`. A replica starts when the flag allows
it (`MayStart`), lists every CR when it does, and `Dies` when it crashes or
`main` exits on the error of `mgr.Start`; its lease then `Expires`.

`PasswordPolicy` follows one policy: `Begin` reads the CR, `Refused` is the
int32 test, `Create` and `Update` encode, `DecodeCreated` and `DecodeFound` are
the ways back in `sdkCreate` and `sdkFind`, `Differs` is the delta, `PatchSpec`
the merge patch of what Create changed in its copy.

### What is external

The ACK runtime, the API server and Cognito are not in this repository; they
are modelled from how this code is driven and marked external where no line of
it says what they do:

- the loop: conditions are reset at the start of a sync; `NotFound` from
  `ReadOne` leads to the finalizer and `Create` in a sync, to the removal of
  the finalizer in a deletion; the spec patch goes through `FilterSystemTags`
  on both sides; the status patch is made also when the pass failed;
- requeueing: a failed pass is retried, a good one is followed by one at the
  resync (`helm/values.yaml`, `defaultResyncPeriod`), but a pass that ended
  with `ackerr.Terminal` (`manager.go:397-404`) is not retried until the CR
  changes or the process restarts (`PassIsOver`);
- the work queue gives one CR to one worker at a time;
- `UpdateUserPool`: a setting the request leaves out is kept or goes back to
  the default, and `UserPoolTags` replace the pool's tags or are added to them.
  Both are possible at every step (`resets`), so nothing rests on either;
- the service keeps one set of tags behind `Tags` and `UserPoolTags`, refuses
  `aws:` keys in `TagResource`, and does not delete a protected pool
  (`apis/v1alpha1/user_pool.go`, comment on `DeletionProtection`). These are
  refused every time. Besides, any call may be refused with an
  `InvalidParameterException` for a reason the model does not hold (`NotTaken`:
  a function that is not there, a pool that still has a domain), `Describe` and
  `ListTags` included; such refusals are counted as faults. Whatever the call
  and the reason, the code makes the error terminal (`sdk.go:1793-1807`,
  `manager.go:384-406`);
- the user may edit the spec of a CR that waits for its finalizer, and cannot
  take its deletion back;
- the deletion policy is the default (`helm/values.yaml`, `deletionPolicy:
  delete`);
- the lease (client-go): it has one holder, and a replica that cannot renew it
  stops before it expires. That is a matter of clocks: a process that stands
  still and goes on after its lease has expired is left out;
- what Cognito makes of a password policy (`Taken`): what is left out becomes
  what it was or the default, and a zero may count as left out, since the
  request cannot tell. All of these are possible at every call;
- `HasNilDifference` of the runtime may take a zero for nil or not
  (`lenient`); every run covers both.

### Abstractions

Tags are functions on a set of keys; a nil map and an empty one are the same
function because no reader tells them apart. A nil value is a value of its own:
the Go type of `Spec.Tags` (`map[string]*string`) admits it, and the conversions
and `SyncTags` are checked for it in `TagPass`, but the CRD lets none through.
The value of a field is opaque, apart from "holds an integer outside int32".
`PasswordPolicy` looks inside one field: two numbers, one with a pointer in the
request and one without, and one of the four flags; the other nested fields are
made of the same kinds of members. Of the errors, the terminal one, `ResourceNotFoundException`, the int32 refusal
and "any other" are told apart. Condition messages and the status attributes
that only mirror the response are left out.

## 3. Runs

| Run | Instance | What it shows |
|---|---|---|
| `tag_pass` | 3 keys (user's, controller's, `aws:`), all tag maps with nil and empty values | a pass brings the pool in line; nil never reaches a dereference; `aws:` tags are never sent; a half-done pass loses nothing; the tags of a pool in line are left alone, although the pool is updated (finding 2) |
| `reconcile_safety` | 4 pool ids, 2 faults, 3 user actions, 5 specs | see below |
| `reconcile_live` | 3 pool ids, 1 fault, 3 user actions, 3 specs | `Converges`, `DeletionEnds`, and `NeverStuck`: whatever a call answers, the code has a branch for it, and an idle worker does nothing |
| `lifecycle` | 4 pool ids, 2 faults, 3 user actions | `UserPoolReconcile` implements `PoolLifecycle` (`KeepsThePromise`), and orphaned pools never outnumber the faults (`OrphansArePaidFor`) |
| `replicas` | 2 replicas, 3 pool ids, 1 fault, 3 user actions, 2 deaths | the replicas implement `FairSpec` of `UserPoolReconcile` (`ActsAsOne`), forget no pool, never work at once, and none waits for a step that cannot be taken (`ReplicasNeverStuck`) |
| `password_policy` | int32 is -4..3, 10 policies, 2 edits | no overflow reaches the service, a CR that took over Create's answer is settled, the patch spares edits, the pool converges |
| `manager_factory` | 3 workers, 2 combinations | the cache, its lock and its progress; no state in which all calls wait (`NobodyIsStuck`) |
| `create_tags`, `needless_update`, `update_returns`, `both_tags`, `two_managers` | the smallest instance that shows it | what a comment says and the code does not do |

`reconcile_safety` checks that no pool is forgotten (`NoPoolForgotten`), that
the finalizer is there while a pool depends on the CR (`FinalizerHeld`), that
only the right pool is deleted and the CR let go only afterwards
(`DeletesOnlyItsOwn`), that a second pool is made only after the first is gone
(`IdLeavesOnlyDeadPools`), that `aws:` tags are not touched whatever moved since
they were listed (`AwsTagsUntouched`), that only the user changes `Spec.Tags`
(`SpecTagsAreTheUsers`) and that conditions tell the outcome
(`ConditionsTellOutcome`). `RefusalsAreEarned` says that a deletion nobody
works on any more was refused by the service in its last pass: the pool is
protected, or a call was answered with an `InvalidParameterException` for
another reason (`KeptByRefusal`). No outage, lost answer, crash, failed patch or
pool that vanishes between two calls ends the retries, and a sync which fails
for good does not swallow a deletion the user asked for meanwhile.
`UndisturbedPass` says what one pass achieves from any state it finds when
nobody disturbs it: a sync of a CR the service can accept ends without an error
and with the pool in line (or with a new pool that has the settings; its tags
wait for the next pass, finding 1), and spoils nothing on the way; a deletion
ends with the CR gone, unless the pool is protected. `SyncOnTrack` and
`DeleteOnTrack` say it location by location.

`PoolsAreCalledFor` counts. Nothing but `Status.ID` tells a pass that an earlier
one has created the pool, and the request carries no token that would make a
retry harmless. Still, a CR the user creates gets one pool, however often a pass
fails, is retried, or finds the CR edited or deleted meanwhile; only a fault
costs another one. `Made` are the pools that were ever made, `Creations` how
often the user has created the CR, read off the number of his actions and the
state of the CR. The mutant compares the tags of a new pool with what the
service has, which would repair finding 1 and let a refused tag cost the pool
its id, and so a second pool.

The inductive invariants of the proofs (`PassInvariant`, `WorkInvariant`,
`PassInv`, `PolicyInvariant`, `PoolsInAccount`) were checked on these instances
before they were proved. They hold for every instance now, so no run repeats
them; nor do `tag_pass` and `manager_factory` repeat the type invariants of
their modules, which are proved and which the other invariants rest on.

`NoPoolForgotten` excepts the ids in `lost`: the code has no idempotency token,
so a lost answer of `CreateUserPool`, or a crash or failed status patch before
the id is saved, does orphan a pool. The property says that nothing else does.

### Bounds, and why they are enough

- `MaxFaults`: two faults are enough for a fault during the recovery from
  another one (a lost answer, then a crash). One for liveness, where the bound
  also means that faults end.
- `MaxEdits`: create, edit and delete, or create, delete and create again.
- `PoolIds`: at least one for each fault that can cost a pool and one for each
  incarnation of the CR (`EnoughIds`); with fewer `CreateOk` would be blocked for
  want of an id. `ReconcileMissesNothing` proves that this many are enough for
  all values of the bounds, and all instances have them. Ids are symmetric in the
  safety run.
- fields: one that can be updated and guards deletion, one that can be updated
  and is narrowed to int32, one that can only be set at creation. These are
  the three kinds `UserPoolFields` knows apart from `Schema`.
- `lifecycle`: as `reconcile_safety`, with two specs instead of five, one of
  them protected, since tags and values are no part of the promise. The ids are
  symmetric there too: neither specification tells one from another.
- `replicas`: two deaths are enough for a failover during the recovery from
  another one, and for the first replica to come back. The proof (section 5) is
  for any number of replicas and deaths.
- `password_policy`: both ends of int32 and the values just beyond, nil and
  zero in every member, a whole and an empty policy. Two edits let the user
  write, in the middle of a Create and again after it.
- keys: the user's, the controller's (which the user may also set) and the
  service's; operators on tags act key by key.

### Fairness

`FairSpec` asks for weak fairness of the controller's steps as a whole: a
queued request is taken up and a worker does not stop inside a pass. The
runtime's work queue, retries and resync justify it. It asks nothing of the
user, the service or faults, and it does not retry what the runtime does not
retry: after a terminal error `queued` is false and the worker may rest. So
`Converges` and `DeletionEnds` make an exception of a CR that was given up.
The exception of `DeletionEnds` is what the code does with a refusal, no more
and no less (`KeptByRefusal`): the pool is protected; or some call of the last
pass was answered with an `InvalidParameterException` of another cause, say
because the pool still has a domain; or the pool was removed by hand after its
deletion had been refused. In each case nobody looks again before the CR changes
or the process restarts (`manager.go:397-402`), even when the cause is gone.

A consequence of finding 2 below: since a pool always carries the controller's
tags, every pass over it ends in `UpdateUserPool`, which sends all settings. So
the settings converge even where the delta would miss a difference, and once
finding 2 is repaired `Converges` has to be checked again.

`FairReplicaSpec` asks that some replica is started again (the deployment), that
a lease without a living holder expires, and that the worker of a working
replica gets its turn and does not stop. From that, with deaths bounded by
`MaxDeaths`, TLC shows the fairness `FairSpec` asks for, and section 5 proves it
for any number of replicas when deaths end (`DeathsEnd`). Endless deaths would
defeat it, as they would defeat the program.

`FairSpec` of `PasswordPolicy` is the same weak fairness of the controller as a
whole: a retry or a resync comes. Remote failures are not repeated there, but
for the failing patch, so a pass that was refused is followed by another one.

`ManagerFactory` assumes that a goroutine inside `ManagerFor` runs on, and Go's
rule that a waiting writer keeps new readers out.

## 4. What the code does otherwise than it says

1. `create_tags`: `sdkCreate` compares the desired tags with a copy of
   themselves; a new pool has no tags until a later pass.
2. `needless_update`: all tags of the pool are read into `UserPoolTags` and
   compared, so a pool with tags is updated at every pass.
3. `update_returns`: `Update` returns what was asked for; settings that
   `UpdateUserPool` cannot change are reported as changed.
4. `both_tags`: a key with different values in `Tags` and `UserPoolTags` is
   rewritten for ever.
5. `two_managers`: `ManagerFor` checks under one lock and acts under another;
   two managers for one combination are possible. They are interchangeable.

## 5. Proofs

For all values of the constants under the named assumptions (`TagAssumption`,
`DefaultTagsAssumption`, `FieldAssumption`, `ReconcileAssumption`,
`ReplicasAssumption`, `NoneAssumption`), of which TLC evaluates each on its instances:

- `Tags_proofs`: the plan of `SyncTags` turns the existing tags into the desired
  ones (`PlanReachesDesired`), and the types of the tag operators.
- `TagPass_proofs`: type correctness, all five properties of the run, and that
  a pass leaves the user's `Spec.Tags` alone (`PassKeepsSpec`). The inductive invariant `PassInv`
  says, stage by stage, what the working copies are in terms of `Spec.Tags` and
  the tags when the pass began.
- `ManagerFactory_proofs`: type correctness, the three safety properties, and
  `FactoryNobodyIsStuck`: there is no deadlock for any number of workers. The
  invariant ties the lock's state to the workers' locations, and the writers
  that keep readers out to those that wait for the lock: some holder or some
  writer can always move on.
- `UserPoolReconcile_proofs`: type correctness, then `NoPoolForgotten`,
  `FinalizerHeld`, `DeletesOnlyItsOwn` and `IdLeavesOnlyDeadPools`. None is
  inductive by itself: whether `DeleteOk` deletes the right pool depends on what
  the worker read several steps earlier. `PassInvariant` adds what survives the
  interference: an id is kept only under a finalizer (`CRShape`); id, finalizer
  and deletion of the CR are still as the worker saw them (`CopyStillGood`),
  because the user cannot remove a finalizer or take a deletion back; and each
  location tells whether the CR's pool was found, is missing, or was just
  replaced (`LocationTells`), because a pool that is gone does not come back.
  It also gives `ReconcileOneLives`: two pools never live side by side for one
  CR, unless a fault took the id of one.
  The interference lemmas (`UserMoves`, `ServiceMoves` and their like) are
  proved once, then every action is a case.

  `WorkInvariant` does the same for the data the worker holds: the tags it
  returns agree with those it was given (`TagsAgree`), its outcome is in the
  conditions once they are told (`OutcomeTold`), and nothing it plans to remove
  is an `aws:` key (`AwsSpared`). From it follow `SpecTagsAreTheUsers`,
  `ConditionsTellOutcome` and `AwsTagsUntouched`. The last, and `WorkInvariant`
  as a whole, are proved under the assumption `UserTagsAreOurs`: no user writes
  an `aws:` key into `UserPoolTags`, which the code does not filter as it does
  `Tags`. The runs' instances meet it.
- `UserPoolQuiet_proofs`: what the controller achieves, in three layers.
  1. One step. `ReconcileUndisturbed` proves `UndisturbedPass` action by action.
     The facts that carry it are about the operators: the two calls of
     `SyncTags` together give every key but the `aws:` ones its wanted value
     (`PlanHolds` survives each call), and an update that the delta does not ask
     for is not needed. `ReconcileAdvances` proves that each call brings the pass
     nearer to its end, whatever moves around it: seven calls at most.
  2. One pass. By the finitely many values of `CallsLeft`, a worker that keeps
     working ends its pass; the pass that begins after the last disturbance is
     on track to its end.
  3. Passes in a row. `ReconcileConverges` and `ReconcileDeletes` prove the
     liveness properties `Converges` and `DeletionEnds` of `Spec` under two
     conditions that are stated as formulas: `ComesToRest` (users, faults and
     drift stop, at no known time) and `KeepsWorking` (the controller does not
     stop for ever while it has something to do). They hold for all specs,
     fields, tags and pools, which no run reaches. `ReconcileRefusals` adds that
     a deletion that is given up was refused by the service in its last pass.

  `FairReconcileKeepsPromises` takes `KeepsWorking` from the weak fairness of
  `FairSpec` and from `NeverStuck`, the one fact about ENABLED that is needed,
  which TLC checks in `reconcile_live`.
- `PoolLifecycle_proofs`: at most one pool depends on a CR, under the finalizer
  (`LifecycleOnePool`), and every orphan has a mishap of its own
  (`LifecycleOrphans`), by induction on the steps with the library's theorems
  on finite sets.
- `UserPoolRefinement_proofs`: every step of `UserPoolReconcile` maps to a step
  of `PoolLifecycle` or to a stutter, with `PassInvariant` before and after it
  (`ReconcileImplementsLifecycle`). One more invariant is needed,
  `CreateSyncsNothing`: because of finding 1, `sdkCreate` never has a tag call
  under way, so a refused tag cannot end a pass that carries a new id. When
  finding 1 is repaired this step of the proof fails, rightly: a tag the service
  refuses (an `aws:` key the user wrote) would then end the pass before the id
  of the new pool is patched, and cost a pool without any fault.

  `ReconcileMakesWhatIsCalledFor` proves `PoolsAreCalledFor`. The count alone is
  not inductive: whether `CreateOk` may make a pool depends on why the worker is
  there. `PoolsInAccount` adds the pool that is due: the CR asks for one and has
  none, or the pass under way saw it do so and has not made it yet. Then every
  step is one of five kinds, each with a lemma: the user creates the CR and a
  pool becomes due (`AccountOfUser`), the pool that was due is made
  (`AccountOfPool`), a fault pays for whatever it causes, the id of a new pool
  reaches `Status.ID`, or nothing becomes due (`AccountStays`, `AccountOfCall`).
  Since the bounds enter the account, `ReconcileMissesNothing` follows: with
  `EnoughIds`, no call of the controller lacks what its guard asks for, an id
  for the new pool or a CR to patch. Every other guard comes with its opposite,
  in the same location, so this is what can be proved of `NeverStuck`.

  `ReplicasImplementOne` shows that the replicas implement `Spec` of
  `UserPoolReconcile`, because at most one works (`OneAtWork`) and a parked
  worker is at rest; with it, what was proved of one controller holds of any
  number of replicas: `ReplicasForgetNoPool`, `ReplicasKeepThePromise`,
  `ReplicasSpareAwsTags` and ten safety properties in `ReplicasAreSafe`.

  Their liveness is proved from `ReplicasGoOn`, the fairness of each part said
  without ENABLED: whoever may start, come to the front, lose the lease or go on
  with a pass does not wait for ever. `ReplicasTakeOver` takes it apart. When
  deaths have ended, a state in which nobody works either has no holder of the
  lease, so that some replica starts, or the lease of a dead one expires; the
  replica that works is never joined by another, comes to the front, stays there
  and does what there is to do (`WhoCan`, `NobodyDies`, `WhatFairnessBrings`).
  `ReplicasActAsOne` concludes `ActsAsOne`, safety and fairness, and
  `FairReplicasKeepPromises` that replicas converge and end deletions, both from
  `FairReplicaSpec` with `ReplicasNeverStuck` in place of what ENABLED means.
- `PasswordPolicy_proofs` (under `PolicyAssumption`): type correctness,
  `NumbersAreMeant`, `SettledAfterCreate` and `PatchSparesWhatWasSet`, for every
  width of int32. The lemmas say what each conversion does to a member:
  `int32(n)` is `n` where the range was tested (`NarrowIsIdentity`), the request
  carries what fits (`EncodeKeeps`), the service keeps what was sent unless that
  said nothing (`TakenKeeps`). `PolicyInvariant` adds to the properties what a
  pass knows of the pool: defaults and zeros that a patch wrote into the CR come
  back in the next request, so all four copies have to hold only what was meant
  (`AllMeant`). `PolicyFollows` proves `PolicyConverges` when the user stops
  editing (`UserRests`) and one pass follows another (`PassesGoOn`): each pass
  brings the members the user set, and none takes one back (`Follows`).

Only model-checked, because the provers reach neither ENABLED nor induction on
data:

- `NeverStuck` and `ReplicasNeverStuck`, and that weak fairness makes passes go
  on in `PasswordPolicy` (`PassesGoOn`): they ask which actions are enabled. In
  the theorems on liveness the first two are hypotheses; the runs
  `reconcile_live` and `replicas` check them.
- That the bounds of an instance bring its environment to rest. `ComesToRest`,
  `UserRests` and `DeathsEnd` are hypotheses of the theorems, not consequences of the
  counters: deriving them needs an induction on numbers. TLC confirms them on
  the instances, where they follow from `MaxFaults`, `MaxEdits` and `MaxDeaths`.
- `CallsReturn`: that a call of `ManagerFor` returns, where
  `FactoryNobodyIsStuck` proves only that some call can always go on. A call
  waits for every reader and every writer before it, so its proof counts
  workers: an induction again.

`ReconcileAssumption` also says that the service's defaults fit an int32, as
every integer of a response of Cognito does.

## 6. Not modelled

- Adoption and its annotation, read-only resources, the retain policy: they run
  in the runtime; the hooks here only set `Status.ID`, and no code in the
  repository calls them.
- A leader that stands still past the end of its lease and then goes on: it is
  the library's matter, and no code here guards against it (`main.go` passes
  only the flag and the id of the lease).
- Two replicas without leader election. It is off by default; the chart
  requires it for several replicas (`helm/values.yaml:163`), which nothing
  enforces, and `ReplicasAssumption` follows the chart. What would happen
  without it only the mutant of `NoReplicaForgets` shows.
- Nested fields other than `PasswordPolicy`: generated code of the same shapes.
  `Schema`, which is compared but neither found nor updated: the repository
  promises nothing about editing it.
- An explicit zero of a member without a pointer in the request cannot be told
  from one that was left out, so what survives is the service's decision;
  `PolicyConverges` excepts it.
- The second `ReadOne` the runtime makes after `Create`, and changes of settings
  by hand in the console.
- `LateInitialize`, `IsSynced`, `ResolveReferences`: constant in this code.
- Registry, flags, health server and wiring of the process; manifests.

## 7. Plan

1. Done: tags, factory, the core loop; type and safety theorems of each.
2. Done: `PoolLifecycle`, the refinement of it, checked and proved.
3. Done: replicas with leader election, checked and proved to act as one.
4. Done: `PasswordPolicy`, checked and proved.
5. Done: proofs of `AwsTagsUntouched`, `SpecTagsAreTheUsers` and
   `ConditionsTellOutcome`.
6. Done: what an undisturbed pass achieves, and convergence and the end of
   deletions from it; the factory's freedom from deadlock; convergence of a
   password policy; all of it for replicas too.
7. Done: the account of the pools that are made; the fairness part of
   `ActsAsOne`.
8. Left: `CallsReturn`, the two invariants on ENABLED and the hypotheses that an
   environment comes to rest, for provers that reach them.
9. Left: adoption (the id from the annotation, empty ids, `MarkAdopted`) once
   code of the repository drives it, and the remaining nested fields if they
   come to differ from `PasswordPolicy` in kind.
