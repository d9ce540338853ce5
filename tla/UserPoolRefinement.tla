-------------------------- MODULE UserPoolRefinement --------------------------
(***************************************************************************)
(* UserPoolReconcile, with every remote call, copy and patch, implements   *)
(* PoolLifecycle: the mapping from the state of the one to the state of    *)
(* the other.                                                              *)
(***************************************************************************)
EXTENDS UserPoolReconcile, FiniteSets

\* the CR by its deletion timestamp and its finalizer
ObjectOfCR ==
  CASE ~cr.present                               -> "none"
    [] cr.present /\ ~cr.managed                 -> "free"
    [] cr.present /\ cr.managed /\ ~cr.deleting  -> "held"
    [] cr.present /\ cr.managed /\ cr.deleting   -> "leaving"

\* a pool by its state in the service and by who knows its id
RoleOfPool(p) ==
  CASE pools[p].state = "unused"                        -> "fresh"
    [] pools[p].state = "gone"                          -> "gone"
    [] Live(p) /\ p = cr.res.id                         -> "own"
    [] Live(p) /\ p # cr.res.id /\ p \in Carried        -> "coming"
    [] Live(p) /\ p # cr.res.id /\ p \notin Carried     -> "orphan"

RoleOfPools == [p \in PoolIds |-> RoleOfPool(p)]

Lifecycle ==
  INSTANCE PoolLifecycle
    WITH object <- ObjectOfCR, role <- RoleOfPools, mishaps <- faults

\* SyncTags makes no call on behalf of sdkCreate, whose two arguments are the
\* same tags.  So no refusal of a tag can cost the id of a new pool.
CreateSyncsNothing == pc \in {"tag", "untag"} => next # "created"

\* The promise is kept: every call of sdkCreate, sdkDelete and SyncTags, every
\* patch, crash and lost answer does to the CR and its pools what
\* PoolLifecycle allows, or nothing.
KeepsThePromise == Lifecycle!Spec

\* Every live pool that neither Status.ID nor the pass under way knows was
\* paid for by a fault of its own: the recovery from one fault never costs a
\* second pool (sdkCreate sends no idempotency token, so one is all it takes).
OrphansArePaidFor == Lifecycle!OrphansArePaidFor

-----------------------------------------------------------------------------
(* How many pools are made                                                 *)

Made == {p \in PoolIds : pools[p].state # "unused"}

\* How often the user has created the CR, at most: before each creation but
\* the first there was a deletion.
Creations == (edits + (IF cr.present /\ ~cr.deleting THEN 1 ELSE 0)) \div 2

\* No pool is made that nobody called for: one for each CR the user creates,
\* and one for each fault.  However often a pass fails, is retried or finds
\* the CR edited or deleted meanwhile, sdkCreate succeeds once, although
\* nothing but Status.ID tells the next pass that it did.
PoolsAreCalledFor == Cardinality(Made) <= Creations + faults

\* The next pool is called for already: the CR asks for one and has none, or
\* the pass under way has seen it do so.
PoolIsDue ==
  /\ ~Live(cr.res.id) /\ Carried = {}
  /\ \/ cr.present /\ ~cr.deleting
     \/ mode = "sync" /\ pc \in {"describe", "manage", "create"}

\* PoolsAreCalledFor with the pool that is still due: the inductive form.
PoolsInAccount ==
  2 * (Cardinality(Made) + (IF PoolIsDue THEN 1 ELSE 0))
    <= edits + (IF cr.present /\ ~cr.deleting THEN 1 ELSE 0) + 2 * faults

\* The service can always assign one more id.  The model has finitely many;
\* EnoughIds says when no behaviour of it notices.
EnoughIds ==
  /\ IsFiniteSet(PoolIds)
  /\ (MaxEdits + 1) \div 2 + MaxFaults <= Cardinality(PoolIds)

\* What a call finds missing that has no branch for it: an id for a new pool,
\* or a CR to patch.  Every other guard comes with its opposite (NeverStuck).
NothingMissing ==
  /\ pc = "create" => Made # PoolIds
  /\ pc = "patch" => cr.present

=============================================================================
