------------------------- MODULE PoolLifecycle_proofs -------------------------
(***************************************************************************)
(* What PoolLifecycle promises holds for every set of pool ids: one pool   *)
(* depends on the CR, under the finalizer, and orphans are paid for.       *)
(***************************************************************************)
EXTENDS PoolLifecycle, FiniteSetTheorems, TLAPS

PoolStep(p) ==
  Made(p) \/ Recorded(p) \/ Orphaned(p) \/ Deleted(p) \/ RemovedByOthers(p)

\* PoolLifecycle is well typed.
THEOREM LifecycleTypeCorrect == Spec => []LifecycleTypeOK
<1>1. Init => LifecycleTypeOK
  BY DEF Init, LifecycleTypeOK, Objects, Roles
<1>2. LifecycleTypeOK /\ [Next]_lifecycle => LifecycleTypeOK'
  <2> SUFFICES ASSUME LifecycleTypeOK, [Next]_lifecycle
               PROVE  LifecycleTypeOK'
    OBVIOUS
  <2>1. CASE Appears \/ TakenUnderControl \/ DeletionAsked \/ Released
               \/ Harmless
    BY <2>1 DEF Appears, TakenUnderControl, DeletionAsked, Released, Harmless,
                Mishap, NoMishap, LifecycleTypeOK, Objects
  <2>2. ASSUME NEW p \in PoolIds, PoolStep(p)
        PROVE  LifecycleTypeOK'
    BY <2>2 DEF PoolStep, Made, Recorded, Orphaned, Deleted, RemovedByOthers,
                Turns, Mishap, NoMishap, LifecycleTypeOK, Roles
  <2>3. CASE UNCHANGED lifecycle
    BY <2>3 DEF lifecycle, LifecycleTypeOK
  <2>4. QED
    BY <2>1, <2>2, <2>3 DEF Next, PoolStep
<1>3. QED
  BY <1>1, <1>2, PTL DEF Spec

\* OnePool: no second pool is made while one depends on the CR, and the CR
\* stays as long as one does.
THEOREM LifecycleOnePool == Spec => []OnePool
<1>1. Init => OnePool
  BY DEF Init, OnePool, Depending, InRole
<1>2. LifecycleTypeOK /\ OnePool /\ [Next]_lifecycle => OnePool'
  <2> SUFFICES ASSUME LifecycleTypeOK, OnePool, [Next]_lifecycle
               PROVE  OnePool'
    OBVIOUS
  <2>1. CASE Appears \/ TakenUnderControl \/ DeletionAsked \/ Released
               \/ Harmless
    BY <2>1 DEF Appears, TakenUnderControl, DeletionAsked, Released, Harmless,
                OnePool, Depending, InRole
  <2>2. ASSUME NEW p \in PoolIds, Made(p)
        PROVE  OnePool'
    BY <2>2 DEF Made, Turns, OnePool, Depending, InRole, LifecycleTypeOK
  <2>3. ASSUME NEW p \in PoolIds, PoolStep(p), ~Made(p)
        PROVE  OnePool'
    BY <2>3 DEF PoolStep, Recorded, Orphaned, Deleted, RemovedByOthers,
                Turns, OnePool, Depending, InRole, LifecycleTypeOK
  <2>4. CASE UNCHANGED lifecycle
    BY <2>4 DEF lifecycle, OnePool, Depending, InRole
  <2>5. QED
    BY <2>1, <2>2, <2>3, <2>4 DEF Next, PoolStep
<1>3. QED
  BY <1>1, <1>2, LifecycleTypeCorrect, PTL DEF Spec

\* Whatever has no more orphans than before keeps them paid for.
LEMMA FewerOrphans ==
  ASSUME LifecycleTypeOK, OrphansArePaidFor,
         InRole("orphan")' \subseteq InRole("orphan"),
         mishaps' \in {mishaps, mishaps + 1}
  PROVE  OrphansArePaidFor'
<1>1. /\ IsFiniteSet(InRole("orphan")')
      /\ Cardinality(InRole("orphan")') <= Cardinality(InRole("orphan"))
  BY FS_Subset DEF OrphansArePaidFor
<1>2. /\ Cardinality(InRole("orphan")) \in Nat
      /\ Cardinality(InRole("orphan")') \in Nat
  BY <1>1, FS_CardinalityType DEF OrphansArePaidFor
<1>3. QED
  BY <1>1, <1>2 DEF OrphansArePaidFor, LifecycleTypeOK

\* One orphan more for one mishap more keeps them paid for.
LEMMA OneMoreOrphan ==
  ASSUME LifecycleTypeOK, OrphansArePaidFor, NEW p,
         InRole("orphan")' = InRole("orphan") \union {p}, Mishap
  PROVE  OrphansArePaidFor'
<1>1. /\ IsFiniteSet(InRole("orphan")')
      /\ Cardinality(InRole("orphan")') \in
           {Cardinality(InRole("orphan")), Cardinality(InRole("orphan")) + 1}
  BY FS_AddElement DEF OrphansArePaidFor
<1>2. Cardinality(InRole("orphan")) \in Nat
  BY FS_CardinalityType DEF OrphansArePaidFor
<1>3. QED
  BY <1>1, <1>2 DEF OrphansArePaidFor, Mishap, LifecycleTypeOK

\* OrphansArePaidFor: an id is lost only in a step that is a mishap, and one
\* mishap loses one id.
THEOREM LifecycleOrphans == Spec => []OrphansArePaidFor
<1>1. Init => OrphansArePaidFor
  <2> SUFFICES ASSUME Init
               PROVE  OrphansArePaidFor
    OBVIOUS
  <2>1. InRole("orphan") = {}
    BY DEF Init, InRole
  <2>2. QED
    BY <2>1, FS_EmptySet DEF Init, OrphansArePaidFor
<1>2. LifecycleTypeOK /\ OrphansArePaidFor /\ [Next]_lifecycle
        => OrphansArePaidFor'
  <2> SUFFICES ASSUME LifecycleTypeOK, OrphansArePaidFor, [Next]_lifecycle
               PROVE  OrphansArePaidFor'
    OBVIOUS
  <2>1. CASE \/ Appears \/ TakenUnderControl \/ DeletionAsked \/ Released
             \/ Harmless \/ UNCHANGED lifecycle
    BY <2>1, FewerOrphans
       DEF Appears, TakenUnderControl, DeletionAsked, Released, Harmless,
           InRole, Mishap, NoMishap, lifecycle
  <2>2. ASSUME NEW p \in PoolIds,
               \/ Turns(p, "fresh", "coming") \/ Recorded(p) \/ Deleted(p)
               \/ RemovedByOthers(p),
               mishaps' \in {mishaps, mishaps + 1}
        PROVE  OrphansArePaidFor'
    <3>1. InRole("orphan")' \subseteq InRole("orphan")
      BY <2>2 DEF Recorded, Deleted, RemovedByOthers, Turns, InRole,
                  LifecycleTypeOK
    <3>2. QED
      BY <2>2, <3>1, FewerOrphans
  <2>3. ASSUME NEW p \in PoolIds,
               Turns(p, "fresh", "orphan") \/ Turns(p, "coming", "orphan"),
               Mishap
        PROVE  OrphansArePaidFor'
    <3>1. InRole("orphan")' = InRole("orphan") \union {p}
      BY <2>3 DEF Turns, InRole, LifecycleTypeOK
    <3>2. QED
      BY <2>3, <3>1, OneMoreOrphan
  <2>4. QED
    BY <2>1, <2>2, <2>3
       DEF Next, Made, Recorded, Orphaned, Deleted, RemovedByOthers, Mishap,
           NoMishap
<1>3. QED
  BY <1>1, <1>2, LifecycleTypeCorrect, PTL DEF Spec

=============================================================================
