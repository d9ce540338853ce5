---------------------------- MODULE PasswordPolicy ----------------------------
(***************************************************************************)
(* Inside one field: Spec.Policies.PasswordPolicy on its way from the CR   *)
(* to the service and back.                                                *)
(*                                                                         *)
(* Translated from newCreateRequestPayload and newUpdateRequestPayload     *)
(* (int64 narrowed to int32, nil turned into zero where the request has no *)
(* pointer), sdkCreate and sdkFind (the way back, where every member that  *)
(* has no pointer is set) and newResourceDelta (member by member). Of the  *)
(* four flags there is one, 1 for true and 0 for false; the struct around  *)
(* the policy is left out. AdminCreateUserConfig and                       *)
(* AccountRecoverySetting are made of the same kinds of members. Remote    *)
(* failures are those of UserPoolReconcile and left out here, but for the  *)
(* patch that may fail.                                                    *)
(***************************************************************************)
EXTENDS Integers

CONSTANTS
  Nil,
  Half,       \* int32 is -Half..Half-1
  Policies,   \* the policies a user may write, Nil among them
  Defaults,   \* the policy of a pool nobody set one for
  MaxEdits    \* bound on edits

Int32 == (-Half)..(Half - 1)

Numbers == {"MinimumLength", "TemporaryPasswordValidityDays"}
Members == Numbers \union {"RequireNumbers"}

\* what a user may write: int64, a flag, or nothing
UserPolicies ==
  [MinimumLength : Int \union {Nil}, RequireNumbers : {0, 1, Nil},
   TemporaryPasswordValidityDays : Int \union {Nil}]

\* what the service keeps: MinimumLength may be nil there, the rest not
ServicePolicies ==
  [MinimumLength : Int32 \union {Nil}, RequireNumbers : {0, 1},
   TemporaryPasswordValidityDays : Int32]

ASSUME PolicyAssumption ==
  /\ Half \in Nat \ {0} /\ MaxEdits \in Nat
  /\ Nil \notin Int /\ Nil \notin UserPolicies
  /\ Policies \subseteq UserPolicies \union {Nil}
  /\ Defaults \in ServicePolicies

VARIABLES
  spec,     \* the policy in the CR
  pool,     \* the policy in the service, Nil: no pool yet
  pc,
  desired,  \* the copy the pass works on
  latest,   \* what it has read, or learnt from Create
  lenient,  \* external: HasNilDifference takes a zero for nil
  written,  \* history: what the user ever wrote, member by member
  synced,   \* history: the answer of Create is in the CR, no edit since
  edits

vars == <<spec, pool, pc, desired, latest, lenient, written, synced, edits>>

Member(p, m) == IF p = Nil THEN Nil ELSE p[m]

WrittenIn(p) == {<<m, Member(p, m)>> : m \in Members}

TypeOK ==
  /\ spec \in UserPolicies \union {Nil}
  /\ pool \in ServicePolicies \union {Nil}
  /\ pc \in {"idle", "call", "patch", "update"}
  /\ desired \in UserPolicies \union {Nil}
  /\ latest \in UserPolicies \union {Nil}
  /\ lenient \in BOOLEAN /\ synced \in BOOLEAN
  /\ edits \in 0..MaxEdits

Init ==
  /\ spec \in Policies
  /\ pool = Nil
  /\ pc = "idle" /\ desired = Nil /\ latest = Nil
  /\ lenient \in BOOLEAN
  /\ written = WrittenIn(spec)
  /\ synced = FALSE
  /\ edits = 0

-----------------------------------------------------------------------------
(* To the request                                                          *)

\* faulty: only the upper end is tested
FitsAbove(p) == \A m \in Numbers : Member(p, m) # Nil => p[m] < Half

\* otherwise "field ... is of type int32"
Fits(p) == \A m \in Numbers : Member(p, m) # Nil => p[m] \in Int32

\* int32(n)
Narrow(n) == ((n + Half) % (2 * Half)) - Half

\* MinimumLength is a pointer in the request too; the others are not, and are
\* zero when the CR says nothing
Encode(p) ==
  IF p = Nil THEN Nil
  ELSE [m \in Members |->
          CASE p[m] = Nil /\ m = "MinimumLength" -> Nil
            [] p[m] = Nil /\ m # "MinimumLength" -> 0
            [] p[m] # Nil /\ m \in Numbers       -> Narrow(p[m])
            [] OTHER                             -> p[m]]

\* External: what the service may make of a request.  What it leaves out
\* becomes what it was or the default, and a zero may count as left out.
Taken(sent, old) ==
  {p \in ServicePolicies :
     \A m \in Members :
       \/ sent # Nil /\ p[m] = sent[m]
       \/ /\ Member(sent, m) = Nil \/ (m \in Numbers /\ sent[m] = 0)
          /\ p[m] \in {old[m], Defaults[m]}}

-----------------------------------------------------------------------------
(* From the response                                                       *)

\* faulty: a zero is taken for nothing
DecodeDropsZero(p) ==
  [m \in Members |-> IF p[m] = 0 THEN Nil ELSE p[m]]

\* faulty: the flags are forgotten
DecodeNumbers(p) == [m \in Numbers |-> p[m]]

\* sdkCreate: a member without a pointer gets one, zero or not, and numbers
\* are widened, which changes none
DecodeCreated(p) == [m \in Members |-> p[m]]

\* sdkFind does the same
DecodeFound(p) == [m \in Members |-> p[m]]

\* faulty: the flags are left out
DiffersInNumbers(a, b) ==
  \/ (a = Nil) # (b = Nil)
  \/ \E m \in Numbers : Member(a, m) # Member(b, m)

\* newResourceDelta: a nil difference, or two values that differ
Differs(a, b) ==
  \/ (a = Nil) # (b = Nil)
  \/ \E m \in Members :
       /\ Member(a, m) # Member(b, m)
       /\ lenient => {Member(a, m), Member(b, m)} # {Nil, 0}

-----------------------------------------------------------------------------

UserWrites(p) ==
  /\ edits < MaxEdits /\ edits' = edits + 1
  /\ p # spec
  /\ spec' = p
  /\ written' = written \union WrittenIn(p)
  /\ synced' = FALSE
  /\ UNCHANGED <<pool, pc, desired, latest, lenient>>

Begin ==
  /\ pc = "idle"
  /\ pc' = "call"
  /\ desired' = spec
  /\ UNCHANGED <<spec, pool, latest, lenient, written, synced, edits>>

\* The request is not made, and the pass ends.
Refused ==
  /\ pc = "update" \/ (pc = "call" /\ pool = Nil)
  /\ ~Fits(desired)
  /\ pc' = "idle"
  /\ UNCHANGED <<spec, pool, desired, latest, lenient, written, synced,
                 edits>>

Create ==
  /\ pc = "call" /\ pool = Nil
  /\ Fits(desired)
  /\ pool' \in Taken(Encode(desired), Defaults)
  /\ latest' = DecodeCreated(pool')
  /\ pc' = "patch"
  /\ UNCHANGED <<spec, desired, lenient, written, synced, edits>>

\* faulty: everything Create returned is written
PatchSpecWhole ==
  /\ pc = "patch"
  /\ spec' = latest
  /\ synced' = (spec = desired)
  /\ pc' = "idle"
  /\ UNCHANGED <<pool, desired, latest, lenient, written, edits>>

\* a merge patch of what Create changed in its copy of the CR
PatchSpec ==
  /\ pc = "patch"
  /\ spec' = IF desired = latest THEN spec
             ELSE [m \in Members |->
                     IF Member(desired, m) = latest[m] THEN Member(spec, m)
                     ELSE latest[m]]
  /\ synced' = (spec = desired)
  /\ pc' = "idle"
  /\ UNCHANGED <<pool, desired, latest, lenient, written, edits>>

PatchSpecFails ==
  /\ pc = "patch"
  /\ pc' = "idle"
  /\ UNCHANGED <<spec, pool, desired, latest, lenient, written, synced,
                 edits>>

ReadOne ==
  /\ pc = "call" /\ pool # Nil
  /\ latest' = DecodeFound(pool)
  /\ pc' = IF Differs(desired, latest') THEN "update" ELSE "idle"
  /\ UNCHANGED <<spec, pool, desired, lenient, written, synced, edits>>

\* the response is not looked at
Update ==
  /\ pc = "update"
  /\ Fits(desired)
  /\ pool' \in Taken(Encode(desired), pool)
  /\ pc' = "idle"
  /\ UNCHANGED <<spec, desired, latest, lenient, written, synced, edits>>

Controller ==
  \/ Begin \/ Refused \/ Create \/ PatchSpec \/ PatchSpecFails \/ ReadOne
  \/ Update

Next == (\E p \in Policies : UserWrites(p)) \/ Controller

Spec == Init /\ [][Next]_vars

\* a retry or a resync always comes, and a pass does not stop in the middle
FairSpec == Spec /\ WF_vars(Controller)

-----------------------------------------------------------------------------

Meant(p) ==
  \A m \in Numbers :
    \/ Member(p, m) \in {Nil, 0, Defaults[m]}
    \/ <<m, Member(p, m)>> \in written

\* No number in the pool comes of an overflow: each is one the user wrote for
\* that member, the service's default, or the zero that stands for nil.  The
\* range has to be tested at both ends, in both payload functions, before
\* int32(n).
NumbersAreMeant == Meant(pool)

\* When the answer of sdkCreate has been patched into the CR and nobody has
\* edited it since, sdkFind and the delta find nothing to update - although
\* encoding turned nil into zero, and whatever the service made of it.
SettledAfterCreate == synced => ~Differs(spec, DecodeFound(pool))

\* The spec patch after a Create overwrites an edit made meanwhile only where
\* the policy Create began with said nothing, or said zero.
PatchSparesWhatWasSet ==
  [][(pc = "patch" /\ pc' = "idle") =>
       \A m \in Members :
         Member(spec', m) # Member(spec, m)
           => Member(desired, m) \in {Nil, 0}]_vars

\* The pool has what the CR says, a number that is zero excepted.
Follows ==
  /\ pool # Nil
  /\ \A m \in Members :
       (Member(spec, m) # Nil /\ ~(m \in Numbers /\ spec[m] = 0))
         => pool[m] = spec[m]

\* What the user wrote and the request can carry is what the pool ends with.
PolicyConverges == <>[](Fits(spec) => Follows)

\* The user comes to rest, and passes go on: what FairSpec and MaxEdits give.
UserRests == <>[][UNCHANGED edits]_vars
PassesGoOn == []<><<Controller>>_vars

-----------------------------------------------------------------------------
(* What makes them hold: the inductive invariant of the proofs             *)

\* Zeros and defaults go round through the CR, nothing else does.
AllMeant == Meant(spec) /\ Meant(desired) /\ Meant(latest) /\ Meant(pool)

\* What a pass has learnt is how the pool still is; what Create learnt differs
\* from what it was given only where that said nothing, or zero; and a CR
\* that has taken it over begins no update.
PassFollows ==
  /\ pc \in {"patch", "update"} =>
       pool # Nil /\ ~synced /\ latest = DecodeFound(pool)
  /\ pc = "patch" =>
       \A m \in Members :
         latest[m] # Member(desired, m) => Member(desired, m) \in {Nil, 0}
  /\ synced => /\ pool # Nil
               /\ SettledAfterCreate
               /\ pc = "call" => desired = spec

\* Together they are kept by every step.
PolicyInvariant == AllMeant /\ PassFollows

=============================================================================
