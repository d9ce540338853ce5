------------------------ MODULE PasswordPolicy_proofs ------------------------
(***************************************************************************)
(* What PasswordPolicy keeps, for every width of int32, every set of       *)
(* policies a user may write, every default and every number of edits: its *)
(* type invariant, PolicyInvariant, and from it NumbersAreMeant,           *)
(* SettledAfterCreate and PatchSparesWhatWasSet.                           *)
(*                                                                         *)
(* The lemmas say what each conversion does to one member: int32(n) is n   *)
(* where the range was tested, the request carries what fits, the service  *)
(* keeps what was sent unless that said nothing, the response is read      *)
(* whole.  The rest is one step per action.                                *)
(***************************************************************************)
EXTENDS PasswordPolicy, TLAPS

-----------------------------------------------------------------------------
(* Policies, member by member                                              *)

\* What a user policy holds under each of its names.
LEMMA UserMembers ==
  ASSUME NEW p \in UserPolicies
  PROVE  /\ p # Nil
         /\ p = [m \in Members |-> p[m]]
         /\ \A m \in Members : p[m] \in Int \union {Nil}
         /\ p["RequireNumbers"] \in {0, 1, Nil}
  <1>1. p # Nil
    BY PolicyAssumption
  <1>2. p = [m \in Members |-> p[m]]
    BY DEF UserPolicies, Members, Numbers
  <1>3. /\ \A m \in Members : p[m] \in Int \union {Nil}
        /\ p["RequireNumbers"] \in {0, 1, Nil}
    BY DEF UserPolicies, Members, Numbers
  <1> QED BY <1>1, <1>2, <1>3

\* A function on the members with values of the right kinds is one.
LEMMA UserPolicyByMembers ==
  ASSUME NEW f, f = [m \in Members |-> f[m]],
         \A m \in Numbers : f[m] \in Int \union {Nil},
         f["RequireNumbers"] \in {0, 1, Nil}
  PROVE  f \in UserPolicies
  BY DEF UserPolicies, Members, Numbers

\* int32 is a range of integers.
LEMMA Int32IsInt == Int32 \subseteq Int /\ 0 \in Int32
  BY PolicyAssumption DEF Int32

\* What the service keeps could be written by a user too.
LEMMA ServiceIsUser == ServicePolicies \subseteq UserPolicies
  BY Int32IsInt DEF ServicePolicies, UserPolicies

\* sdkCreate and sdkFind read the whole policy, and as it is.
LEMMA DecodeIsWhole ==
  ASSUME NEW p \in ServicePolicies
  PROVE  /\ DecodeCreated(p) = p /\ DecodeFound(p) = p
         /\ p \in UserPolicies /\ p # Nil
  BY ServiceIsUser, UserMembers DEF DecodeCreated, DecodeFound

\* int32(n) is n where n is in the range of int32.
LEMMA NarrowIsIdentity ==
  ASSUME NEW n \in Int32
  PROVE  Narrow(n) = n
  <1> DEFINE x == n + Half
             w == 2 * Half
  <1>1. x \in 0..(w - 1) /\ w \in Nat \ {0}
    BY PolicyAssumption DEF Int32
  <1>2. x % w = x
    <2> HIDE DEF x, w
    <2> QED BY <1>1
  <1>3. n \in Int /\ Half \in Int
    BY PolicyAssumption, Int32IsInt
  <1>4. Narrow(n) = (x % w) - Half
    BY DEF Narrow
  <1> QED BY <1>2, <1>3, <1>4

\* The request carries what fits, with a zero or nothing for nothing.
LEMMA EncodeKeeps ==
  ASSUME NEW p \in UserPolicies, Fits(p)
  PROVE  /\ Encode(p) # Nil
         /\ \A m \in Members :
              Encode(p)[m] = p[m] \/ (p[m] = Nil /\ Encode(p)[m] = 0)
  <1> DEFINE sent == Encode(p)
  <1>1. p # Nil /\ p["RequireNumbers"] \in {0, 1, Nil}
    BY UserMembers
  <1>2. sent = [m \in Members |->
                  CASE p[m] = Nil /\ m = "MinimumLength" -> Nil
                    [] p[m] = Nil /\ m # "MinimumLength" -> 0
                    [] p[m] # Nil /\ m \in Numbers       -> Narrow(p[m])
                    [] OTHER                             -> p[m]]
    BY <1>1 DEF Encode
  <1>3. ASSUME NEW m \in Members
        PROVE  sent[m] = p[m] \/ (p[m] = Nil /\ sent[m] = 0)
    <2>1. CASE p[m] = Nil
      BY <1>2, <1>3, <2>1
    <2>2. CASE p[m] # Nil /\ m \in Numbers
      <3>1. p[m] \in Int32
        BY <1>1, <2>2 DEF Fits, Member
      <3>2. sent[m] = Narrow(p[m])
        BY <1>2, <1>3, <2>2
      <3> QED BY <3>1, <3>2, NarrowIsIdentity
    <2>3. CASE p[m] # Nil /\ m \notin Numbers
      BY <1>2, <1>3, <2>3
    <2> QED BY <2>1, <2>2, <2>3
  <1>4. sent \in UserPolicies
    <2>1. sent = [m \in Members |-> sent[m]]
      <3>1. DOMAIN sent = Members
        BY <1>2
      <3> QED BY <1>2, <3>1
    <2>2. \A m \in Members : p[m] \in Int \union {Nil}
      BY UserMembers
    <2>3. \A m \in Numbers : sent[m] \in Int \union {Nil}
      <3> HIDE DEF sent
      <3> QED BY <1>3, <2>2 DEF Members
    <2>4. sent["RequireNumbers"] \in {0, 1, Nil}
      <3> HIDE DEF sent
      <3> QED BY <1>1, <1>3 DEF Members
    <2> HIDE DEF sent
    <2> QED BY <2>1, <2>3, <2>4, UserPolicyByMembers
  <1> QED BY <1>3, <1>4, UserMembers

\* What the service makes of a request for p: p, except where p said nothing
\* or zero, and then a zero, what was there or the default.
LEMMA TakenKeeps ==
  ASSUME NEW p \in UserPolicies \union {Nil}, Fits(p), NEW old,
         NEW q \in Taken(Encode(p), old)
  PROVE  /\ q \in ServicePolicies
         /\ \A m \in Members :
              \/ q[m] = Member(p, m)
              \/ /\ Member(p, m) \in {Nil, 0}
                 /\ q[m] \in {0, old[m], Defaults[m]}
  <1>1. q \in ServicePolicies
    BY DEF Taken
  <1>2. ASSUME NEW m \in Members
        PROVE  \/ q[m] = Member(p, m)
               \/ /\ Member(p, m) \in {Nil, 0}
                  /\ q[m] \in {0, old[m], Defaults[m]}
    <2> DEFINE sent == Encode(p)
    <2>1. \/ sent # Nil /\ q[m] = sent[m]
          \/ /\ Member(sent, m) = Nil \/ (m \in Numbers /\ sent[m] = 0)
             /\ q[m] \in {old[m], Defaults[m]}
      BY <1>2 DEF Taken
    <2>2. CASE p = Nil
      BY <2>1, <2>2 DEF Encode, Member
    <2>3. CASE p # Nil
      <3>1. p \in UserPolicies
        BY <2>3
      <3>2. sent # Nil /\ (sent[m] = p[m] \/ (p[m] = Nil /\ sent[m] = 0))
        BY <1>2, <3>1, EncodeKeeps
      <3>3. Member(sent, m) = sent[m] /\ Member(p, m) = p[m]
        BY <2>3, <3>2 DEF Member
      <3> HIDE DEF sent
      <3> QED BY <2>1, <3>2, <3>3
    <2> QED BY <2>2, <2>3
  <1> QED BY <1>1, <1>2

-----------------------------------------------------------------------------
(* What the user meant                                                     *)

\* What the service makes of a policy that was meant, in a pool that holds
\* what was meant, was meant.
LEMMA TakenIsMeant ==
  ASSUME NEW p \in UserPolicies \union {Nil}, Fits(p), Meant(p), NEW old,
         \A m \in Numbers : \/ old[m] \in {Nil, 0, Defaults[m]}
                            \/ <<m, old[m]>> \in written,
         NEW q \in Taken(Encode(p), old)
  PROVE  Meant(q)
  <1>1. q # Nil
    BY TakenKeeps, ServiceIsUser, UserMembers
  <1>2. ASSUME NEW m \in Numbers
        PROVE  \/ Member(q, m) \in {Nil, 0, Defaults[m]}
               \/ <<m, Member(q, m)>> \in written
    <2>1. Member(q, m) = q[m]
      BY <1>1 DEF Member
    <2>2. \/ q[m] = Member(p, m)
          \/ q[m] \in {0, old[m], Defaults[m]}
      BY <1>2, TakenKeeps DEF Members
    <2>3. \/ Member(p, m) \in {Nil, 0, Defaults[m]}
          \/ <<m, Member(p, m)>> \in written
      BY <1>2 DEF Meant
    <2> QED BY <1>2, <2>1, <2>2, <2>3
  <1> QED BY <1>2 DEF Meant

-----------------------------------------------------------------------------
(* The invariant                                                           *)

Inductive == TypeOK /\ PolicyInvariant

\* When the answer of Create is patched into a CR nobody has edited, the CR
\* then holds the policy of the pool, member by member.
LEMMA PatchTakesOver ==
  ASSUME Inductive, PatchSpec
  PROVE  /\ pool \in ServicePolicies /\ latest = pool
         /\ latest \in UserPolicies
         /\ \A m \in Members :
              Member(spec', m) \in {Member(spec, m), Member(latest, m)}
         /\ spec = desired => spec' = pool
         /\ spec' \in UserPolicies \union {Nil}
         /\ desired # latest => spec' # Nil
  <1>1. /\ pool \in ServicePolicies /\ latest = pool
        /\ latest \in UserPolicies /\ latest # Nil
    <2>1. pool \in ServicePolicies /\ latest = DecodeFound(pool)
      BY DEF Inductive, TypeOK, PolicyInvariant, PassFollows, PatchSpec
    <2> QED BY <2>1, DecodeIsWhole
  <1>2. CASE desired = latest
    BY <1>1, <1>2 DEF PatchSpec, Inductive, TypeOK
  <1>3. CASE desired # latest
    <2>1. spec' = [m \in Members |->
                     IF Member(desired, m) = latest[m] THEN Member(spec, m)
                     ELSE latest[m]]
      BY <1>3 DEF PatchSpec
    <2>2. \A m \in Members : Member(latest, m) = latest[m]
      BY <1>1 DEF Member
    <2>3. spec \in UserPolicies \union {Nil}
      BY DEF Inductive, TypeOK
    <2>4. \A m \in Members :
            spec'[m] \in {Member(spec, m), Member(latest, m)}
      BY <2>1, <2>2
    <2>5. spec' \in UserPolicies
      <3>1. /\ \A m \in Members : Member(spec, m) \in Int \union {Nil}
            /\ Member(spec, "RequireNumbers") \in {0, 1, Nil}
        BY <2>3, UserMembers DEF Member
      <3>2. /\ \A m \in Members : Member(latest, m) \in Int \union {Nil}
            /\ Member(latest, "RequireNumbers") \in {0, 1, Nil}
        BY <1>1, UserMembers DEF Member
      <3>3. spec' = [m \in Members |-> spec'[m]]
        <4>1. DOMAIN spec' = Members
          BY <2>1
        <4> QED BY <2>1, <4>1
      <3>4. \A m \in Numbers : spec'[m] \in Int \union {Nil}
        BY <2>4, <3>1, <3>2 DEF Members
      <3>5. spec'["RequireNumbers"] \in {0, 1, Nil}
        BY <2>4, <3>1, <3>2 DEF Members
      <3> QED BY <3>3, <3>4, <3>5, UserPolicyByMembers
    <2>6. spec' # Nil
      BY <2>5, UserMembers
    <2>7. \A m \in Members :
            Member(spec', m) \in {Member(spec, m), Member(latest, m)}
      BY <2>4, <2>6 DEF Member
    <2>8. ASSUME spec = desired PROVE spec' = pool
      <3>1. spec' = [m \in Members |-> latest[m]]
        BY <2>1, <2>8
      <3> QED BY <1>1, <3>1, UserMembers
    <2> QED BY <1>1, <2>5, <2>6, <2>7, <2>8
  <1> QED BY <1>1, <1>2, <1>3

\* The first state.
LEMMA InductiveInit == Init => Inductive
  <1> SUFFICES ASSUME Init PROVE Inductive
    OBVIOUS
  <1>1. TypeOK
    <2>1. lenient \in BOOLEAN /\ synced \in BOOLEAN
      BY Zenon DEF Init
    <2>2. edits \in 0..MaxEdits
      BY PolicyAssumption DEF Init
    <2>3. spec \in UserPolicies \union {Nil}
      BY PolicyAssumption DEF Init
    <2> QED BY <2>1, <2>2, <2>3 DEF Init, TypeOK
  <1>2. AllMeant
    BY DEF Init, AllMeant, Meant, WrittenIn, Members, Member
  <1>3. PassFollows
    BY DEF Init, PassFollows
  <1> QED BY <1>1, <1>2, <1>3 DEF Inductive, PolicyInvariant

\* The user's edit: all of it is written down, and nothing is synced.
LEMMA UserWritesKeeps ==
  ASSUME Inductive, NEW p \in Policies, UserWrites(p)
  PROVE  Inductive'
  <1> USE DEF UserWrites
  <1>1. TypeOK'
    <2>1. edits' \in 0..MaxEdits
      BY PolicyAssumption DEF Inductive, TypeOK
    <2>2. spec' \in UserPolicies \union {Nil}
      BY PolicyAssumption
    <2> QED BY <2>1, <2>2 DEF Inductive, TypeOK
  <1>2. AllMeant'
    <2>1. Meant(desired)' /\ Meant(latest)' /\ Meant(pool)'
      BY DEF Inductive, PolicyInvariant, AllMeant, Meant
    <2>2. Meant(spec)'
      BY DEF Meant, WrittenIn, Members
    <2> QED BY <2>1, <2>2 DEF AllMeant
  <1>3. PassFollows'
    BY DEF Inductive, PolicyInvariant, PassFollows
  <1> QED BY <1>1, <1>2, <1>3 DEF Inductive, PolicyInvariant

\* A pass begins with a copy of the CR.
LEMMA BeginKeeps ==
  ASSUME Inductive, Begin
  PROVE  Inductive'
  <1> USE DEF Begin
  <1>1. TypeOK'
    BY DEF Inductive, TypeOK
  <1>2. AllMeant'
    BY DEF Inductive, PolicyInvariant, AllMeant, Meant
  <1>3. PassFollows'
    BY DEF Inductive, PolicyInvariant, PassFollows, SettledAfterCreate,
           Differs
  <1> QED BY <1>1, <1>2, <1>3 DEF Inductive, PolicyInvariant

\* A pass ends with nothing done.
LEMMA EndKeeps ==
  ASSUME Inductive, Refused \/ PatchSpecFails
  PROVE  Inductive'
  <1> USE DEF Refused, PatchSpecFails
  <1>1. TypeOK'
    BY DEF Inductive, TypeOK
  <1>2. AllMeant'
    BY DEF Inductive, PolicyInvariant, AllMeant, Meant
  <1>3. PassFollows'
    BY DEF Inductive, PolicyInvariant, PassFollows, SettledAfterCreate,
           Differs
  <1> QED BY <1>1, <1>2, <1>3 DEF Inductive, PolicyInvariant

\* sdkCreate: what it learns is how the new pool is.
LEMMA CreateKeeps ==
  ASSUME Inductive, Create
  PROVE  Inductive'
  <1>1. /\ desired \in UserPolicies \union {Nil} /\ Fits(desired)
        /\ pool' \in Taken(Encode(desired), Defaults)
        /\ Meant(desired)
    BY DEF Inductive, TypeOK, PolicyInvariant, AllMeant, Create
  <1>2. /\ pool' \in ServicePolicies
        /\ \A m \in Members :
             pool'[m] = Member(desired, m) \/ Member(desired, m) \in {Nil, 0}
    BY <1>1, TakenKeeps
  <1>3. /\ latest' = pool' /\ DecodeFound(pool') = pool'
        /\ pool' \in UserPolicies /\ pool' # Nil
    BY <1>2, DecodeIsWhole DEF Create
  <1>4. TypeOK'
    BY <1>2, <1>3 DEF Inductive, TypeOK, Create
  <1>5. Meant(pool')
    BY <1>1, TakenIsMeant
  <1>6. AllMeant'
    BY <1>3, <1>5
       DEF Inductive, PolicyInvariant, AllMeant, Meant, Create
  <1>7. PassFollows'
    BY <1>2, <1>3 DEF Inductive, PolicyInvariant, PassFollows, Create
  <1> QED BY <1>4, <1>6, <1>7 DEF Inductive, PolicyInvariant

\* The patch after it: a CR that took over all of it differs in nothing.
LEMMA PatchSpecKeeps ==
  ASSUME Inductive, PatchSpec
  PROVE  Inductive'
  <1>1. TypeOK'
    BY PatchTakesOver DEF Inductive, TypeOK, PatchSpec
  <1>2. AllMeant'
    <2>1. Meant(desired)' /\ Meant(latest)' /\ Meant(pool)'
      BY DEF Inductive, PolicyInvariant, AllMeant, Meant, PatchSpec
    <2>2. \A m \in Numbers :
            Member(spec', m) \in {Member(spec, m), Member(latest, m)}
      BY PatchTakesOver DEF Members
    <2>3. Meant(spec)'
      BY <2>2
         DEF Inductive, PolicyInvariant, AllMeant, Meant, PatchSpec
    <2> QED BY <2>1, <2>3 DEF AllMeant
  <1>3. PassFollows'
    <2>1. pc' = "idle" /\ synced' = (spec = desired) /\ pool' = pool
      BY DEF PatchSpec
    <2>2. pool # Nil /\ DecodeFound(pool) = pool
      BY PatchTakesOver, DecodeIsWhole
    <2>3. synced' => SettledAfterCreate'
      BY <2>1, <2>2, PatchTakesOver DEF SettledAfterCreate, Differs
    <2> QED BY <2>1, <2>2, <2>3 DEF PassFollows
  <1> QED BY <1>1, <1>2, <1>3 DEF Inductive, PolicyInvariant

\* sdkFind: it finds no difference in a CR that took over Create's answer.
LEMMA ReadOneKeeps ==
  ASSUME Inductive, ReadOne
  PROVE  Inductive'
  <1>1. pool \in ServicePolicies
    BY DEF Inductive, TypeOK, ReadOne
  <1>2. /\ latest' = pool /\ DecodeFound(pool) = pool
        /\ pool \in UserPolicies /\ pool # Nil
    BY <1>1, DecodeIsWhole DEF ReadOne
  <1>3. TypeOK'
    BY <1>2 DEF Inductive, TypeOK, ReadOne
  <1>4. AllMeant'
    BY <1>2 DEF Inductive, PolicyInvariant, AllMeant, Meant, ReadOne
  <1>5. PassFollows'
    <2>1. ASSUME synced PROVE pc' = "idle"
      <3>1. desired = spec /\ ~Differs(spec, pool)
        BY <1>2, <2>1 DEF Inductive, PolicyInvariant, PassFollows,
                          SettledAfterCreate, ReadOne
      <3> QED BY <1>2, <3>1 DEF ReadOne
    <2>2. pc' \in {"update", "idle"}
      BY DEF ReadOne
    <2>3. synced \in BOOLEAN
      BY DEF Inductive, TypeOK
    <2> QED BY <1>2, <2>1, <2>2, <2>3
            DEF Inductive, PolicyInvariant, PassFollows,
                SettledAfterCreate, Differs, ReadOne
  <1> QED BY <1>3, <1>4, <1>5 DEF Inductive, PolicyInvariant

\* sdkUpdate.
LEMMA UpdateKeeps ==
  ASSUME Inductive, Update
  PROVE  Inductive'
  <1>1. /\ desired \in UserPolicies \union {Nil} /\ Fits(desired)
        /\ pool' \in Taken(Encode(desired), pool)
        /\ Meant(desired) /\ Meant(pool) /\ pool # Nil
    BY DEF Inductive, TypeOK, PolicyInvariant, AllMeant, PassFollows, Update
  <1>2. pool' \in ServicePolicies
    BY <1>1, TakenKeeps
  <1>3. TypeOK'
    BY <1>2 DEF Inductive, TypeOK, Update
  <1>4. \A m \in Numbers : \/ pool[m] \in {Nil, 0, Defaults[m]}
                           \/ <<m, pool[m]>> \in written
    BY <1>1 DEF Meant, Member
  <1>5. Meant(pool')
    BY <1>1, <1>4, TakenIsMeant
  <1>6. AllMeant'
    BY <1>5 DEF Inductive, PolicyInvariant, AllMeant, Meant, Update
  <1>7. PassFollows'
    BY DEF Inductive, PolicyInvariant, PassFollows, Update
  <1> QED BY <1>3, <1>6, <1>7 DEF Inductive, PolicyInvariant

\* Together.
LEMMA InductiveStep == Inductive /\ [Next]_vars => Inductive'
  <1> SUFFICES ASSUME Inductive, [Next]_vars PROVE Inductive'
    OBVIOUS
  <1>1. CASE \E p \in Policies : UserWrites(p)
    BY <1>1, UserWritesKeeps
  <1>2. CASE Begin
    BY <1>2, BeginKeeps
  <1>3. CASE Refused \/ PatchSpecFails
    BY <1>3, EndKeeps
  <1>4. CASE Create
    BY <1>4, CreateKeeps
  <1>5. CASE PatchSpec
    BY <1>5, PatchSpecKeeps
  <1>6. CASE ReadOne
    BY <1>6, ReadOneKeeps
  <1>7. CASE Update
    BY <1>7, UpdateKeeps
  <1>8. CASE UNCHANGED vars
    <2> USE <1>8 DEF vars, Inductive, PolicyInvariant
    <2>1. TypeOK'
      BY DEF TypeOK
    <2>2. AllMeant'
      BY DEF AllMeant, Meant
    <2>3. PassFollows'
      BY DEF PassFollows, SettledAfterCreate, Differs
    <2> QED BY <2>1, <2>2, <2>3
  <1> QED
    BY <1>1, <1>2, <1>3, <1>4, <1>5, <1>6, <1>7, <1>8
       DEF Next, Controller

\* Every state of every run is one the invariant allows.
LEMMA AlwaysInductive == Spec => []Inductive
  BY InductiveInit, InductiveStep, PTL DEF Spec

-----------------------------------------------------------------------------
(* The theorems                                                            *)

\* Every variable keeps its type: nothing the conversions make is outside
\* what the CR or the service can hold.
THEOREM PolicyTypeCorrect == Spec => []TypeOK
  <1>1. Inductive => TypeOK
    BY DEF Inductive
  <1> QED BY <1>1, AlwaysInductive, PTL

\* PolicyInvariant, with which the others are proved.
THEOREM PolicyKept == Spec => []PolicyInvariant
  <1>1. Inductive => PolicyInvariant
    BY DEF Inductive
  <1> QED BY <1>1, AlwaysInductive, PTL

\* No number in the pool comes of an overflow of int32(n), whatever the width
\* and whatever the user writes.
THEOREM PolicyNumbers == Spec => []NumbersAreMeant
  <1>1. PolicyInvariant => NumbersAreMeant
    BY DEF PolicyInvariant, AllMeant, NumbersAreMeant
  <1> QED BY <1>1, PolicyKept, PTL

\* After Create and its patch, and until the next edit, nothing is updated.
THEOREM PolicySettles == Spec => []SettledAfterCreate
  <1>1. PolicyInvariant => SettledAfterCreate
    BY DEF PolicyInvariant, PassFollows, SettledAfterCreate
  <1> QED BY <1>1, PolicyKept, PTL

\* The patch after Create changes only members that were nothing, or zero,
\* when Create began.
THEOREM PolicySparesEdits == Spec => PatchSparesWhatWasSet
  <1>1. ASSUME Inductive, [Next]_vars, pc = "patch", pc' = "idle",
               NEW m \in Members, Member(spec', m) # Member(spec, m)
        PROVE  Member(desired, m) \in {Nil, 0}
    <2>1. PatchSpec
      BY <1>1 DEF Next, Controller, UserWrites, Begin, Refused, Create,
                  PatchSpecFails, ReadOne, Update, vars
    <2>2. latest # Nil
      BY <1>1, <2>1, PatchTakesOver, UserMembers
    <2>3. latest[m] # Member(desired, m)
      <3>1. CASE desired = latest
        BY <1>1, <2>1, <3>1 DEF PatchSpec
      <3>2. CASE desired # latest
        <4>1. spec' = [k \in Members |->
                         IF Member(desired, k) = latest[k]
                         THEN Member(spec, k) ELSE latest[k]]
          BY <2>1, <3>2 DEF PatchSpec
        <4>2. spec' # Nil
          BY <1>1, <2>1, <3>2, PatchTakesOver
        <4> QED BY <1>1, <4>1, <4>2 DEF Member
      <3> QED BY <3>1, <3>2
    <2> QED BY <1>1, <2>3 DEF Inductive, PolicyInvariant, PassFollows
  <1>2. Inductive /\ [Next]_vars
          => [(pc = "patch" /\ pc' = "idle") =>
                \A m \in Members :
                  Member(spec', m) # Member(spec, m)
                    => Member(desired, m) \in {Nil, 0}]_vars
    BY <1>1
  <1> QED BY <1>2, AlwaysInductive, PTL DEF Spec, PatchSparesWhatWasSet

-----------------------------------------------------------------------------
(* The pool follows the CR, once the user rests                            *)

\* A flag has no such exception: it is what the request says.
LEMMA TakenFlags ==
  ASSUME NEW p \in UserPolicies \union {Nil}, Fits(p), NEW old,
         NEW q \in Taken(Encode(p), old), NEW m \in Members \ Numbers,
         Member(p, m) # Nil
  PROVE  q[m] = p[m]
  <1> DEFINE sent == Encode(p)
  <1>1. p # Nil /\ p \in UserPolicies /\ p[m] # Nil
    BY DEF Member
  <1>2. sent # Nil /\ sent[m] = p[m]
    BY <1>1, EncodeKeeps
  <1>3. \/ sent # Nil /\ q[m] = sent[m]
        \/ Member(sent, m) = Nil \/ (m \in Numbers /\ sent[m] = 0)
    BY DEF Taken
  <1> HIDE DEF sent
  <1> QED BY <1>1, <1>2, <1>3 DEF Member

AtIdle == pc = "idle"
AtCall == pc = "call"
AtUpdate == pc = "update"
Exists == pool # Nil
Fit == Fits(spec)

\* The pass under way, if any, works on the CR as it is.
OnTrack == pool # Nil /\ pc # "patch" /\ (pc # "idle" => desired = spec)
Fresh == pool = Nil /\ (pc # "idle" => pc = "call" /\ desired = spec)

\* An update with the policy of the CR makes the pool follow it.
LEMMA UpdateFollows ==
  ASSUME Inductive, Update, desired = spec
  PROVE  Follows'
  <1>1. /\ spec \in UserPolicies \union {Nil} /\ Fits(spec)
        /\ pool' \in Taken(Encode(spec), pool) /\ spec' = spec
    BY DEF Inductive, TypeOK, Update
  <1>2. pool' \in ServicePolicies
    BY <1>1, TakenKeeps
  <1>3. pool' # Nil
    BY <1>2, ServiceIsUser, UserMembers
  <1>4. ASSUME NEW m \in Members, Member(spec, m) # Nil,
               ~(m \in Numbers /\ spec[m] = 0)
        PROVE  pool'[m] = spec[m]
    <2>1. Member(spec, m) = spec[m]
      BY <1>4 DEF Member
    <2>2. CASE m \in Numbers
      BY <1>1, <1>4, <2>1, <2>2, TakenKeeps
    <2>3. CASE m \notin Numbers
      BY <1>1, <1>4, <2>3, TakenFlags
    <2> QED BY <2>2, <2>3
  <1> QED BY <1>1, <1>3, <1>4 DEF Follows

\* A reading that finds no difference has found a pool that follows.
LEMMA AgreementFollows ==
  ASSUME Inductive, pool # Nil, ~Differs(spec, DecodeFound(pool))
  PROVE  Follows
  <1>1. pool \in ServicePolicies /\ DecodeFound(pool) = pool
    BY DecodeIsWhole DEF Inductive, TypeOK
  <1>2. ASSUME NEW m \in Members, Member(spec, m) # Nil,
               ~(m \in Numbers /\ spec[m] = 0)
        PROVE  pool[m] = spec[m]
    <2>1. Member(spec, m) = spec[m] /\ Member(pool, m) = pool[m]
      BY <1>2 DEF Member
    <2>2. \/ spec[m] = pool[m]
          \/ {spec[m], pool[m]} = {Nil, 0}
      BY <1>1, <2>1 DEF Differs
    <2>3. CASE {spec[m], pool[m]} = {Nil, 0}
      <3>1. spec[m] = 0 /\ pool[m] = Nil
        BY <1>2, <2>1, <2>3
      <3>2. m = "RequireNumbers"
        BY <1>2, <3>1 DEF Members
      <3>3. pool[m] \in {0, 1}
        BY <1>1, <3>2 DEF ServicePolicies
      <3>4. Nil # 0 /\ Nil # 1
        BY PolicyAssumption
      <3> QED BY <3>1, <3>3, <3>4
    <2> QED BY <2>2, <2>3
  <1> QED BY <1>2 DEF Follows

\* One step while the user rests.
LEMMA RestMoves ==
  ASSUME Inductive, [Next]_vars, [UNCHANGED edits]_vars
  PROVE  \/ Controller \/ UNCHANGED vars
  <1>1. ASSUME NEW p \in Policies, UserWrites(p)
        PROVE  edits' # edits
    BY <1>1 DEF UserWrites, Inductive, TypeOK
  <1> QED BY <1>1 DEF Next, vars

\* The way of a pass.
LEMMA PassWay ==
  ASSUME Inductive, Controller
  PROVE  /\ AtIdle => AtCall'
         /\ ~AtIdle => ~AtCall'
         /\ ~AtIdle /\ ~AtCall => AtIdle'
         /\ AtCall => ~AtCall'
  BY DEF Controller, Begin, Refused, Create, PatchSpec, PatchSpecFails,
         ReadOne, Update, AtIdle, AtCall, Inductive, TypeOK

\* A pool stays, and a pass that works on the CR as it is spoils nothing.
LEMMA TrackKept ==
  ASSUME Inductive, Inductive', [Next]_vars, [UNCHANGED edits]_vars
  PROVE  /\ Exists => Exists'
         /\ OnTrack => OnTrack' /\ (Fit' <=> Fit)
         /\ OnTrack /\ Follows => Follows'
         /\ Fresh => Exists' \/ (Fresh' /\ (Fit' <=> Fit))
  <1>1. CASE UNCHANGED vars
    BY <1>1
       DEF vars, Exists, OnTrack, Fit, Follows, Fresh, Fits
  <1>2. CASE Begin
    BY <1>2 DEF Begin, Exists, OnTrack, Fit, Follows, Fresh, Fits
  <1>3. CASE Refused \/ PatchSpecFails \/ ReadOne
    BY <1>3 DEF Refused, PatchSpecFails, ReadOne, Exists, OnTrack, Fit,
                Follows, Fresh, Fits
  <1>4. CASE Create
    <2>1. pool' # Nil
      BY <1>4 DEF Create, Inductive, PolicyInvariant, PassFollows
    <2> QED BY <1>4, <2>1 DEF Create, Exists, OnTrack, Follows
  <1>5. CASE PatchSpec
    BY <1>5 DEF PatchSpec, Exists, OnTrack, Fresh
  <1>6. CASE Update
    <2>1. /\ pool # Nil /\ spec' = spec /\ pc = "update" /\ pc' = "idle"
          /\ desired' = desired
      BY <1>6 DEF Update, Inductive, PolicyInvariant, PassFollows
    <2>2. pool' # Nil
      <3>1. pool' \in ServicePolicies
        BY <1>6 DEF Update, Taken
      <3> QED BY <3>1, ServiceIsUser, UserMembers
    <2>3. desired = spec => Follows'
      BY <1>6, UpdateFollows
    <2> QED BY <2>1, <2>2, <2>3 DEF Exists, OnTrack, Fit, Fresh, Fits
  <1> QED
    BY <1>1, <1>2, <1>3, <1>4, <1>5, <1>6, RestMoves DEF Controller

\* What a call of the controller brings about.
LEMMA TrackAdvances ==
  ASSUME Inductive, Inductive', Controller
  PROVE  /\ OnTrack /\ Fit /\ AtCall => AtUpdate' \/ Follows'
         /\ OnTrack /\ Fit /\ AtUpdate => Follows'
         /\ Fresh /\ Fit /\ AtCall => Exists'
  <1>1. OnTrack /\ Fit /\ AtCall => AtUpdate' \/ Follows'
    <2> SUFFICES ASSUME OnTrack, AtCall, ~AtUpdate'
                 PROVE  Follows'
      OBVIOUS
    <2>1. ReadOne
      BY DEF OnTrack, AtCall, Controller, Begin, Refused, Create, PatchSpec,
             PatchSpecFails, Update
    <2>2. /\ ~Differs(spec, DecodeFound(pool)) /\ pool # Nil
          /\ UNCHANGED <<spec, pool>>
      BY <2>1 DEF ReadOne, OnTrack, AtCall, AtUpdate
    <2>3. Follows
      BY <2>2, AgreementFollows
    <2> QED BY <2>2, <2>3 DEF Follows
  <1>2. OnTrack /\ Fit /\ AtUpdate => Follows'
    <2> SUFFICES ASSUME OnTrack, Fit, AtUpdate
                 PROVE  Follows'
      OBVIOUS
    <2>1. Update /\ desired = spec
      BY DEF OnTrack, Fit, AtUpdate, Controller, Begin, Refused, Create,
             PatchSpec, PatchSpecFails, ReadOne
    <2> QED BY <2>1, UpdateFollows
  <1>3. Fresh /\ Fit /\ AtCall => Exists'
    <2> SUFFICES ASSUME Fresh, Fit, AtCall
                 PROVE  Exists'
      OBVIOUS
    <2>1. Create
      BY DEF Fresh, Fit, AtCall, Controller, Begin, Refused, ReadOne,
             PatchSpec, PatchSpecFails, Update
    <2> QED
      BY <2>1 DEF Create, Exists, Inductive, PolicyInvariant, PassFollows
  <1> QED BY <1>1, <1>2, <1>3

\* PolicyConverges: once the user rests and passes go on, the pool comes to
\* follow the CR and stays so, whatever edit, lost patch or half a pass came
\* before.
THEOREM PolicyFollows ==
  Spec /\ UserRests /\ PassesGoOn => PolicyConverges
  <1>1. Inductive /\ Inductive' /\ [Next]_vars /\ [UNCHANGED edits]_vars =>
          /\ Exists => Exists'
          /\ OnTrack => OnTrack' /\ (Fit' <=> Fit)
          /\ OnTrack /\ Follows => Follows'
          /\ Fresh => Exists' \/ (Fresh' /\ (Fit' <=> Fit))
    BY TrackKept
  <1>2. Inductive /\ Inductive' /\ <<Controller>>_vars =>
          /\ AtIdle => AtCall'
          /\ ~AtIdle => ~AtCall'
          /\ ~AtIdle /\ ~AtCall => AtIdle'
          /\ AtCall => ~AtCall'
          /\ OnTrack /\ Fit /\ AtCall => AtUpdate' \/ Follows'
          /\ OnTrack /\ Fit /\ AtUpdate => Follows'
          /\ Fresh /\ Fit /\ AtCall => Exists'
    BY PassWay, TrackAdvances
  <1>3. Inductive /\ [Next]_vars /\ [UNCHANGED edits]_vars
        /\ ~<<Controller>>_vars =>
          /\ AtIdle <=> AtIdle'
          /\ AtCall <=> AtCall'
          /\ AtUpdate <=> AtUpdate'
    BY RestMoves DEF AtIdle, AtCall, AtUpdate, vars
  <1>4. /\ AtIdle /\ Exists => OnTrack
        /\ AtIdle /\ ~Exists => Fresh
        /\ ~(AtIdle /\ AtCall) /\ ~(AtIdle /\ AtUpdate)
        /\ ~(AtCall /\ AtUpdate)
        /\ Fresh => AtIdle \/ AtCall
    BY DEF AtIdle, AtCall, AtUpdate, Exists, OnTrack, Fresh
  <1>5. Fit <=> Fits(spec)
    BY DEF Fit
  <1>6. Spec => []Inductive /\ [][Next]_vars
    BY AlwaysInductive, PTL DEF Spec
  <1> QED
    BY <1>1, <1>2, <1>3, <1>4, <1>5, <1>6, PTL
       DEF UserRests, PassesGoOn, PolicyConverges

=============================================================================
