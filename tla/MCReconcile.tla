----------------------------- MODULE MCReconcile ------------------------------
(***************************************************************************)
(* TLC instances of UserPoolReconcile.  The fields stand for the three     *)
(* kinds there are: DeletionProtection can be updated and guards deletion, *)
(* Policies can be updated and is narrowed to int32, UsernameConfiguration *)
(* can only be set at creation.  One tag key is the user's, one is the     *)
(* controller's (and the user may set it too), one is the service's.       *)
(***************************************************************************)
EXTENDS UserPoolRefinement, UserPoolQuiet, TLC

CONSTANTS p1, p2, p3, p4, user, ctl, aws, v1, on, off, wide

MCKeys == {user, ctl, aws}
MCVals == {v1, Empty}
MCDefaultTags == [k \in MCKeys |-> IF k = ctl THEN v1 ELSE Absent]

MCFields == {"DeletionProtection", "Policies", "UsernameConfiguration"}
MCFieldVals == {on, off, wide}

Config(protection, policies, username) ==
  [f \in MCFields |-> CASE f = "DeletionProtection" -> protection
                        [] f = "Policies" -> policies
                        [] f = "UsernameConfiguration" -> username]

\* the service deactivates deletion protection and sets a password policy
MCDefaults == Config(off, off, Unset)

TagMap(u, c, a) ==
  [k \in MCKeys |-> CASE k = user -> u [] k = ctl -> c [] k = aws -> a]

Written(cfg, tags, userPoolTags) ==
  [cfg |-> cfg, tags |-> tags, userPoolTags |-> userPoolTags]

NoMap == TagMap(Absent, Absent, Absent)

\* plain; with a tag of the user's that overrides the controller's, a
\* protected pool; too wide an integer; an "aws:" key; the other tag field
Plain == Written(Config(Unset, on, Unset), TagMap(v1, Absent, Absent), NoMap)
Guarded == Written(Config(on, off, Unset), TagMap(Absent, Empty, Absent),
                   NoMap)
Open == Written(Config(off, off, Unset), TagMap(v1, Absent, Absent), NoMap)
TooWide == Written(Config(Unset, wide, Unset), NoMap, NoMap)
AwsKey == Written(Config(Unset, on, Unset), TagMap(Absent, Absent, v1), NoMap)
BothTags == Written(Config(Unset, on, Unset), TagMap(v1, Absent, Absent),
                    TagMap(Empty, Absent, Absent))
Renamed == Written(Config(Unset, on, on), TagMap(v1, Absent, Absent), NoMap)

\* sound for safety: no formula tells one pool id from another
PoolSymmetry == Permutations(PoolIds)

SafetySpecs == {Plain, Guarded, TooWide, AwsKey, BothTags}
LiveSpecs == {Plain, Guarded, Open}
LifecycleSpecs == {Plain, Guarded}
OnlyPlain == {Plain}
PlainAndRenamed == {Plain, Renamed}
OnlyBothTags == {BothTags}
OnlyGuarded == {Guarded}

=============================================================================
