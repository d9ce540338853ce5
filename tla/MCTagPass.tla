----------------------------- MODULE MCTagPass ------------------------------
\* TLC instance of TagPass: two user keys, a key the user may share
\* with --resource-tags, and an "aws:" key; every map over them.
EXTENDS TagPass, TLC

CONSTANTS user, other, ctl, aws, v1

MCKeys == {user, other, ctl, aws}
MCVals == {v1, Empty}
MCDefaultTags == [k \in MCKeys |-> IF k = ctl THEN v1 ELSE Absent]

=============================================================================
