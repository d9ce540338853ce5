SPECIFICATION Spec
CONSTANTS
  user = user
  other = other
  ctl = ctl
  aws = aws
  v1 = v1
  Empty = Empty
  Nil = Nil
  Absent = Absent
  Keys <- MCKeys
  AwsKeys = {aws}
  SystemKeys = {ctl}
  Vals <- MCVals
  DefaultTags <- MCDefaultTags
INVARIANTS
  PoolMatchesSpec
  NoNilInSync
  AwsTagsNeverSent
  PartialPassKeepsGoodTags
  Settled

