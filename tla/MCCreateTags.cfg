SPECIFICATION Spec
CONSTANTS
  p1 = p1
  p2 = p2
  p3 = p3
  p4 = p4
  user = user
  ctl = ctl
  aws = aws
  v1 = v1
  on = on
  off = off
  wide = wide
  Empty = Empty
  Nil = Nil
  Absent = Absent
  Unset = Unset
  NoPool = NoPool
  Keys <- MCKeys
  AwsKeys = {aws}
  SystemKeys = {ctl}
  Vals <- MCVals
  DefaultTags <- MCDefaultTags
  Fields <- MCFields
  FieldVals <- MCFieldVals
  WideVals = {wide}
  Defaults <- MCDefaults
  Active = on
  PoolIds = {p1}
  UserSpecs <- OnlyPlain
  MaxFaults = 0
  MaxEdits = 1
INVARIANTS
  CreatedPoolHasTags
