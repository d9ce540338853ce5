SPECIFICATION Spec
CONSTANTS
  p1 = p1
  p2 = p2
  p3 = p3
  p4 = p4
  user = user
  ctl = ctl
  aws = aws
  v1 = v1
  on = on
  off = off
  wide = wide
  Empty = Empty
  Nil = Nil
  Absent = Absent
  Unset = Unset
  NoPool = NoPool
  Keys <- MCKeys
  AwsKeys = {aws}
  SystemKeys = {ctl}
  Vals <- MCVals
  DefaultTags <- MCDefaultTags
  Fields <- MCFields
  FieldVals <- MCFieldVals
  WideVals = {wide}
  Defaults <- MCDefaults
  Active = on
  PoolIds = {p1, p2, p3, p4}
  UserSpecs <- SafetySpecs
  MaxFaults = 2
  MaxEdits = 3
INVARIANTS
  TypeOK
  NoPoolForgotten
  FinalizerHeld
  DeletesOnlyItsOwn
  PoolsAreCalledFor
  RefusalsAreEarned
PROPERTIES
  IdLeavesOnlyDeadPools
  AwsTagsUntouched
  SpecTagsAreTheUsers
  ConditionsTellOutcome
  UndisturbedPass
SYMMETRY PoolSymmetry
