SPECIFICATION FairReplicaSpec
CONSTANTS
  ctl = ctl
  v1 = v1
  on = on
  off = off
  Empty = Empty
  Nil = Nil
  Absent = Absent
  Unset = Unset
  NoPool = NoPool
  Keys = {ctl}
  AwsKeys = {}
  SystemKeys = {ctl}
  Vals = {v1, Empty}
  DefaultTags <- MCDefaultTags
  Fields = {"DeletionProtection"}
  FieldVals = {on, off}
  WideVals = {}
  Defaults <- MCDefaults
  Active = on
  PoolIds = {p1, p2, p3}
  UserSpecs <- MCUserSpecs
  MaxFaults = 1
  MaxEdits = 3
  Replicas = {r1, r2}
  NoReplica = NoReplica
  Elects = TRUE
  MaxDeaths = 2
INVARIANTS
  NoReplicaForgets
  OneAtWork
  ReplicasNeverStuck
PROPERTIES
  ActsAsOne
