SPECIFICATION Spec
CONSTANTS
  r1 = r1
  r2 = r2
  r3 = r3
  Request <- Requests3
  NoReq = NoReq
  Hash <- OneEntity
  Client = {c1}
  Snapshotter = {}
  NumShards = 1
  NumDomains = 1
  ShardCapacity = 2
  Faults = {"rollback"}
  MaxFaults = 3
  MaxCrashes = 1
  MaxPowerLosses = 0
PROPERTY ImplementsBus
CHECK_DEADLOCK TRUE
