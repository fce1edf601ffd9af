SPECIFICATION FairSpec
CONSTANTS
  r1 = r1
  r2 = r2
  r3 = r3
  Request <- Requests2
  NoReq = NoReq
  Hash <- OneEntity
  Client = {c1}
  Snapshotter = {}
  NumShards = 1
  NumDomains = 1
  ShardCapacity = 1
  Faults = {}
  MaxFaults = 0
  MaxCrashes = 0
  MaxPowerLosses = 0
PROPERTY ReceiptArrives
CHECK_DEADLOCK TRUE
