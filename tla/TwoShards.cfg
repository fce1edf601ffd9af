SPECIFICATION Spec
CONSTANTS
  r1 = r1
  r2 = r2
  r3 = r3
  Request <- Requests2
  NoReq = NoReq
  Hash <- TwoEntities
  Client = {c1}
  Snapshotter = {}
  NumShards = 2
  NumDomains = 2
  ShardCapacity = 2
  Faults = {"busy", "postcommit"}
  MaxFaults = 2
  MaxCrashes = 0
  MaxPowerLosses = 1
INVARIANT DurableSurvives
PROPERTY ErasedOnlyIfCovered
PROPERTY CleanShutdown
CHECK_DEADLOCK TRUE
