SPECIFICATION FairSpec
CONSTANTS
  r1 = r1
  r2 = r2
  r3 = r3
  Request <- Requests2
  NoReq = NoReq
  Hash <- OneEntity
  Client = {c1}
  Snapshotter = {p1}
  NumShards = 1
  NumDomains = 1
  ShardCapacity = 1
  Faults = {"rollback"}
  MaxFaults = 3
  MaxCrashes = 0
  MaxPowerLosses = 0
PROPERTY OutcomeReached
PROPERTY RoomAgain
PROPERTY JournalReclaimed
PROPERTY PauseGranted
PROPERTY ShutdownCompletes
CHECK_DEADLOCK TRUE
