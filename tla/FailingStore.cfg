SPECIFICATION Spec
CONSTANTS
  r1 = r1
  r2 = r2
  r3 = r3
  Request <- Requests2
  NoReq = NoReq
  Hash <- OneEntity
  Client = {c1}
  Snapshotter = {p1}
  NumShards = 1
  NumDomains = 1
  ShardCapacity = 2
  Faults = {"rollback", "busy", "ckpterror", "setlen"}
  MaxFaults = 3
  MaxCrashes = 1
  MaxPowerLosses = 1
SYMMETRY RequestSymmetry
INVARIANT DurableSurvives
INVARIANT AppliedOnce
INVARIANT RejectedStaysOut
INVARIANT WatermarkBacked
INVARIANT NothingSkipped
INVARIANT QuietWhileHeld
PROPERTY ErasedOnlyIfCovered
CHECK_DEADLOCK TRUE
