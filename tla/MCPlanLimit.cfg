SPECIFICATION LSpec
CONSTANTS
  Calls = {c1, c2}
  Fingerprints = {f1, f2}
  DeviceIds = {d1, d2}
  None = None
  PlanSizes = {1}
  TransferLimit = 3
  MaxMissed = 0
ACTION_CONSTRAINT OnlyActivations
INVARIANT PlanLimitRespected
