SPECIFICATION LSpec
CONSTANTS
  Calls = {c1, c2, c3}
  Fingerprints = {f1, f2}
  DeviceIds = {d1, d2, d3}
  None = None
  PlanSizes = {1, 2}
  TransferLimit = 1
  MaxMissed = 1
SYMMETRY Symmetries
CONSTRAINT FromLargest
INVARIANTS TypeOK DeviceOvershoot DuplicateOvershoot TransferOvershoot LoneTransferMoves
PROPERTIES StrangersKept LoneCallsMatchFake
