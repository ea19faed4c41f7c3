SPECIFICATION LSpec
CONSTANTS
  m1 = m1
  m2 = m2
  f1 = f1
  g1 = g1
  f2 = f2
  Calls = {p1, p2}
  Rows = {1, 2, 3}
  NoRow = 0
  Machines = {m1, m2}
  Hashes = {f1, g1, f2}
  MachineOf <- MCMachineOf
  LegacyRow <- MCLegacyRow
  PlanSizes = {1, 2}
  Threshold = 1
  MaxRequests = 2
  MaxActs = 1
  MaxTransfers = 1
ACTION_CONSTRAINT LateCutoff
SYMMETRY Symmetry
INVARIANTS TypeOK DeviceOvershoot TransferOvershoot OneSlotPerMachine HonestNeverBlocked
PROPERTIES DowngradeReaches
CHECK_DEADLOCK FALSE
