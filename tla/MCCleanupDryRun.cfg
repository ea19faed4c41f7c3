SPECIFICATION CSpec
CONSTANTS
  r1 = r1
  r2 = r2
  r3 = r3
  k1 = k1
  k2 = k2
  h1 = h1
  None = None
  Requests = {r1, r2}
  Keys = {k1, k2}
  Hashes = {h1}
  KeyOf <- MCKeyOf
  HashOf <- MCHashOf
  TTL = 1
  MaxClock = 3
  BatchSize = 1
  MaxBatches = 3
CHECK_DEADLOCK FALSE
INVARIANT DryRunCountsKeys
