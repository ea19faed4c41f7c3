SPECIFICATION FairCSpec
CONSTANTS
  r1 = r1
  r2 = r2
  r3 = r3
  k1 = k1
  k2 = k2
  h1 = h1
  None = None
  Requests = {r1, r2, r3}
  Keys = {k1, k2}
  Hashes = {h1}
  KeyOf <- MCKeyOf
  HashOf <- MCHashOf
  TTL = 1
  MaxClock = 2
  BatchSize = 1
  MaxBatches = 1
CHECK_DEADLOCK FALSE
ACTION_CONSTRAINT RowLeftBehind
INVARIANTS JobTypeOK
PROPERTIES RefinesService ExpiredRowsRemoved
