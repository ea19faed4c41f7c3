SPECIFICATION Spec
CONSTANTS
  r1 = r1
  r2 = r2
  r3 = r3
  k1 = k1
  h1 = h1
  h2 = h2
  None = None
  Requests = {r1, r2, r3}
  Keys = {k1}
  Hashes = {h1, h2}
  KeyOf <- MCKeyOf
  HashOf <- MCHashOf
  TTL = 2
  MaxClock = 3
INVARIANT EffectOncePerWindow
CHECK_DEADLOCK FALSE
