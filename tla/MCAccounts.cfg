SPECIFICATION ACSpec
CONSTANTS
  Calls = {c1, c2, c3}
  Identities = {i1, i2}
  Emails = {e1, e2}
  None = None
SYMMETRY Symmetry
INVARIANTS TypeOK SessionsOfOneIdentity AccessBought
PROPERTIES LoneCallClean
CHECK_DEADLOCK FALSE
