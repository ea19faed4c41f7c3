SPECIFICATION SSpec
CONSTANTS
  Calls = {c1, c2, c3, c4}
  None = None
CHECK_DEADLOCK FALSE
PROPERTY BlockedStaysRevoked
