SPECIFICATION SSpec
CONSTANTS
  Calls = {c1, c2, c3, c4, c5}
  None = None
SYMMETRY Symmetry
CHECK_DEADLOCK FALSE
INVARIANTS TypeOK NoFalseReplay HeldTokenWorks
PROPERTIES RevocationSettles BlockShuts
