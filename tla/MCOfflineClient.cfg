SPECIFICATION OSpec
CONSTANTS
  Procs = {p1, p2}
  Window = 1
  Skew = 0
  MaxTokens = 2
  MaxTime = 2
SYMMETRY Symmetry
INVARIANTS TypeOK NoSelfReplay StoredTokenWorks LogoutForgets WindowHolds
