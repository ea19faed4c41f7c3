SPECIFICATION FairASpec
CONSTANTS
  Calls = {c1, c2}
  None = None
  StartAt = 0
  MaxEnd = 2
  MaxClock = 1
INVARIANTS TypeOK OnlyPairs
PROPERTIES EndingsStay ActsInTurn EveryCallEnds
