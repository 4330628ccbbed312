CONSTANTS
  k1 = k1
  k2 = k2
  NoKey = NoKey
  Keys = {k1, k2}
  Size = 5
  Limit = 2
  Starts <- BothStarts
  MaxPages = 4
  MaxRows = 1
  MaxFaults = 1
  MaxMoves = 3
SPECIFICATION FairSpec
CHECK_DEADLOCK FALSE
INVARIANTS NoGap EndIsComplete NoMatchesIsTrue
PROPERTY ScrollingReachesEnd
