SPECIFICATION Spec
CONSTANTS
  u1 = u1
  u2 = u2
  u3 = u3
  a1 = a1
  a2 = a2
  a3 = a3
  Keys <- MCKeys
  Asks <- MCAsks
  Ids <- MCIds
  Worlds <- MCWorlds
  MaxKeys = 2
  Burst = 1
  Interval = 2
  MaxNow = 4
  MaxForgets = 2
  PageSize = 1
INVARIANTS RateBound PagesAreComplete
CHECK_DEADLOCK FALSE
