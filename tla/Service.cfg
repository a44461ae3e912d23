SPECIFICATION FairSpec
CONSTANTS
  s1 = s1
  s2 = s2
  c1 = c1
  c2 = c2
  r1 = r1
  Sess <- MCSess
  Conns <- MCConns
  Reqs <- MCReqs
  MaxTurns = 2
  MinTurns = 1
  Slots = 1
  Batch = 1
  Worlds <- MCWorlds
INVARIANTS CleanExit SummaryIsWhole
PROPERTIES SummaryFollows RunReturns
