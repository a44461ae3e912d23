SPECIFICATION FairSpec
CONSTANTS
  c1 = c1
  c2 = c2
  Refresher = Refresher
  Warmer = Warmer
  None = None
  Callers <- MCCallers
  Tasks = {"asr"}
  Offers = {{"asr"}, {}}
  MaxKey = 1
  Worlds <- MCWorlds
INVARIANTS WaitersAreServed
PROPERTIES CacheNeverGoesBack KeysCatchUp
