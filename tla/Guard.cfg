SPECIFICATION FairSpec
CONSTANTS
  c1 = c1
  c2 = c2
  Calls <- MCCalls
  MaxConcurrency = 1
  FailureThreshold = 2
INVARIANTS SemCountsRunning SingleProbe
PROPERTIES Recovers OutageIsSeen
