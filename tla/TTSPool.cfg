SPECIFICATION FairSpec
CONSTANTS
  w1 = w1
  w2 = w2
  Workers <- MCWorkers
  JobsCap = 1
  MaxSegs = 5
INVARIANTS NoLostWakeup
PROPERTIES ImplementsStream AllStop
