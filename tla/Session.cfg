SPECIFICATION Spec
CONSTANTS
  MaxTurns = 2
  MaxSegs = 2
  MaxAudio = 2
  MaxFrames = 1
  MaxInputs = 2
  Worlds <- MCWorlds
  EventCap = 1
  OutCap = 2
  HeardWindow = 1
INVARIANTS HistoryMatchesRows DroppedOnlyWhenSuperseded StoredWithinHeard CompleteMeansAll
PROPERTIES SegmentsBeforeDone RowsKeepTheirTurn
CHECK_DEADLOCK FALSE
