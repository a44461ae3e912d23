SPECIFICATION FairSpec
CONSTANTS
  MaxTurns = 1
  MaxSegs = 2
  MaxAudio = 2
  MaxFrames = 1
  MaxInputs = 1
  Worlds <- MCEnding
  EventCap = 1
  OutCap = 1
  HeardWindow = 1
PROPERTIES TurnsEnd Closes
