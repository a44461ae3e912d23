CONSTANTS
  MaxTurns = 1
  MaxSegs = 1
  MaxAudio = 2
  MaxFrames = 1
  MaxInputs = 3
  Worlds <- MCSpeech
  EventCap = 2
  OutCap = 2
  HeardWindow = 1
SPECIFICATION Spec
PROPERTY HeardKept
CHECK_DEADLOCK FALSE
