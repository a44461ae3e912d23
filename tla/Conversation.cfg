SPECIFICATION FairSpec
CONSTANTS
  FirstMin = 3
  LaterSoftMin = 4
  MinLater = 3
  MinFirst = 2
  ForceSplit = 6
  Redirect <- MCRedirect
  Worlds <- MCWorlds
  MaxHistory = 2
INVARIANTS NothingLost ChunksDoNotShow CompleteIsWhole MeasuredInTime TrimmingDoesNotShow ResumeTellsTheSame
PROPERTIES SilenceIsTold
