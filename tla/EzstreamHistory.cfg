\* What remains to be done after a signal or a failure.
SPECIFICATION HistorySpec
CONSTANTS
  a = a
  b = b
  c = c
  StdinName = StdinName
  Songs = {a, b, c, StdinName}
  NoSong = NoSong
  NoPlaylist = NoPlaylist
  Configs <- HistoryConfigs
  Lists <- DistinctLists
  MaxErrors = 1
  UIntRange = 4
  MaxBlocks = 2
  MaxEdits = 1
  Restart = FALSE
INVARIANTS StopsPromptly NoHupLost HupWaitsForOneTrack
INVARIANTS SkipEndsTrackAlone QueryRunsProgramAlone AttemptsBoundedAlone EndsForAReason
