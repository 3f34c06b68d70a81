\* What the manual says of USR1.
SPECIFICATION HistorySpec
CONSTANTS
  a = a
  b = b
  c = c
  StdinName = StdinName
  Songs = {a, b, c, StdinName}
  NoSong = NoSong
  NoPlaylist = NoPlaylist
  Configs <- OnlyBase
  Lists <- DistinctLists
  MaxErrors = 1
  UIntRange = 4
  MaxBlocks = 2
  MaxEdits = 0
  Restart = TRUE
INVARIANT SkipEndsTrackRead
