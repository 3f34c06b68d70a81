\* What the manual says of a reread playlist.
SPECIFICATION Spec
CONSTANTS
  a = a
  b = b
  c = c
  StdinName = StdinName
  Songs = {a, b, c, StdinName}
  NoSong = NoSong
  NoPlaylist = NoPlaylist
  Configs <- OnlyBase
  Lists <- DistinctLists
  MaxErrors = 1
  UIntRange = 4
  MaxBlocks = 1
  MaxEdits = 1
  Restart = TRUE
PROPERTY RestartsFromBeginning
