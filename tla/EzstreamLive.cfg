\* Liveness, with playlist files that are not empty.
SPECIFICATION FairSpec
CONSTANTS
  a = a
  b = b
  c = c
  StdinName = StdinName
  Songs = {a, b, c, StdinName}
  NoSong = NoSong
  NoPlaylist = NoPlaylist
  Configs <- LiveConfigs
  Lists <- NonEmptyLists
  MaxErrors = 1
  UIntRange = 4
  MaxBlocks = 1
  MaxEdits = 0
  Restart = TRUE
PROPERTIES QuitExits HupServed EveryEntryPlayed
