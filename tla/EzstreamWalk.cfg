\* Every kind of intake under every signal, one edit of the playlist file.
SPECIFICATION Spec
CONSTANTS
  a = a
  b = b
  c = c
  StdinName = StdinName
  Songs = {a, b, c, StdinName}
  NoSong = NoSong
  NoPlaylist = NoPlaylist
  Configs <- WalkConfigs
  Lists <- SmallLists
  MaxErrors = 1
  UIntRange = 4
  MaxBlocks = 1
  MaxEdits = 1
  Restart = FALSE
INVARIANTS TypeOK CursorInBounds GiveUpIsFinal
PROPERTIES InOrder RereadKeepsPlace
