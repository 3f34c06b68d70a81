\* What the manual says of @M@ for a file without tags.
SPECIFICATION Spec
CONSTANTS
  NULL = NULL
  QuoteMax = 16
  Text <- Texts
  Numerals <- Numbers
  Truncated <- LongValues
  Markup <- MarkupValues
  ReadAs <- MarkupRead
  Starts <- AllStarts
  Unreadable <- UnreadablePaths
  Tracks <- Playlist
  Tags <- TagsRead
  Songs <- SongsPlayed
INVARIANT UntaggedIsNamed
