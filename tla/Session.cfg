\* A process, from the command line to its tracks.
SPECIFICATION Spec
CONSTANTS
  NULL = NULL
  QuoteMax = 16
  Text <- Texts
  Numerals <- Numbers
  Truncated <- LongValues
  Markup <- MarkupValues
  ReadAs <- MarkupRead
  Starts <- AllStarts
  Unreadable <- UnreadablePaths
  Tracks <- Playlist
  Tags <- TagsRead
  Songs <- SongsPlayed
INVARIANTS TypeOK NeverPlaintext ConfiguredAsWritten  MigratedIsRead MigratedStreams
  MigratedDecodes CommandReadsBack QuietCommands AtRest
PROPERTIES ToldIsOfTheSong
