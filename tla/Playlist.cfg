\* Every sequence of calls playlist.h allows, on files of up to 4 lines: the
\* array grows twice (2 -> 4 -> 8 slots).
SPECIFICATION Spec
CONSTANTS
  Entries = {a, b}
  Junk = Junk
  MaxItems = 4
  NULL = NULL
  Garbage = Garbage
  RandMax = 5
INVARIANTS TypeOK Terminated 
PROPERTY IsCursor
