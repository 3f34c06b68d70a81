-------------------------------- MODULE PlayOrder --------------------------------
(***************************************************************************)
(* What ezstream promises of the order in which it streams: one resource at *)
(* a time, a playlist entry by entry from its start to its end and only     *)
(* then again, and, when the playlist was reread, on from the entry that    *)
(* was streamed last.  What is opened for an entry is closed before it is   *)
(* over, and the program leaves the air between two entries only.           *)
(***************************************************************************)
EXTENDS PlaylistOps

CONSTANTS Songs, NoSong, NoList

VARIABLES kind,      \* what is streamed: a "list", a "program"'s or a "single" file
          shuffle,
          phase,     \* "off", "between", "playing" or "over"
          list, pos, \* the playlist, and how many of its entries were begun
          song,      \* the entry begun last
          source     \* what is open for it: "none", "file", "pipe" or "stdin"
vars == <<kind, shuffle, phase, list, pos, song, source>>

Init ==
  /\ kind \in {"list", "program", "single"} /\ shuffle \in BOOLEAN
  /\ phase = "off" /\ list = NoList /\ pos = 0 /\ song = NoSong
  /\ source = "none"

Settings == UNCHANGED <<kind, shuffle>>

GoOnAir ==
  /\ phase = "off" /\ phase' \in {"between", "over"}
  /\ Settings /\ UNCHANGED <<list, pos, song>>

Load ==
  /\ phase = "between" /\ list = NoList /\ kind # "single"
  /\ list' \in IF kind = "program" THEN {<< >>} ELSE Seq(Songs)
  /\ Settings /\ UNCHANGED <<phase, pos, song>>

BeginEntry ==
  /\ phase = "between" /\ phase' = "playing"
  /\ kind = "list" /\ list # NoList /\ pos < Len(list)
  /\ pos' = pos + 1 /\ song' = list[pos + 1]
  /\ Settings /\ UNCHANGED list

BeginPrinted ==
  /\ phase = "between" /\ phase' = "playing"
  /\ kind = "program" /\ song' \in Songs
  /\ Settings /\ UNCHANGED <<list, pos>>

BeginSingle ==
  /\ phase = "between" /\ phase' = "playing"
  /\ kind = "single"
  /\ Settings /\ UNCHANGED <<list, pos, song>>

OpenSource ==
  /\ phase = "playing" /\ source = "none"
  /\ source' \in {"file", "pipe", "stdin"}
  /\ Settings /\ UNCHANGED <<phase, list, pos, song>>

\* An entry that could not be opened is over as well.
Finish ==
  /\ phase = "playing" /\ phase' = "between"
  /\ source' = "none"
  /\ Settings /\ UNCHANGED <<list, pos, song>>

StartOver ==
  /\ phase = "between"
  /\ kind = "list" /\ list # NoList /\ pos = Len(list)
  /\ list' \in IF shuffle THEN Permuted(list) ELSE {list}
  /\ pos' = 0
  /\ Settings /\ UNCHANGED <<phase, song>>

\* An entry that is gone from the list leaves its start, give or take an entry.
ResumePoints(l) ==
  IF shuffle THEN {0}
  ELSE IF \E k \in DOMAIN l : l[k] = song THEN {FirstPlace(l, song)}
  ELSE {k \in 0..1 : k <= Len(l)}

Reload ==
  /\ phase = "between"
  /\ kind = "list" /\ list # NoList
  /\ list' \in Seq(Songs)
  /\ pos' \in ResumePoints(list')
  /\ Settings /\ UNCHANGED <<phase, song>>

GoOff ==
  /\ phase = "between" /\ phase' = "over"
  /\ list' = NoList /\ pos' = 0
  /\ Settings /\ UNCHANGED song

\* Nothing else is done while anything is open.
Between ==
  /\ source = "none" /\ UNCHANGED source
  /\ \/ GoOnAir \/ Load \/ BeginEntry \/ BeginPrinted \/ BeginSingle
     \/ StartOver \/ Reload \/ GoOff

Next == OpenSource \/ Finish \/ Between

Spec == Init /\ [][Next]_vars
================================================================================
