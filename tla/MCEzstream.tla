------------------------------- MODULE MCEzstream -------------------------------
(***************************************************************************)
(* Ezstream for TLC: settings and playlist files to choose from.            *)
(***************************************************************************)
EXTENDS Ezstream
CONSTANTS a, b, c

Base == [intake |-> "playlist", shuffle |-> FALSE, once |-> FALSE,
         encoder |-> FALSE, metadata |-> FALSE, no_updates |-> FALSE,
         refresh |-> FALSE, attempts |-> 2, signals |-> SignalNames]

\* Playlist files, walked in order or shuffled, once or for ever.
Playlists ==
  { [Base EXCEPT !.shuffle = s, !.once = o] : s \in BOOLEAN, o \in BOOLEAN }

\* Single files, standard input and playlist programs, with the metadata settings
\* that streamFile() looks at, and no limit to reconnecting.
Others ==
  { [Base EXCEPT !.intake = i, !.encoder = (i = "program"), !.metadata = m,
                 !.no_updates = n, !.attempts = 0] :
      i \in {"file", "stdin", "program"}, m \in BOOLEAN, n \in BOOLEAN }

WalkConfigs == Playlists \cup Others

\* For liveness: one of each intake, with and without a limit to reconnecting,
\* and playlists that are not reread.
LiveConfigs ==
  { [Base EXCEPT !.intake = i, !.attempts = t] :
      i \in {"playlist", "program", "file", "stdin"}, t \in {0, 2} }
  \cup
  { [Base EXCEPT !.shuffle = s, !.signals = @ \ {"HUP"}] : s \in BOOLEAN }

\* For the history: every pair of signals, and all of them, with a metadata
\* program that is also run at intervals or whose output is not to be used.
HistoryConfigs ==
  { [Base EXCEPT !.signals = s] :
      s \in { {x, y} : x \in SignalNames, y \in SignalNames } \cup {SignalNames} }
  \cup
  { [Base EXCEPT !.metadata = TRUE, !.refresh = ~n, !.no_updates = n, !.signals = s] :
      n \in BOOLEAN, s \in { {"TERM", "USR1"}, {"USR1", "USR2"}, {"HUP", "USR2"} } }
  \cup
  { [Base EXCEPT !.intake = i, !.metadata = TRUE, !.attempts = 0,
                 !.signals = {"TERM", "USR2"}] : i \in {"file", "stdin", "program"} }

OnlyBase == { Base }

\* What the playlist file may contain.
AllLists == { << >>, <<a>>, <<a, b>>, <<b, a, b>>, <<c, b, StdinName>> }
SmallLists == { << >>, <<a, b>>, <<b, a, b>> }
NonEmptyLists == { <<a>>, <<a, b>>, <<b, a, b>> }
DistinctLists == { <<a, b>>, <<b, c>> }
================================================================================
