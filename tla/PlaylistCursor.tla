----------------------------- MODULE PlaylistCursor -----------------------------
(***************************************************************************)
(* What playlist.h promises: a handle is a list of entries and a cursor.    *)
(* The caller owns at most one handle, as ezstream.c does, and asks for the *)
(* next entry only until it is told that there is none.                     *)
(***************************************************************************)
EXTENDS PlaylistOps

CONSTANTS Entries,      \* the file names a playlist may contain
          MaxItems,     \* the longest playlist file
          NoHandle,     \* the NULL handle
          NoEntry       \* the NULL that playlist_get_next() returns

VARIABLES pl, result
vars == <<pl, result>>

Lists == UNION { [1..n -> Entries] : n \in 0..MaxItems }

Init == pl = NoHandle /\ result = NoEntry

\* playlist_read() and playlist_reread(): the file's entries, from the start.
Read ==
  /\ pl # NoHandle => ~pl.program
  /\ \E l \in Lists : pl' = FromFile(l)
  /\ UNCHANGED result

Program == pl = NoHandle /\ pl' = FromProgram /\ UNCHANGED result

Free == pl # NoHandle /\ pl' = NoHandle /\ UNCHANGED result

\* A list handle yields its entries in order, then NULL.
NextEntry ==
  /\ pl # NoHandle /\ ~pl.program /\ pl.index <= NumItems(pl)
  /\ result' = IF AtEntry(pl) THEN Entry(pl) ELSE NoEntry
  /\ pl' = GetNext(pl)

\* A program handle yields whatever its program prints, or NULL.
NextPrinted ==
  /\ pl # NoHandle /\ pl.program
  /\ result' \in Entries \cup {NoEntry}
  /\ UNCHANGED pl

Move ==
  /\ pl # NoHandle
  /\ \/ pl' = SkipNext(pl)
     \/ \E e \in Entries : pl' = GotoEntry(pl, e)
     \/ pl' = Rewind(pl)
     \/ pl' \in Shuffled(pl)
  /\ UNCHANGED result

Next == Read \/ Program \/ Free \/ NextEntry \/ NextPrinted \/ Move

Spec == Init /\ [][Next]_vars
================================================================================
