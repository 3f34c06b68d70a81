------------------------------ MODULE PlaylistOps ------------------------------
(***************************************************************************)
(* What the operations of src/src/playlist.c do to a playlist handle, as    *)
(* their callers see it: the entries, in order, and the index of the entry  *)
(* that playlist_get_next() returns next.  A handle of playlist_program()   *)
(* has no entries of its own, so every list operation leaves it alone.      *)
(* Playlist shows that the array in playlist.c implements these operators;  *)
(* Ezstream uses them for the handle that streamPlaylist() walks.           *)
(***************************************************************************)
EXTENDS Naturals, Sequences, Functions

\* Index is the C index: entry k of the C array is list[k + 1] here.
FromFile(entries) == [program |-> FALSE, list |-> entries, index |-> 0]

FromProgram == [program |-> TRUE, list |-> << >>, index |-> 0]

NumItems(p) == Len(p.list)

\* The next playlist_get_next() returns an entry rather than NULL.
AtEntry(p) == p.index < NumItems(p)

Entry(p) == p.list[p.index + 1]

\* The index moves on whenever the list has entries, past its end as well.
GetNext(p) == IF NumItems(p) = 0 THEN p ELSE [p EXCEPT !.index = @ + 1]

SkipNext(p) == IF AtEntry(p) THEN [p EXCEPT !.index = @ + 1] ELSE p

FirstPlace(list, e) ==
  CHOOSE i \in DOMAIN list :
    /\ list[i] = e
    /\ \A j \in DOMAIN list : j < i => list[j] # e

\* Moves to the first occurrence; an entry that is not there changes nothing.
GotoEntry(p, e) ==
  IF \E i \in DOMAIN p.list : p.list[i] = e
  THEN [p EXCEPT !.index = FirstPlace(p.list, e) - 1]
  ELSE p

\* Mutant: the index stays where it is.
Rewind_Not(p) == p

\* Mutant: places are counted from 1.
Rewind_First(p) == [p EXCEPT !.index = 1]

Rewind(p) == [p EXCEPT !.index = 0]

Permuted(list) ==
  { [i \in DOMAIN list |-> list[f[i]]] : f \in Bijection(DOMAIN list, DOMAIN list) }

\* playlist_shuffle() moves entries and leaves the index where it is.
Shuffled(p) == { [p EXCEPT !.list = l] : l \in Permuted(p.list) }
================================================================================
