-------------------------------- MODULE Playlist --------------------------------
(***************************************************************************)
(* src/src/playlist.c: the growing array behind a playlist handle.  list is *)
(* indexed from 0 as in C, size counts its slots (the code counts bytes),   *)
(* num the entries, and the slot after the last entry is NULL: that NULL is *)
(* what ends playlist_get_next(), playlist_skip_next() and the loop of      *)
(* playlist_free(), so it has to be there whatever the array went through.  *)
(*                                                                          *)
(* playlist_read() reads a line per step, playlist_shuffle() draws and      *)
(* swaps in steps of their own; the other operations are one step.  The     *)
(* caller is anything that follows playlist.h.                              *)
(***************************************************************************)
EXTENDS Integers, Sequences, FiniteSets

CONSTANTS Entries,      \* file names
          Junk,         \* a line the reader drops: comment, blank or too long
          MaxItems,     \* the longest playlist file, in lines
          NULL,         \* the C NULL: of a slot, a handle or a result
          Garbage,      \* what a slot holds after xreallocarray()
          RandMax       \* RAND_MAX

\* A handle with n slots, and how many slots a list of MaxItems entries may come to.
Handles(n) ==
  [program : BOOLEAN, list : [0..(n - 1) -> Entries \cup {NULL, Garbage}], size : {n},
   num : 0..MaxItems, index : 0..(MaxItems + 1)]

MaxSize == 2 * MaxItems + 2

ASSUME PlaylistAssumption ==
  /\ Junk \notin Entries /\ NULL \notin Entries /\ Garbage \notin Entries
  /\ Garbage # NULL
  /\ \A n \in 0..MaxSize : NULL \notin Handles(n)
  /\ NULL \notin [program : BOOLEAN, list : Seq(Entries), index : Nat]
  /\ MaxItems \in Nat
  /\ RandMax \in Nat \ {0}

VARIABLES
  pl,       \* the caller's handle
  new,      \* the handle playlist_read() is filling
  file,     \* the lines of the playlist file it reads
  line,     \* how many of them it has read
  op,       \* the operation in progress: "idle", "read", "draw" or "swap"
  i, d,     \* playlist_shuffle()'s variables
  result    \* what the last playlist_get_next() returned
vars == <<pl, new, file, line, op, i, d, result>>

Files == UNION { [1..n -> Entries \cup {Junk}] : n \in 0..MaxItems }

--------------------------------------------------------------------------------
(* The handle. *)

Create(prog) ==
  [program |-> prog, list |-> << >>, size |-> 0, num |-> 0, index |-> 0]

Allocate(h) ==
  IF h.size = 0
  THEN [h EXCEPT !.list = [k \in 0..1 |-> NULL], !.size = 2]
  ELSE h

\* Mutant: no room is kept for the NULL.
Full_Late(h, num) == h.size < num

\* num entries leave no room for the NULL after them.
Full(h, num) == h.size <= num

\* xreallocarray() doubles the array; the slots from num on are cleared.
Doubled(h, num) ==
  [k \in 0..(2 * h.size - 1) |->
     IF k >= num THEN NULL ELSE IF k < h.size THEN h.list[k] ELSE Garbage]

\* Mutant: the array is doubled, its recorded size is not.
Grow_OldSize(h, num) ==
  IF Full(h, num) THEN [h EXCEPT !.list = Doubled(h, num)] ELSE h

Grow(h, num) ==
  IF Full(h, num)
  THEN [h EXCEPT !.list = Doubled(h, num), !.size = 2 * @]
  ELSE h

Add(h, entry) ==
  LET num == h.num + 1
      g   == Grow(Allocate(h), num)
  IN  [g EXCEPT !.list[num - 1] = entry, !.num = num]

Holds(h, entry) == \E k \in 0..(h.num - 1) : h.list[k] = entry

\* Mutant: the last occurrence instead of the first.
PlaceOf_Last(h, entry) ==
  CHOOSE k \in 0..(h.num - 1) :
    h.list[k] = entry /\ \A j \in (k + 1)..(h.num - 1) : h.list[j] # entry

PlaceOf(h, entry) ==
  CHOOSE k \in 0..(h.num - 1) :
    h.list[k] = entry /\ \A j \in 0..(k - 1) : h.list[j] # entry

GotoEntry(h, entry) ==
  IF ~h.program /\ Holds(h, entry)
  THEN [h EXCEPT !.index = PlaceOf(h, entry)]
  ELSE h

Swap(h, a, b) ==
  [h EXCEPT !.list[a] = h.list[b], !.list[b] = h.list[a]]

--------------------------------------------------------------------------------
(* playlist_read(), for a caller without a handle and inside                *)
(* playlist_reread(), which keeps the old handle until the new one is read. *)

Init ==
  /\ pl = NULL /\ new = NULL /\ file = << >> /\ line = 0
  /\ op = "idle" /\ i = 0 /\ d = 0 /\ result = NULL

StartRead ==
  /\ op = "idle"
  /\ pl # NULL => ~pl.program
  /\ op' = "read"
  /\ new' = Create(FALSE)
  /\ file' \in Files /\ line' = 0
  /\ UNCHANGED <<pl, i, d, result>>

\* Mutant: a comment ends the playlist.
ReadLine_Stops ==
  /\ op = "read" /\ line < Len(file)
  /\ line' = IF file[line + 1] = Junk THEN Len(file) ELSE line + 1
  /\ new' = IF file[line + 1] = Junk THEN new ELSE Add(new, file[line + 1])
  /\ UNCHANGED <<pl, file, op, i, d, result>>

ReadLine ==
  /\ op = "read" /\ line < Len(file)
  /\ line' = line + 1
  /\ new' = IF file[line'] = Junk THEN new ELSE Add(new, file[line'])
  /\ UNCHANGED <<pl, file, op, i, d, result>>

StopRead == op' = "idle" /\ new' = NULL /\ file' = << >> /\ line' = 0

EndRead ==
  /\ op = "read" /\ line = Len(file)
  /\ pl' = new
  /\ StopRead /\ UNCHANGED <<i, d, result>>

\* fopen() or a read failed: the half-read handle is freed, the old one kept.
FailRead ==
  /\ op = "read"
  /\ StopRead /\ UNCHANGED <<pl, i, d, result>>

--------------------------------------------------------------------------------
(* The operations on a handle. *)

Idle == op = "idle" /\ UNCHANGED <<new, file, line, op, i, d>>

MakeProgram ==
  Idle /\ pl = NULL /\ pl' = Create(TRUE) /\ UNCHANGED result

Free == Idle /\ pl # NULL /\ pl' = NULL /\ UNCHANGED result

\* playlist.h: the caller stops at the NULL that ends the list.
MayGetNext == pl # NULL /\ pl.index <= pl.num

GetNext ==
  /\ Idle /\ MayGetNext
  /\ ~pl.program
  /\ IF pl.num = 0
     THEN result' = NULL /\ UNCHANGED pl
     ELSE result' = pl.list[pl.index] /\ pl' = [pl EXCEPT !.index = @ + 1]

RunProgram ==
  /\ Idle /\ MayGetNext
  /\ pl.program
  /\ result' \in Entries \cup {NULL}
  /\ UNCHANGED pl

SkipNext ==
  /\ Idle /\ MayGetNext
  /\ ~pl.program /\ pl.num # 0
  /\ pl' = IF pl.list[pl.index] # NULL THEN [pl EXCEPT !.index = @ + 1] ELSE pl
  /\ UNCHANGED result

Goto ==
  /\ Idle /\ pl # NULL
  /\ \E e \in Entries : pl' = GotoEntry(pl, e)
  /\ UNCHANGED result

Rewind ==
  /\ Idle /\ pl # NULL
  /\ pl' = IF pl.program THEN pl ELSE [pl EXCEPT !.index = 0]
  /\ UNCHANGED result

--------------------------------------------------------------------------------
(* playlist_shuffle(): the Knuth shuffle over a generator of unsigned ints,   *)
(* whose range is twice that of RAND_MAX.                                     *)

StartShuffle ==
  /\ op = "idle" /\ pl # NULL
  /\ ~pl.program /\ pl.num >= 2
  /\ op' = "draw" /\ i' = 0
  /\ UNCHANGED <<pl, new, file, line, d, result>>

Accepts(x, range) == x <= RandMax - (RandMax % range)

\* The loop of draws, up to the first that is accepted.
Draw ==
  /\ op = "draw"
  /\ \E x \in 0..(2 * RandMax + 1) : Accepts(x, pl.num - i) /\ d' = x
  /\ op' = "swap"
  /\ UNCHANGED <<pl, new, file, line, i, result>>

SwapDrawn ==
  /\ op = "swap"
  /\ pl' = Swap(pl, i + (d % (pl.num - i)), i)
  /\ i' = i + 1
  /\ d' = 0
  /\ op' = IF i + 1 < pl.num THEN "draw" ELSE "idle"
  /\ UNCHANGED <<new, file, line, result>>

Next ==
  \/ StartRead \/ ReadLine \/ EndRead \/ FailRead
  \/ MakeProgram \/ Free
  \/ GetNext \/ RunProgram \/ SkipNext \/ Goto \/ Rewind
  \/ StartShuffle \/ Draw \/ SwapDrawn

Spec == Init /\ [][Next]_vars

--------------------------------------------------------------------------------
(* Properties. *)

IsHandle(h) == h.size \in 0..MaxSize /\ h \in Handles(h.size)

\* The type invariant; the array of a handle has exactly size slots.
TypeOK ==
  /\ pl = NULL \/ IsHandle(pl)
  /\ new = NULL \/ IsHandle(new)
  /\ file \in Seq(Entries \cup {Junk}) /\ line \in 0..Len(file)
  /\ op \in {"idle", "read", "draw", "swap"}
  /\ i \in Nat /\ d \in Nat
  /\ result \in Entries \cup {NULL}

TerminatedAt(h) ==
  IF h.size = 0
  THEN h.num = 0
  ELSE /\ h.num < h.size
       /\ \A k \in 0..(h.num - 1) : h.list[k] \in Entries
       /\ \A k \in h.num..(h.size - 1) : h.list[k] = NULL

\* Through every growth of the array and every swap of a shuffle, num entries
\* come first and a NULL follows them: no slot past the array is looked at, no
\* uninitialized slot is returned, and playlist_free() reaches every entry.
Terminated ==
  /\ pl # NULL => TerminatedAt(pl)
  /\ new # NULL => TerminatedAt(new)

Contents(h) == [k \in 1..h.num |-> h.list[k - 1]]

EntriesIn(n) == Cardinality({l \in 1..n : file[l] # Junk})

\* playlist_read() has, after any number of lines, exactly the lines that are not
\* comments, blank or too long, in the file's order, across reallocations: the n-th
\* of them is the n-th entry.
ReadKeepsFile ==
  op = "read" =>
    /\ new.num = EntriesIn(line)
    /\ \A l \in 1..line :
         file[l] # Junk => new.list[EntriesIn(l) - 1] = file[l]

Cursor(h) ==
  IF h = NULL THEN NULL
  ELSE [program |-> h.program, list |-> Contents(h), index |-> h.index]

Promise == INSTANCE PlaylistCursor
             WITH pl <- Cursor(pl), NoHandle <- NULL, NoEntry <- NULL

\* The array is a list with a cursor, as playlist.h has it: reading replaces the
\* whole list or, when it fails, nothing, and a shuffle permutes the entries.
IsCursor == Promise!Spec
================================================================================
