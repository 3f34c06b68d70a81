----------------------------- MODULE PlaylistProofs -----------------------------
(***************************************************************************)
(* Proofs about Playlist, for any entries, length of the file and range of  *)
(* random numbers: the array stays terminated, and is the list with a cursor *)
(* of PlaylistCursor.                                                         *)
(***************************************************************************)
EXTENDS Playlist, WellFoundedInduction, FiniteSetTheorems, TLAPS

--------------------------------------------------------------------------------
(* One handle. *)

Slot == Entries \cup {NULL, Garbage}

\* A handle between two operations.
Sound(h) == IsHandle(h) /\ TerminatedAt(h) /\ (h.program => h.num = 0)

\* What is in a sound handle.
LEMMA SoundParts ==
  ASSUME NEW h, Sound(h)
  PROVE  /\ h = [program |-> h.program, list |-> h.list, size |-> h.size, num |-> h.num,
                 index |-> h.index]
         /\ h.program \in BOOLEAN /\ h.size \in 0..MaxSize /\ h.num \in 0..MaxItems
         /\ h.index \in 0..(MaxItems + 1)
         /\ h.list \in [0..(h.size - 1) -> Slot]
         /\ h # NULL
BY PlaylistAssumption DEF Sound, IsHandle, Handles, Slot, MaxSize

\* A new handle is sound.
LEMMA NewSound ==
  ASSUME NEW prog \in BOOLEAN
  PROVE  Sound(Create(prog)) /\ Create(prog).num = 0 /\ Create(prog).index = 0
<1>1. << >> \in [0..(0 - 1) -> Entries \cup {NULL, Garbage}]
  OBVIOUS
<1> QED
  BY <1>1, PlaylistAssumption DEF Sound, IsHandle, Handles, TerminatedAt, Create, MaxSize

\* A record with the fields of a handle.
IsShape(h) ==
  h = [program |-> h.program, list |-> h.list, size |-> h.size, num |-> h.num,
       index |-> h.index]

\* A handle with another array.
LEMMA ArrayReplaced ==
  ASSUME NEW h, IsShape(h), NEW l, NEW m
  PROVE  [h EXCEPT !.list = l, !.size = m]
           = [program |-> h.program, list |-> l, size |-> m, num |-> h.num, index |-> h.index]
<1> DEFINE f == [h EXCEPT !.list = l, !.size = m]
<1>1. DOMAIN f = {"program", "list", "size", "num", "index"}
  BY DEF IsShape
<1>2. f = [y \in DOMAIN f |-> f[y]]
  OBVIOUS
<1>3. f.program = h.program /\ f.list = l /\ f.size = m /\ f.num = h.num /\ f.index = h.index
  BY DEF IsShape
<1> HIDE DEF f
<1>4. f = [program |-> h.program, list |-> l, size |-> m, num |-> h.num, index |-> h.index]
  BY <1>1, <1>2, <1>3
<1> QED
  BY <1>4 DEF f

\* A handle with one slot set, and another number of entries.
LEMMA SlotSet ==
  ASSUME NEW h, IsShape(h), NEW k, NEW e, NEW m
  PROVE  [h EXCEPT !.list[k] = e, !.num = m]
           = [program |-> h.program, list |-> [h.list EXCEPT ![k] = e], size |-> h.size, num |-> m, index |-> h.index]
<1> DEFINE f == [h EXCEPT !.list[k] = e, !.num = m]
<1>1. DOMAIN f = {"program", "list", "size", "num", "index"}
  BY DEF IsShape
<1>2. f = [y \in DOMAIN f |-> f[y]]
  OBVIOUS
<1>3. f.program = h.program /\ f.list = [h.list EXCEPT ![k] = e] /\ f.size = h.size /\ f.num = m /\ f.index = h.index
  BY DEF IsShape
<1> HIDE DEF f
<1>4. f = [program |-> h.program, list |-> [h.list EXCEPT ![k] = e], size |-> h.size, num |-> m, index |-> h.index]
  BY <1>1, <1>2, <1>3
<1> QED
  BY <1>4 DEF f

\* The first allocation makes room, and says nothing new.
LEMMA Allocated ==
  ASSUME NEW h, Sound(h)
  PROVE  LET a == Allocate(h)
         IN /\ a = [program |-> h.program, list |-> a.list, size |-> a.size,
                    num |-> h.num, index |-> h.index]
            /\ a.size \in Nat \ {0} /\ a.size <= MaxSize /\ a.num < a.size
            /\ a.list \in [0..(a.size - 1) -> Slot]
            /\ \A k \in 0..(a.num - 1) : a.list[k] \in Entries /\ a.list[k] = h.list[k]
            /\ \A k \in a.num..(a.size - 1) : a.list[k] = NULL
<1> DEFINE a == Allocate(h)
<1>1. /\ h = [program |-> h.program, list |-> h.list, size |-> h.size, num |-> h.num,
             index |-> h.index]
      /\ h.size \in 0..MaxSize /\ h.num \in 0..MaxItems /\ MaxItems \in Nat
      /\ h.list \in [0..(h.size - 1) -> Slot]
  BY SoundParts, PlaylistAssumption
<1>2. CASE h.size = 0
  <2>1. h.num = 0
    BY <1>2 DEF Sound, TerminatedAt
  <2>2. a = [program |-> h.program, list |-> [k \in 0..1 |-> NULL], size |-> 2,
             num |-> h.num, index |-> h.index]
    BY <1>1, <1>2 DEF Allocate
  <2> HIDE DEF a
  <2>3. a.list = [k \in 0..1 |-> NULL] /\ a.size = 2 /\ a.num = 0
    BY <2>1, <2>2
  <2>4. 2 <= MaxSize
    BY <1>1 DEF MaxSize
  <2>5. a.list \in [0..(a.size - 1) -> Slot]
    BY <2>3 DEF Slot
  <2>6. \A k \in a.num..(a.size - 1) : a.list[k] = NULL
    BY <2>3
  <2> QED
    BY <2>2, <2>3, <2>4, <2>5, <2>6 DEF a
<1>3. CASE h.size # 0
  BY <1>1, <1>3 DEF Allocate, Sound, TerminatedAt
<1> QED
  BY <1>2, <1>3

\* An entry is added behind the others, with a NULL behind it.
LEMMA AddSound ==
  ASSUME NEW h, Sound(h), ~h.program, h.num < MaxItems, NEW entry \in Entries
  PROVE  LET b == Add(h, entry)
         IN /\ Sound(b) /\ ~b.program
            /\ b.num = h.num + 1 /\ b.index = h.index
            /\ b.list[h.num] = entry
            /\ \A k \in 0..(h.num - 1) : b.list[k] = h.list[k]
<1> DEFINE a == Allocate(h)
           num == h.num + 1
           g == Grow(a, num)
           b == Add(h, entry)
<1>1. /\ a = [program |-> h.program, list |-> a.list, size |-> a.size,
              num |-> h.num, index |-> h.index]
      /\ a.size \in Nat \ {0} /\ a.size <= MaxSize /\ h.num < a.size
      /\ a.list \in [0..(a.size - 1) -> Slot]
      /\ \A k \in 0..(h.num - 1) : a.list[k] \in Entries /\ a.list[k] = h.list[k]
      /\ \A k \in h.num..(a.size - 1) : a.list[k] = NULL
  BY Allocated
<1>2. h.num \in Nat /\ num \in Nat /\ num <= MaxItems /\ MaxItems \in Nat
      /\ h.index \in 0..(MaxItems + 1)
  BY SoundParts, PlaylistAssumption
<1>3. /\ g = [program |-> h.program, list |-> g.list, size |-> g.size,
              num |-> h.num, index |-> h.index]
      /\ g.size \in 0..MaxSize /\ num < g.size
      /\ g.list \in [0..(g.size - 1) -> Slot]
      /\ \A k \in 0..(num - 2) : g.list[k] \in Entries /\ g.list[k] = h.list[k]
      /\ \A k \in num..(g.size - 1) : g.list[k] = NULL
  <2> HIDE DEF a
  <2>1. CASE a.size <= num
    <3>1. /\ g.list = Doubled(a, num) /\ g.size = 2 * a.size
          /\ g = [program |-> h.program, list |-> g.list, size |-> g.size,
                  num |-> h.num, index |-> h.index]
      <4>1. g = [a EXCEPT !.list = Doubled(a, num), !.size = 2 * a.size]
        BY <2>1 DEF Grow, Full
      <4>2. g = [program |-> a.program, list |-> Doubled(a, num), size |-> 2 * a.size,
                 num |-> a.num, index |-> a.index]
        <5>1. IsShape(a)
          BY <1>1 DEF IsShape
        <5> HIDE DEF g
        <5> QED
          BY <4>1, <5>1, ArrayReplaced
      <4>3. a.program = h.program /\ a.num = h.num /\ a.index = h.index
        BY <1>1
      <4> HIDE DEF g
      <4> QED
        BY <4>2, <4>3
    <3>2. a.size = num
      BY <1>1, <1>2, <2>1
    <3>3. g.list = [k \in 0..(2 * num - 1) |->
                      IF k >= num THEN NULL ELSE IF k < num THEN a.list[k] ELSE Garbage]
      BY <3>1, <3>2 DEF Doubled
    <3> HIDE DEF g
    <3>4. g.size = 2 * num /\ num >= 1
      BY <1>2, <3>1, <3>2, SoundParts
    <3>5. \A k \in 0..(num - 2) : g.list[k] = a.list[k]
      BY <1>2, <3>3, <3>4
    <3>6. \A k \in 0..(num - 2) : g.list[k] \in Entries /\ g.list[k] = h.list[k]
      <4>1. \A k \in 0..(num - 2) : a.list[k] \in Entries /\ a.list[k] = h.list[k]
        BY <1>1, <1>2
      <4> QED
        BY <3>5, <4>1
    <3>7. \A k \in num..(g.size - 1) : g.list[k] = NULL
      BY <1>2, <3>3, <3>4
    <3>8. g.list \in [0..(g.size - 1) -> Slot]
      BY <1>1, <1>2, <3>2, <3>3, <3>4 DEF Slot
    <3> QED
      BY <1>2, <3>1, <3>4, <3>6, <3>7, <3>8 DEF MaxSize
  <2>2. CASE ~(a.size <= num)
    <3>1. g = a
      BY <2>2 DEF Grow, Full
    <3> HIDE DEF g
    <3>2. num < a.size
      BY <1>1, <1>2, <2>2
    <3>3. \A k \in 0..(num - 2) : a.list[k] \in Entries /\ a.list[k] = h.list[k]
      BY <1>1, <1>2
    <3>4. \A k \in num..(a.size - 1) : a.list[k] = NULL
      BY <1>1, <1>2
    <3> QED
      BY <1>1, <3>1, <3>2, <3>3, <3>4
  <2> QED
    BY <2>1, <2>2
<1>4. b = [program |-> h.program, list |-> [g.list EXCEPT ![num - 1] = entry],
           size |-> g.size, num |-> num, index |-> h.index]
  <2> HIDE DEF g
  <2>1. b = [g EXCEPT !.list[num - 1] = entry, !.num = num]
    BY DEF Add, g
  <2>2. IsShape(g) /\ g.program = h.program /\ g.index = h.index
    BY <1>3 DEF IsShape
  <2> HIDE DEF b
  <2>3. b = [program |-> g.program, list |-> [g.list EXCEPT ![num - 1] = entry],
             size |-> g.size, num |-> num, index |-> g.index]
    BY <2>1, <2>2, SlotSet
  <2> QED
    BY <2>2, <2>3
<1> HIDE DEF a, g, b
<1>5. b.list \in [0..(g.size - 1) -> Slot]
  BY <1>3, <1>4 DEF Slot
<1>6. IsHandle(b)
  BY <1>2, <1>3, <1>4, <1>5 DEF IsHandle, Handles, Slot, Sound
<1>7. \A k \in 0..(num - 1) : b.list[k] \in Entries
  BY <1>2, <1>3, <1>4
<1>8. \A k \in num..(g.size - 1) : b.list[k] = NULL
  BY <1>2, <1>3, <1>4
<1>9. b.list[h.num] = entry /\ \A k \in 0..(h.num - 1) : b.list[k] = h.list[k]
  BY <1>2, <1>3, <1>4
<1> QED
  BY <1>2, <1>3, <1>4, <1>6, <1>7, <1>8, <1>9 DEF Sound, TerminatedAt, b
\* Only the index moves, as far as one behind the NULL.
LEMMA IndexMoved ==
  ASSUME NEW h, Sound(h), NEW x \in 0..(h.num + 1)
  PROVE  LET b == [h EXCEPT !.index = x]
         IN /\ Sound(b) /\ b.program = h.program /\ b.list = h.list
            /\ b.num = h.num /\ b.index = x
<1> DEFINE b == [h EXCEPT !.index = x]
<1>1. b = [program |-> h.program, list |-> h.list, size |-> h.size, num |-> h.num, index |-> x]
  BY SoundParts
<1> HIDE DEF b
<1>2. IsHandle(b)
  BY <1>1, SoundParts, PlaylistAssumption DEF IsHandle, Handles, Slot
<1> QED
  BY <1>1, <1>2 DEF Sound, TerminatedAt, b

\* An entry that is in the list has a first place in it, and only one.
LEMMA PlaceFound ==
  ASSUME NEW h, Sound(h), NEW e, Holds(h, e)
  PROVE  /\ PlaceOf(h, e) \in 0..(h.num - 1)
         /\ h.list[PlaceOf(h, e)] = e
         /\ \A j \in 0..(PlaceOf(h, e) - 1) : h.list[j] # e
<1> DEFINE P == {k \in 0..(h.num - 1) : h.list[k] = e}
<1>1. P \in SUBSET Nat /\ P # {}
  BY SoundParts DEF Holds
<1>2. PICK n \in P : \A m \in P : ~(<<m, n>> \in OpToRel(<, Nat))
  BY <1>1, NatLessThanWellFounded, WFMin
<1>3. \E k \in 0..(h.num - 1) : h.list[k] = e /\ \A j \in 0..(k - 1) : h.list[j] # e
  <2>1. n \in 0..(h.num - 1) /\ h.list[n] = e
    OBVIOUS
  <2>2. ASSUME NEW j \in 0..(n - 1), h.list[j] = e PROVE FALSE
    <3>1. j \in P /\ j \in Nat /\ n \in Nat /\ j < n
      BY <2>1, <2>2, SoundParts
    <3>2. <<j, n>> \in OpToRel(<, Nat)
      BY <3>1 DEF OpToRel
    <3> QED
      BY <1>2, <3>1, <3>2
  <2> QED
    BY <2>1, <2>2
<1> QED
  BY <1>3 DEF PlaceOf

\* A swap of two entries stays among the entries.
LEMMA SwapSound ==
  ASSUME NEW h, Sound(h), NEW a \in 0..(h.num - 1), NEW b \in 0..(h.num - 1)
  PROVE  LET s == Swap(h, a, b)
         IN /\ Sound(s) /\ s.program = h.program /\ s.num = h.num /\ s.index = h.index
            /\ \A k \in 0..(h.num - 1) :
                 s.list[k] = IF k = b THEN h.list[a] ELSE IF k = a THEN h.list[b]
                             ELSE h.list[k]
<1> DEFINE s == Swap(h, a, b)
           l == [[h.list EXCEPT ![a] = h.list[b]] EXCEPT ![b] = h.list[a]]
<1>0. h.num \in 1..MaxItems /\ h.size # 0 /\ h.num < h.size /\ h.size \in Nat
      /\ a \in 0..(h.size - 1) /\ b \in 0..(h.size - 1)
      /\ h.list \in [0..(h.size - 1) -> Slot]
  BY SoundParts, PlaylistAssumption DEF Sound, TerminatedAt
<1>1. s = [program |-> h.program, list |-> l, size |-> h.size, num |-> h.num,
           index |-> h.index]
  <2> DEFINE R == [program |-> h.program, list |-> l, size |-> h.size, num |-> h.num,
                   index |-> h.index]
  <2>1. DOMAIN s = {"program", "list", "size", "num", "index"}
    BY SoundParts DEF Swap
  <2>2. s = [y \in DOMAIN s |-> s[y]]
    BY DEF Swap
  <2>3. s.program = h.program /\ s.size = h.size /\ s.num = h.num /\ s.index = h.index
    BY SoundParts DEF Swap
  <2>4. s.list = l
    BY SoundParts DEF Swap
  <2> HIDE DEF s, l
  <2> QED
    BY <2>1, <2>2, <2>3, <2>4
<1>2. /\ l \in [0..(h.size - 1) -> Slot]
      /\ \A k \in 0..(h.size - 1) :
           l[k] = IF k = b THEN h.list[a] ELSE IF k = a THEN h.list[b] ELSE h.list[k]
  BY <1>0
<1> HIDE DEF s, l
<1>3. IsHandle(s)
  BY <1>1, <1>2, SoundParts DEF IsHandle, Handles, Slot
<1>4. TerminatedAt(s)
  <2>1. /\ \A k \in 0..(h.num - 1) : h.list[k] \in Entries
        /\ \A k \in h.num..(h.size - 1) : h.list[k] = NULL
    BY <1>0 DEF Sound, TerminatedAt
  <2>2. \A k \in 0..(h.num - 1) : l[k] \in Entries
    <3>1. h.list[a] \in Entries /\ h.list[b] \in Entries
      BY <2>1
    <3>2. \A k \in 0..(h.num - 1) :
            l[k] = IF k = b THEN h.list[a] ELSE IF k = a THEN h.list[b] ELSE h.list[k]
      BY <1>0, <1>2
    <3> QED
      BY <2>1, <3>1, <3>2
  <2>3. \A k \in h.num..(h.size - 1) : l[k] = NULL
    BY <1>0, <1>2, <2>1
  <2> QED
    BY <1>0, <1>1, <2>2, <2>3 DEF TerminatedAt
<1> QED
  BY <1>0, <1>1, <1>2, <1>3, <1>4 DEF Sound, s
--------------------------------------------------------------------------------
(* The invariant. *)

\* The handle that is read has no more entries than lines were read, of a file of at
\* most MaxItems lines; a handle that is read again is not that of a program.
Reading ==
  /\ file \in Seq(Entries \cup {Junk}) /\ Len(file) <= MaxItems /\ line \in 0..Len(file)
  /\ op = "read" => /\ Sound(new) /\ ~new.program /\ new.index = 0 /\ new.num <= line
                    /\ pl # NULL => ~pl.program

\* A list with entries is shuffled, and there is one left to draw.
Shuffling ==
  /\ i \in Nat /\ d \in Nat
  /\ op \in {"draw", "swap"} => pl # NULL /\ ~pl.program /\ i \in 0..(pl.num - 1)

SoundInv ==
  /\ pl = NULL \/ Sound(pl)
  /\ op # "read" => new = NULL
  /\ op \in {"idle", "read", "draw", "swap"}
  /\ result \in Entries \cup {NULL}

IInv == SoundInv /\ Reading /\ Shuffling

\* No handle, and no file that is read.
LEMMA InitIInv == Init => IInv
BY PlaylistAssumption DEF Init, IInv, SoundInv, Reading, Shuffling

\* Every step keeps it: a line that is read, a call on the handle, a draw or a swap.
LEMMA StepIInv == IInv /\ [Next]_vars => IInv'
<1> SUFFICES ASSUME IInv, [Next]_vars PROVE IInv'
  OBVIOUS
<1> USE PlaylistAssumption DEF IInv, SoundInv, Reading, Shuffling
<1>1. CASE StartRead
  <2>1. Sound(Create(FALSE)) /\ ~Create(FALSE).program /\ Create(FALSE).num = 0
        /\ Create(FALSE).index = 0
    BY NewSound DEF Create
  <2>2. \A f \in Files : f \in Seq(Entries \cup {Junk}) /\ Len(f) <= MaxItems
    BY DEF Files
  <2>3. /\ file' \in Seq(Entries \cup {Junk}) /\ Len(file') <= MaxItems
        /\ line' = 0 /\ line' \in 0..Len(file')
    BY <1>1, <2>2 DEF StartRead
  <2>4. op' = "read" /\ Sound(new') /\ ~new'.program /\ new'.index = 0 /\ new'.num = 0
    BY <1>1, <2>1 DEF StartRead
  <2>5. UNCHANGED <<pl, i, d, result>> /\ (pl # NULL => ~pl.program)
    BY <1>1 DEF StartRead
  <2> QED
    BY <2>3, <2>4, <2>5
<1>2. CASE ReadLine
  <2>1. line + 1 \in 0..Len(file) /\ file[line + 1] \in Entries \cup {Junk}
    BY <1>2 DEF ReadLine
  <2>2. CASE file[line + 1] = Junk
    BY <1>2, <2>1, <2>2, SoundParts DEF ReadLine
  <2>3. CASE file[line + 1] # Junk
    <3>1. new.num < MaxItems /\ Sound(new) /\ ~new.program /\ op = "read"
      BY <1>2, <2>1, SoundParts DEF ReadLine
    <3>2. /\ Sound(Add(new, file[line + 1])) /\ ~Add(new, file[line + 1]).program
          /\ Add(new, file[line + 1]).num = new.num + 1
          /\ Add(new, file[line + 1]).index = new.index
      BY <2>1, <2>3, <3>1, AddSound
    <3>3. new' = Add(new, file[line + 1])
      BY <1>2, <2>3 DEF ReadLine
    <3>4. new.num + 1 <= line + 1 /\ new.num \in Nat
      BY <1>2, <3>1, SoundParts DEF ReadLine
    <3> QED
      BY <1>2, <2>1, <3>1, <3>2, <3>3, <3>4 DEF ReadLine
  <2> QED
    BY <2>2, <2>3
<1>3. CASE EndRead
  BY <1>3 DEF EndRead, StopRead
<1>4. CASE FailRead
  BY <1>4 DEF FailRead, StopRead
<1>5. CASE MakeProgram
  BY <1>5, NewSound DEF MakeProgram, Idle
<1>6. CASE Free
  BY <1>6 DEF Free, Idle
<1>7. CASE GetNext
  <2>1. Sound(pl) /\ pl.index \in 0..pl.num /\ pl.num \in Nat /\ op = "idle"
    BY <1>7, SoundParts DEF GetNext, MayGetNext, Idle
  <2>2. CASE pl.num = 0
    BY <1>7, <2>1, <2>2 DEF GetNext, Idle
  <2>3. CASE pl.num # 0
    <3>1. Sound([pl EXCEPT !.index = pl.index + 1])
      <4>1. pl.index + 1 \in 0..(pl.num + 1)
        BY <2>1
      <4> QED
        BY <2>1, <4>1, IndexMoved
    <3>2. pl.list[pl.index] \in Entries \cup {NULL}
      <4>1. pl.num < pl.size /\ pl.size \in Nat
        BY <2>1, <2>3, SoundParts DEF Sound, TerminatedAt
      <4>2. CASE pl.index < pl.num
        <5>1. pl.index \in 0..(pl.num - 1)
          BY <2>1, <4>2
        <5> QED
          BY <2>1, <2>3, <4>1, <5>1 DEF Sound, TerminatedAt
      <4>3. CASE pl.index = pl.num
        <5>1. pl.index \in pl.num..(pl.size - 1)
          BY <2>1, <4>1, <4>3
        <5> QED
          BY <2>1, <2>3, <4>1, <5>1 DEF Sound, TerminatedAt
      <4> QED
        BY <2>1, <4>2, <4>3
    <3> QED
      BY <1>7, <2>1, <2>3, <3>1, <3>2 DEF GetNext, Idle
  <2> QED
    BY <2>2, <2>3
<1>8. CASE RunProgram
  BY <1>8 DEF RunProgram, Idle
<1>9. CASE SkipNext
  <2>1. Sound(pl) /\ pl.index + 1 \in 0..(pl.num + 1) /\ op = "idle"
    BY <1>9, SoundParts DEF SkipNext, MayGetNext, Idle
  <2>2. Sound([pl EXCEPT !.index = pl.index + 1])
    BY <2>1, IndexMoved
  <2> QED
    BY <1>9, <2>1, <2>2 DEF SkipNext, Idle
<1>10. CASE Goto
  <2>1. Sound(pl) /\ op = "idle"
    BY <1>10 DEF Goto, Idle
  <2>2. ASSUME NEW e \in Entries PROVE Sound(GotoEntry(pl, e))
    <3>1. CASE ~pl.program /\ Holds(pl, e)
      <4>1. PlaceOf(pl, e) \in 0..(pl.num + 1)
        BY <2>1, <3>1, PlaceFound, SoundParts
      <4> QED
        BY <2>1, <3>1, <4>1, IndexMoved DEF GotoEntry
    <3> QED
      BY <2>1, <3>1 DEF GotoEntry
  <2> QED
    BY <1>10, <2>1, <2>2 DEF Goto, Idle
<1>11. CASE Rewind
  <2>1. Sound(pl) /\ op = "idle" /\ 0 \in 0..(pl.num + 1)
    BY <1>11, SoundParts DEF Rewind, Idle
  <2> QED
    BY <1>11, <2>1, IndexMoved DEF Rewind, Idle
<1>12. CASE StartShuffle
  <2>1. Sound(pl)
    BY <1>12 DEF StartShuffle
  <2> QED
    BY <1>12, <2>1, SoundParts DEF StartShuffle
<1>13. CASE Draw
  BY <1>13 DEF Draw
<1>14. CASE SwapDrawn
  <2>1. Sound(pl) /\ ~pl.program /\ i \in 0..(pl.num - 1) /\ pl.num \in Nat /\ d \in Nat
    BY <1>14, SoundParts DEF SwapDrawn
  <2> DEFINE j == i + (d % (pl.num - i))
  <2>2. j \in 0..(pl.num - 1)
    BY <2>1
  <2>5. pl' = Swap(pl, j, i)
    BY <1>14 DEF SwapDrawn
  <2> HIDE DEF j
  <2>3. /\ Sound(Swap(pl, j, i))
        /\ Swap(pl, j, i).program = pl.program /\ Swap(pl, j, i).num = pl.num
    BY <2>1, <2>2, SwapSound
  <2>4. Sound(pl') /\ pl'.program = pl.program /\ pl'.num = pl.num /\ pl' # NULL
    BY <2>3, <2>5, SoundParts
  <2> QED
    BY <1>14, <2>1, <2>4 DEF SwapDrawn
<1>15. CASE UNCHANGED vars
  BY <1>15 DEF vars, Sound, IsHandle, Handles, TerminatedAt
<1> QED
  BY <1>1, <1>2, <1>3, <1>4, <1>5, <1>6, <1>7, <1>8, <1>9, <1>10, <1>11, <1>12, <1>13,
     <1>14, <1>15 DEF Next

\* The invariant is one of the specification.
LEMMA IInvAlways == Spec => []IInv
BY InitIInv, StepIInv, PTL DEF Spec

\* Every variable keeps its type: no size, number or index leaves what a list of
\* MaxItems entries needs.
THEOREM TypeCorrect == Spec => []TypeOK
<1>1. IInv => TypeOK
  <2> SUFFICES ASSUME IInv PROVE TypeOK
    OBVIOUS
  <2> USE DEF IInv, SoundInv, Reading, Shuffling
  <2>1. new = NULL \/ Sound(new)
    OBVIOUS
  <2> QED
    BY <2>1 DEF TypeOK, Sound
<1> QED
  BY <1>1, IInvAlways, PTL

\* The array ends with a NULL behind its entries, for files of any length: through
\* every reallocation, and however many calls are made.
THEOREM StaysTerminated == Spec => []Terminated
<1>1. IInv => Terminated
  BY DEF IInv, SoundInv, Reading, Terminated, Sound
<1> QED
  BY <1>1, IInvAlways, PTL
\* Of one line more there is one entry more, or as many as before.
LEMMA EntriesOneMore ==
  ASSUME NEW n \in Nat
  PROVE  /\ EntriesIn(n) \in 0..n
         /\ EntriesIn(n + 1) = IF file[n + 1] # Junk THEN EntriesIn(n) + 1 ELSE EntriesIn(n)
<1> DEFINE E(m) == {l \in 1..m : file[l] # Junk}
<1>1. IsFiniteSet(1..n) /\ Cardinality(1..n) = n
  BY FS_Interval
<1>2. IsFiniteSet(E(n)) /\ Cardinality(E(n)) \in Nat /\ Cardinality(E(n)) <= n
  <2>1. E(n) \subseteq 1..n
    OBVIOUS
  <2> HIDE DEF E
  <2> QED
    BY <1>1, <2>1, FS_Subset, FS_CardinalityType
<1>3. 1..(n + 1) = (1..n) \cup {n + 1} /\ n + 1 \notin E(n)
  OBVIOUS
<1>4. E(n + 1) = IF file[n + 1] # Junk THEN E(n) \cup {n + 1} ELSE E(n)
  BY <1>3
<1>5. Cardinality(E(n) \cup {n + 1}) = Cardinality(E(n)) + 1
  <2> HIDE DEF E
  <2> QED
    BY <1>2, <1>3, FS_AddElement
<1> QED
  BY <1>2, <1>4, <1>5 DEF EntriesIn

\* Up to an entry there are at least as many as up to an earlier one, and more.
LEMMA EntriesGrow ==
  ASSUME NEW n \in Nat, NEW l \in 1..n, file[l] # Junk
  PROVE  EntriesIn(l) \in 1..EntriesIn(n)
<1> DEFINE E(m) == {x \in 1..m : file[x] # Junk}
<1>1. IsFiniteSet(E(n)) /\ IsFiniteSet({l})
  <2>1. IsFiniteSet(1..n) /\ E(n) \subseteq 1..n
    BY FS_Interval
  <2> HIDE DEF E
  <2> QED
    BY <2>1, FS_Subset, FS_Singleton
<1>2. {l} \subseteq E(l) /\ E(l) \subseteq E(n)
  OBVIOUS
<1> HIDE DEF E
<1>3. /\ IsFiniteSet(E(l)) /\ Cardinality(E(l)) <= Cardinality(E(n))
      /\ Cardinality({l}) <= Cardinality(E(l)) /\ Cardinality({l}) = 1
  BY <1>1, <1>2, FS_Subset, FS_Singleton
<1>4. Cardinality(E(l)) \in Nat /\ Cardinality(E(n)) \in Nat
  BY <1>1, <1>3, FS_CardinalityType
<1> QED
  BY <1>3, <1>4 DEF E, EntriesIn

\* A line that is read adds its entry, and moves none.
LEMMA StepKeepsFile == IInv /\ ReadKeepsFile /\ [Next]_vars => ReadKeepsFile'
<1> SUFFICES ASSUME IInv, ReadKeepsFile, [Next]_vars PROVE ReadKeepsFile'
  OBVIOUS
<1>1. CASE StartRead
  <2>1. op' = "read" /\ new'.num = 0 /\ line' = 0
    BY <1>1 DEF StartRead, Create
  <2>2. EntriesIn(0)' = 0
    <3>1. {l \in 1..0 : file'[l] # Junk} = {}
      OBVIOUS
    <3> QED
      BY <3>1, FS_EmptySet DEF EntriesIn
  <2> QED
    BY <2>1, <2>2 DEF ReadKeepsFile
<1>2. CASE ReadLine
  <2>1. /\ op = "read" /\ op' = "read" /\ line' = line + 1 /\ file' = file
        /\ line \in Nat /\ Len(file) \in Nat /\ line < Len(file)
        /\ Sound(new) /\ ~new.program /\ new.num <= line
        /\ file \in Seq(Entries \cup {Junk}) /\ Len(file) <= MaxItems
    BY <1>2 DEF ReadLine, IInv, Reading
  <2>2. /\ new.num = EntriesIn(line)
        /\ \A l \in 1..line : file[l] # Junk => new.list[EntriesIn(l) - 1] = file[l]
    BY <2>1 DEF ReadKeepsFile
  <2>3. \A n : EntriesIn(n)' = EntriesIn(n)
    BY <2>1 DEF EntriesIn
  <2>4. /\ EntriesIn(line) \in 0..line
        /\ EntriesIn(line + 1) = IF file[line + 1] # Junk THEN EntriesIn(line) + 1
                                 ELSE EntriesIn(line)
    BY <2>1, EntriesOneMore
  <2>5. CASE file[line + 1] = Junk
    <3>1. new' = new
      BY <1>2, <2>1, <2>5 DEF ReadLine
    <3>2. \A l \in 1..(line + 1) : file[l] # Junk => l \in 1..line
      BY <2>1, <2>5
    <3> QED
      BY <2>1, <2>2, <2>3, <2>4, <2>5, <3>1, <3>2 DEF ReadKeepsFile
  <2>6. CASE file[line + 1] # Junk
    <3> DEFINE b == Add(new, file[line + 1])
    <3>1. new' = b
      BY <1>2, <2>1, <2>6 DEF ReadLine
    <3>2. /\ b.num = new.num + 1 /\ b.list[new.num] = file[line + 1]
          /\ \A k \in 0..(new.num - 1) : b.list[k] = new.list[k]
      <4>1. file[line + 1] \in Entries /\ new.num < MaxItems
        BY <2>1, <2>6, SoundParts, PlaylistAssumption
      <4> QED
        BY <2>1, <4>1, AddSound
    <3> HIDE DEF b
    <3>3. ASSUME NEW l \in 1..(line + 1), file[l] # Junk
          PROVE  b.list[EntriesIn(l) - 1] = file[l]
      <4>1. CASE l = line + 1
        BY <2>2, <2>4, <2>6, <3>2, <4>1
      <4>2. CASE l # line + 1
        <5>1. l \in 1..line
          BY <2>1, <4>2
        <5>2. EntriesIn(l) \in 1..EntriesIn(line)
          BY <2>1, <3>3, <5>1, EntriesGrow
        <5>3. EntriesIn(l) - 1 \in 0..(new.num - 1)
          BY <2>2, <2>4, <5>2
        <5> QED
          BY <2>2, <3>2, <3>3, <5>1, <5>3
      <4> QED
        BY <4>1, <4>2
    <3> QED
      BY <2>1, <2>2, <2>3, <2>4, <2>6, <3>1, <3>2, <3>3 DEF ReadKeepsFile
  <2> QED
    BY <2>5, <2>6
<1>3. CASE UNCHANGED <<op, new, file, line>>
  BY <1>3 DEF ReadKeepsFile, EntriesIn
<1>4. CASE op' # "read"
  BY <1>4 DEF ReadKeepsFile
<1>5. UNCHANGED <<op, new, file, line>> \/ op' # "read" \/ StartRead \/ ReadLine
  BY DEF Next, vars, EndRead, FailRead, StopRead, MakeProgram, Free, GetNext, RunProgram,
         SkipNext, Goto, Rewind, StartShuffle, Draw, SwapDrawn, Idle
<1> QED
  BY <1>1, <1>2, <1>3, <1>4, <1>5

\* playlist_read() has the lines of its file that are entries, all of them and in
\* their order, however long the file is and wherever the dropped lines are.
THEOREM KeepsFile == Spec => []ReadKeepsFile
<1>1. Init => ReadKeepsFile
  BY DEF Init, ReadKeepsFile
<1> QED
  BY <1>1, StepKeepsFile, IInvAlways, PTL DEF Spec

--------------------------------------------------------------------------------
(* The array is the list with a cursor of PlaylistCursor. *)

\* What a caller sees of a sound handle.
LEMMA CursorOf ==
  ASSUME NEW h, Sound(h)
  PROVE  /\ Cursor(h) = [program |-> h.program, list |-> Contents(h), index |-> h.index]
         /\ Contents(h) \in [1..h.num -> Entries] /\ Contents(h) \in Seq(Entries)
         /\ Len(Contents(h)) = h.num /\ DOMAIN Contents(h) = 1..h.num
         /\ \A k \in 1..h.num : Contents(h)[k] = h.list[k - 1]
         /\ Cursor(h) # NULL
<1>1. h # NULL /\ h.num \in Nat /\ h.program \in BOOLEAN /\ h.index \in Nat
  BY SoundParts, PlaylistAssumption
<1>2. Cursor(h) = [program |-> h.program, list |-> Contents(h), index |-> h.index]
  BY <1>1 DEF Cursor
<1>3. \A k \in 1..h.num : h.list[k - 1] \in Entries
  <2>1. CASE h.num = 0
    BY <2>1
  <2>2. CASE h.num # 0
    BY <1>1, <2>2 DEF Sound, TerminatedAt
  <2> QED
    BY <2>1, <2>2
<1>4. Contents(h) \in [1..h.num -> Entries]
      /\ \A k \in 1..h.num : Contents(h)[k] = h.list[k - 1]
  BY <1>3 DEF Contents
<1>5. Contents(h) \in Seq(Entries) /\ Len(Contents(h)) = h.num
      /\ DOMAIN Contents(h) = 1..h.num
  BY <1>1, <1>4
<1>6. Cursor(h) \in [program : BOOLEAN, list : Seq(Entries), index : Nat]
  BY <1>1, <1>2, <1>5
<1> QED
  BY <1>2, <1>4, <1>5, <1>6, PlaylistAssumption

\* Handles that differ in their index only are seen as such.
LEMMA CursorMoved ==
  ASSUME NEW h, Sound(h), NEW x \in 0..(h.num + 1)
  PROVE  Cursor([h EXCEPT !.index = x]) = [Cursor(h) EXCEPT !.index = x]
<1> DEFINE b == [h EXCEPT !.index = x]
<1>1. Sound(b) /\ b.program = h.program /\ b.list = h.list /\ b.num = h.num /\ b.index = x
  BY IndexMoved
<1>2. Contents(b) = Contents(h)
  BY <1>1 DEF Contents
<1> HIDE DEF b
<1>3. Cursor(b) = [program |-> h.program, list |-> Contents(h), index |-> x]
  BY <1>1, <1>2, CursorOf
<1> QED
  BY <1>3, CursorOf DEF b

\* The first place of an entry is the same in the array and in the list.
LEMMA SamePlace ==
  ASSUME NEW h, Sound(h), NEW e, Holds(h, e)
  PROVE  Promise!FirstPlace(Contents(h), e) = PlaceOf(h, e) + 1
<1> DEFINE k == PlaceOf(h, e)
           l == Contents(h)
           Place(n) == n \in 1..h.num /\ l[n] = e /\ \A j \in 1..h.num : j < n => l[j] # e
<1>1. h.num \in Nat
  BY SoundParts
<1>2. k \in 0..(h.num - 1) /\ h.list[k] = e /\ \A j \in 0..(k - 1) : h.list[j] # e
  BY PlaceFound
<1>3. DOMAIN l = 1..h.num /\ \A j \in 1..h.num : l[j] = h.list[j - 1]
  BY CursorOf
<1> HIDE DEF k, l
<1>4. Place(k + 1)
  <2>1. k + 1 \in 1..h.num /\ l[k + 1] = e
    BY <1>1, <1>2, <1>3
  <2>2. ASSUME NEW j \in 1..h.num, j < k + 1 PROVE l[j] # e
    <3>1. j - 1 \in 0..(k - 1)
      BY <1>1, <1>2, <2>2
    <3> QED
      BY <1>2, <1>3, <3>1
  <2> QED
    BY <2>1, <2>2
<1>5. ASSUME NEW m, NEW n, Place(m), Place(n) PROVE m = n
  BY <1>1, <1>5
<1>6. Promise!FirstPlace(l, e) = CHOOSE n \in 1..h.num :
                                     l[n] = e /\ \A j \in 1..h.num : j < n => l[j] # e
  BY <1>3 DEF Promise!FirstPlace
<1>7. Place(CHOOSE n \in 1..h.num : l[n] = e /\ \A j \in 1..h.num : j < n => l[j] # e)
  BY <1>4
<1> QED
  BY <1>4, <1>5, <1>6, <1>7 DEF k, l

\* m is l with what the places a and b hold exchanged.
Exchanged(n, l, m, a, b) ==
  \A k \in 1..n : m[k] = IF k = b THEN l[a] ELSE IF k = a THEN l[b] ELSE l[k]

\* A permutation of the places by one exchange.
LEMMA ExchangePermutes ==
  ASSUME NEW n \in Nat, NEW l \in [1..n -> Entries], NEW m \in [1..n -> Entries],
         NEW a \in 1..n, NEW b \in 1..n, Exchanged(n, l, m, a, b)
  PROVE  m \in Promise!Permuted(l)
<1> USE DEF Exchanged
<1> DEFINE f == [k \in 1..n |-> IF k = b THEN a ELSE IF k = a THEN b ELSE k]
<1>1. f \in [1..n -> 1..n]
  OBVIOUS
<1>2. \A j, k \in 1..n : f[j] = f[k] => j = k
  OBVIOUS
<1>3. \A k \in 1..n : f[f[k]] = k
  OBVIOUS
<1>4. f \in Promise!Bijection(1..n, 1..n)
  BY <1>1, <1>2, <1>3 DEF Promise!Bijection, Promise!Injection, Promise!Surjection,
     Promise!IsInjective
<1>5. m = [k \in 1..n |-> l[f[k]]]
  OBVIOUS
<1> HIDE DEF f
<1> QED
  BY <1>4, <1>5 DEF Promise!Permuted

\* A list without entries is the empty list.
LEMMA NoEntries ==
  ASSUME NEW l \in [1..0 -> Entries]
  PROVE  l = << >>
OBVIOUS

\* A handle that is just made, or read from a file, starts like its promise.
LEMMA CursorOfNew ==
  /\ Cursor(Create(TRUE)) = Promise!FromProgram
  /\ \A h : Sound(h) /\ ~h.program /\ h.index = 0
             => \E l \in Promise!Lists : Cursor(h) = Promise!FromFile(l)
<1>1. Cursor(Create(TRUE)) = Promise!FromProgram
  <2>1. Sound(Create(TRUE)) /\ Create(TRUE).num = 0 /\ Create(TRUE).index = 0
        /\ Create(TRUE).program = TRUE
    BY NewSound DEF Create
  <2>2. Contents(Create(TRUE)) = << >>
    <3>1. Contents(Create(TRUE)) \in [1..0 -> Entries]
      BY <2>1, CursorOf
    <3> QED
      BY <3>1, NoEntries
  <2> QED
    BY <2>1, <2>2, CursorOf DEF Promise!FromProgram
<1>2. ASSUME NEW h, Sound(h), ~h.program, h.index = 0
      PROVE  \E l \in Promise!Lists : Cursor(h) = Promise!FromFile(l)
  <2>1. Contents(h) \in [1..h.num -> Entries] /\ h.num \in 0..MaxItems
    BY <1>2, CursorOf, SoundParts
  <2>2. Contents(h) \in Promise!Lists
    BY <2>1 DEF Promise!Lists
  <2>3. h.program = FALSE
    BY <1>2, SoundParts
  <2> QED
    BY <1>2, <2>2, <2>3, CursorOf DEF Promise!FromFile
<1> QED
  BY <1>1, <1>2

\* Every step of the array is one of the list with a cursor, or none.
LEMMA StepCursor == IInv /\ [Next]_vars => [Promise!Next]_(Promise!vars)
<1> SUFFICES ASSUME IInv, [Next]_vars, ~UNCHANGED <<Cursor(pl), result>>
             PROVE  Promise!Next
  BY DEF Promise!vars
<1> USE DEF IInv, SoundInv
<1>0. /\ pl = NULL => Cursor(pl) = NULL
      /\ pl # NULL => /\ Sound(pl) /\ Cursor(pl) # NULL
                      /\ Cursor(pl) = [program |-> pl.program, list |-> Contents(pl),
                                       index |-> pl.index]
                      /\ Len(Contents(pl)) = pl.num
                      /\ pl.num \in Nat /\ pl.index \in Nat
  BY CursorOf, SoundParts DEF Cursor
<1>1. CASE EndRead
  <2>1. Sound(new) /\ ~new.program /\ new.index = 0
    BY <1>1 DEF EndRead, Reading
  <2>2. pl # NULL => ~pl.program
    BY <1>1 DEF EndRead, Reading
  <2> QED
    BY <1>0, <1>1, <2>1, <2>2, CursorOfNew DEF EndRead, Promise!Next, Promise!Read
<1>2. CASE StartRead \/ ReadLine \/ FailRead \/ StartShuffle \/ Draw \/ UNCHANGED vars
  <2>1. pl' = pl /\ result' = result
    BY <1>2 DEF StartRead, ReadLine, FailRead, StartShuffle, Draw, vars
  <2> QED
    BY <2>1 DEF Cursor, Contents
<1>3. CASE MakeProgram
  BY <1>0, <1>3, CursorOfNew DEF MakeProgram, Promise!Next, Promise!Program
<1>4. CASE Free
  <2>1. Cursor(pl)' = NULL
    BY <1>4 DEF Free, Cursor
  <2> QED
    BY <1>0, <1>4, <2>1 DEF Free, Promise!Next, Promise!Free
<1>5. CASE GetNext
  <2>1. pl # NULL /\ Sound(pl) /\ ~pl.program /\ pl.index <= pl.num
    BY <1>0, <1>5 DEF GetNext, MayGetNext
  <2>2. CASE pl.num = 0
    <3>1. pl' = pl /\ result' = NULL
      BY <1>5, <2>2 DEF GetNext
    <3>2. Cursor(pl)' = Cursor(pl)
      BY <3>1 DEF Cursor, Contents
    <3> QED
      BY <1>0, <2>1, <2>2, <3>1, <3>2
         DEF Promise!Next, Promise!NextEntry, Promise!NumItems, Promise!AtEntry,
             Promise!GetNext
  <2>3. CASE pl.num # 0
    <3>1. pl' = [pl EXCEPT !.index = pl.index + 1] /\ result' = pl.list[pl.index]
      BY <1>5, <2>3 DEF GetNext
    <3>2. Cursor(pl)' = [Cursor(pl) EXCEPT !.index = pl.index + 1]
      <4>1. pl.index + 1 \in 0..(pl.num + 1)
        BY <1>0, <2>1
      <4>2. Cursor([pl EXCEPT !.index = pl.index + 1])
              = [Cursor(pl) EXCEPT !.index = pl.index + 1]
        BY <2>1, <4>1, CursorMoved
      <4> QED
        BY <3>1, <4>2 DEF Cursor, Contents
    <3>3. CASE pl.index < pl.num
      <4>1. result' = Contents(pl)[pl.index + 1]
        <5>1. pl.index + 1 \in 1..pl.num /\ (pl.index + 1) - 1 = pl.index
          BY <1>0, <2>1, <3>3
        <5> QED
          BY <2>1, <3>1, <5>1, CursorOf
      <4> QED
        BY <1>0, <2>1, <2>3, <3>2, <3>3, <4>1
           DEF Promise!Next, Promise!NextEntry, Promise!NumItems, Promise!AtEntry,
               Promise!Entry, Promise!GetNext
    <3>4. CASE pl.index = pl.num
      <4>1. result' = NULL
        <5>1. pl.num < pl.size /\ pl.size \in Nat
          BY <2>1, <2>3, SoundParts DEF Sound, TerminatedAt
        <5>2. pl.num \in pl.num..(pl.size - 1)
          BY <1>0, <2>1, <5>1
        <5> QED
          BY <2>1, <3>1, <3>4, <5>1, <5>2 DEF Sound, TerminatedAt
      <4> QED
        BY <1>0, <2>1, <2>3, <3>2, <3>4, <4>1
           DEF Promise!Next, Promise!NextEntry, Promise!NumItems, Promise!AtEntry,
               Promise!GetNext
    <3> QED
      BY <1>0, <2>1, <3>3, <3>4
  <2> QED
    BY <2>2, <2>3
<1>6. CASE RunProgram
  BY <1>0, <1>6 DEF RunProgram, MayGetNext, Idle, Promise!Next, Promise!NextPrinted
<1>7. CASE SkipNext
  <2>1. pl # NULL /\ Sound(pl) /\ pl.index <= pl.num /\ pl.num # 0 /\ result' = result
    BY <1>0, <1>7 DEF SkipNext, MayGetNext
  <2>2. pl.index < pl.num
    <3>1. pl.list[pl.index] # NULL
      BY <1>7 DEF SkipNext
    <3>2. pl.num < pl.size /\ pl.size \in Nat
      BY <2>1, SoundParts DEF Sound, TerminatedAt
    <3>3. pl.num \in pl.num..(pl.size - 1)
      BY <1>0, <2>1, <3>2
    <3>4. pl.list[pl.num] = NULL
      BY <2>1, <3>2, <3>3 DEF Sound, TerminatedAt
    <3> QED
      BY <1>0, <2>1, <3>1, <3>4
  <2>3. pl' = [pl EXCEPT !.index = pl.index + 1]
    BY <1>7 DEF SkipNext
  <2>4. Cursor(pl)' = [Cursor(pl) EXCEPT !.index = pl.index + 1]
    <3>1. pl.index + 1 \in 0..(pl.num + 1)
      BY <1>0, <2>1
    <3>2. Cursor([pl EXCEPT !.index = pl.index + 1])
            = [Cursor(pl) EXCEPT !.index = pl.index + 1]
      BY <2>1, <3>1, CursorMoved
    <3> QED
      BY <2>3, <3>2 DEF Cursor, Contents
  <2>5. Cursor(pl)' = Promise!SkipNext(Cursor(pl))
    BY <1>0, <2>1, <2>2, <2>4 DEF Promise!SkipNext, Promise!AtEntry, Promise!NumItems
  <2> QED
    BY <1>0, <2>1, <2>5 DEF Promise!Next, Promise!Move
<1>8. CASE Goto
  <2>1. PICK e \in Entries : pl' = GotoEntry(pl, e)
    BY <1>8 DEF Goto
  <2>2. pl # NULL /\ Sound(pl) /\ result' = result
    BY <1>0, <1>8 DEF Goto
  <2>3. ~pl.program /\ Holds(pl, e)
    <3>1. pl' = pl => Cursor(pl)' = Cursor(pl)
      BY DEF Cursor, Contents
    <3> QED
      BY <2>1, <2>2, <3>1 DEF GotoEntry
  <2> DEFINE k == PlaceOf(pl, e)
  <2>4. k \in 0..(pl.num - 1) /\ pl.list[k] = e
    BY <2>2, <2>3, PlaceFound
  <2>5. Promise!FirstPlace(Contents(pl), e) = k + 1
    BY <2>2, <2>3, SamePlace
  <2>6. pl' = [pl EXCEPT !.index = k]
    BY <2>1, <2>3 DEF GotoEntry
  <2> HIDE DEF k
  <2>7. Cursor(pl)' = [Cursor(pl) EXCEPT !.index = k]
    <3>1. k \in 0..(pl.num + 1)
      BY <1>0, <2>2, <2>4
    <3>2. Cursor([pl EXCEPT !.index = k]) = [Cursor(pl) EXCEPT !.index = k]
      BY <2>2, <3>1, CursorMoved
    <3> QED
      BY <2>6, <3>2 DEF Cursor, Contents
  <2>8. k + 1 \in DOMAIN Contents(pl) /\ Contents(pl)[k + 1] = e
    <3>1. k + 1 \in 1..pl.num /\ (k + 1) - 1 = k
      BY <1>0, <2>2, <2>4
    <3> QED
      BY <2>2, <2>4, <3>1, CursorOf
  <2>9. (k + 1) - 1 = k
    BY <1>0, <2>2, <2>4
  <2>10. Cursor(pl).list = Contents(pl)
    BY <1>0, <2>2
  <2>11. Cursor(pl)' = Promise!GotoEntry(Cursor(pl), e)
    BY <2>5, <2>7, <2>8, <2>9, <2>10 DEF Promise!GotoEntry
  <2> QED
    BY <1>0, <2>2, <2>11 DEF Promise!Next, Promise!Move
<1>9. CASE Rewind
  <2>1. pl # NULL /\ Sound(pl) /\ result' = result
    BY <1>0, <1>9 DEF Rewind
  <2>2. ~pl.program
    <3>1. pl' = pl => Cursor(pl)' = Cursor(pl)
      BY DEF Cursor, Contents
    <3> QED
      BY <1>9, <2>1, <3>1 DEF Rewind
  <2>3. pl' = [pl EXCEPT !.index = 0]
    BY <1>9, <2>2 DEF Rewind
  <2>4. Cursor(pl)' = [Cursor(pl) EXCEPT !.index = 0]
    <3>1. 0 \in 0..(pl.num + 1)
      BY <1>0, <2>1
    <3>2. Cursor([pl EXCEPT !.index = 0]) = [Cursor(pl) EXCEPT !.index = 0]
      BY <2>1, <3>1, CursorMoved
    <3> QED
      BY <2>3, <3>2 DEF Cursor, Contents
  <2> QED
    BY <1>0, <2>1, <2>4 DEF Promise!Next, Promise!Move, Promise!Rewind
<1>10. CASE SwapDrawn
  <2>1. pl # NULL /\ Sound(pl) /\ i \in 0..(pl.num - 1) /\ d \in Nat /\ result' = result
    BY <1>0, <1>10 DEF SwapDrawn, Shuffling
  <2> DEFINE a == i + (d % (pl.num - i))
             s == Swap(pl, a, i)
  <2>2. a \in 0..(pl.num - 1)
    BY <1>0, <2>1
  <2>3. pl' = s
    BY <1>10 DEF SwapDrawn
  <2> HIDE DEF a
  <2>4. /\ Sound(s) /\ s.program = pl.program /\ s.num = pl.num /\ s.index = pl.index
        /\ \A k \in 0..(pl.num - 1) :
             s.list[k] = IF k = i THEN pl.list[a] ELSE IF k = a THEN pl.list[i]
                         ELSE pl.list[k]
    BY <2>1, <2>2, SwapSound
  <2> HIDE DEF s
  <2> DEFINE l == Contents(pl)
             m == Contents(s)
  <2>5. /\ l \in [1..pl.num -> Entries] /\ \A k \in 1..pl.num : l[k] = pl.list[k - 1]
        /\ m \in [1..pl.num -> Entries] /\ \A k \in 1..pl.num : m[k] = s.list[k - 1]
        /\ Cursor(s) = [program |-> pl.program, list |-> m, index |-> pl.index]
    BY <2>1, <2>4, CursorOf
  <2> HIDE DEF l, m
  <2>6. a + 1 \in 1..pl.num /\ i + 1 \in 1..pl.num
    BY <1>0, <2>1, <2>2
  <2>7. \A k \in 1..pl.num :
          m[k] = IF k = i + 1 THEN l[a + 1] ELSE IF k = a + 1 THEN l[i + 1] ELSE l[k]
    <3> TAKE k \in 1..pl.num
    <3>1. /\ k - 1 \in 0..(pl.num - 1) /\ (a + 1) - 1 = a /\ (i + 1) - 1 = i
          /\ k - 1 = i <=> k = i + 1
          /\ k - 1 = a <=> k = a + 1
      BY <1>0, <2>1, <2>2
    <3>2. /\ m[k] = s.list[k - 1] /\ l[k] = pl.list[k - 1]
          /\ l[a + 1] = pl.list[a] /\ l[i + 1] = pl.list[i]
      BY <2>5, <2>6, <3>1
    <3> QED
      BY <2>4, <3>1, <3>2
  <2>8. m \in Promise!Permuted(l)
    <3> DEFINE p == a + 1
               q == i + 1
               n == pl.num
    <3>1. /\ n \in Nat /\ p \in 1..n /\ q \in 1..n
          /\ l \in [1..n -> Entries] /\ m \in [1..n -> Entries]
      BY <2>1, <2>5, <2>6, SoundParts
    <3>2. Exchanged(n, l, m, p, q)
      BY <2>7 DEF Exchanged
    <3> HIDE DEF n, p, q
    <3> QED
      BY <3>1, <3>2, ExchangePermutes
  <2>9. Cursor(pl)' = [Cursor(pl) EXCEPT !.list = m]
    <3>1. Cursor(pl)' = Cursor(s)
      BY <2>3 DEF Cursor, Contents
    <3> QED
      BY <1>0, <2>1, <2>5, <3>1
  <2>10. Cursor(pl).list = l
    BY <1>0, <2>1 DEF l
  <2>11. Cursor(pl)' \in Promise!Shuffled(Cursor(pl))
    BY <2>8, <2>9, <2>10 DEF Promise!Shuffled
  <2> QED
    BY <1>0, <2>1, <2>11 DEF Promise!Next, Promise!Move
<1> QED
  BY <1>1, <1>2, <1>3, <1>4, <1>5, <1>6, <1>7, <1>8, <1>9, <1>10 DEF Next

\* playlist.c keeps what playlist.h promises: whatever is read, lost, shuffled and
\* asked for, in any order, a caller sees a list with a cursor.
THEOREM ImplementsCursor == Spec => IsCursor
<1>1. Init => Promise!Init
  BY DEF Init, Promise!Init, Cursor
<1>2. IInv /\ [Next]_vars => [Promise!Next]_(Promise!vars)
  BY StepCursor
<1> QED
  BY <1>1, <1>2, IInvAlways, PTL DEF Spec, IsCursor, Promise!Spec
================================================================================
