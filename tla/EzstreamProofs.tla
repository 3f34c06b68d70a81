----------------------------- MODULE EzstreamProofs -----------------------------
(***************************************************************************)
(* Proofs about Ezstream for every configuration, playlist file and bound:   *)
(* types, the bounds of the cursor, giving up; and then that it plays in the  *)
(* order of PlayOrder and keeps its place when a list is read again.         *)
(***************************************************************************)
EXTENDS Ezstream, WellFoundedInduction, TLAPS

--------------------------------------------------------------------------------
(* The operations on a playlist handle. *)

\* playlist_goto_entry() finds the first occurrence, and an index inside the list.
LEMMA FirstPlaceInList ==
  ASSUME NEW list \in Seq(Songs), NEW e, \E i \in DOMAIN list : list[i] = e
  PROVE  /\ FirstPlace(list, e) \in DOMAIN list
         /\ list[FirstPlace(list, e)] = e
<1> DEFINE P == { i \in 1..Len(list) : list[i] = e }
<1>1. P \in SUBSET Nat /\ P # {}
  OBVIOUS
<1>2. PICK n \in P : \A m \in P : ~(<<m, n>> \in OpToRel(<, Nat))
  BY <1>1, NatLessThanWellFounded, WFMin
<1>3. \E i \in DOMAIN list :
        list[i] = e /\ \A j \in DOMAIN list : j < i => list[j] # e
  <2>1. n \in DOMAIN list /\ list[n] = e
    OBVIOUS
  <2>2. ASSUME NEW j \in DOMAIN list, j < n, list[j] = e PROVE FALSE
    <3>1. j \in P /\ j \in Nat /\ n \in Nat
      BY <2>2
    <3>2. <<j, n>> \in OpToRel(<, Nat)
      BY <2>2, <3>1 DEF OpToRel
    <3> QED BY <1>2, <3>1, <3>2
  <2> QED BY <2>1, <2>2
<1> QED BY <1>3 DEF FirstPlace

\* What playlist.c keeps: a program's handle has no entries.
Held == { p \in Handles : p.program => p.list = << >> }

\* What streamPlaylist() may hand to playlist_get_next(), which reads list[index].
Bounded == { p \in Held : p.index <= NumItems(p) }

\* A fresh handle and a rewound one start inside their list.
LEMMA FreshBounded ==
  /\ FromProgram \in Bounded
  /\ \A l \in Lists : FromFile(l) \in Bounded
  /\ \A p \in Held : Rewind(p) \in Bounded
BY EzstreamAssumption DEF FromProgram, FromFile, Rewind, Bounded, Held, Handles, NumItems

\* playlist_get_next() leaves a handle a handle, and stays inside the list as long
\* as it returns entries.
LEMMA GetNextBounded ==
  ASSUME NEW p \in Bounded
  PROVE  /\ GetNext(p) \in Held
         /\ p.program \/ AtEntry(p) => GetNext(p) \in Bounded
<1>1. p \in Handles /\ (p.program => p.list = << >>) /\ p.index <= Len(p.list)
  BY DEF Bounded, Held, NumItems
<1>2. CASE Len(p.list) = 0
  BY <1>2 DEF GetNext, NumItems, Bounded
<1>3. CASE Len(p.list) # 0
  BY <1>1, <1>3 DEF GetNext, NumItems, AtEntry, Bounded, Held, Handles
<1> QED BY <1>2, <1>3

\* playlist_shuffle() permutes the entries, so that their number stays.
LEMMA ShuffledBounded ==
  ASSUME NEW p \in Bounded, NEW q \in Shuffled(p)
  PROVE  q \in Bounded
<1>1. PICK l \in Permuted(p.list) : q = [p EXCEPT !.list = l]
  BY DEF Shuffled
<1>2. PICK f \in [DOMAIN p.list -> DOMAIN p.list] :
        l = [i \in DOMAIN p.list |-> p.list[f[i]]]
  BY DEF Permuted, Bijection, Injection
<1>3. p \in Handles /\ (p.program => p.list = << >>) /\ p.index <= Len(p.list)
  BY DEF Bounded, Held, NumItems
<1>4. p.list \in Seq(Songs) /\ Len(p.list) \in Nat /\ DOMAIN p.list = 1..Len(p.list)
  BY <1>3 DEF Handles
<1>5. l \in [1..Len(p.list) -> Songs]
  BY <1>2, <1>4
<1>6. l \in Seq(Songs) /\ Len(l) = Len(p.list)
  BY <1>4, <1>5
<1>7. q \in Handles /\ q.program = p.program /\ q.index = p.index /\ q.list = l
  BY <1>1, <1>3, <1>6 DEF Handles
<1>8. l = << >> <=> p.list = << >>
  BY <1>4, <1>6
<1> QED BY <1>3, <1>6, <1>7, <1>8 DEF Bounded, Held, NumItems

\* A list that is walked again, shuffled or not, is walked from inside.
LEMMA ArrangedBounded ==
  ASSUME NEW p \in Bounded, NEW q \in Arranged(p)
  PROVE  q \in Bounded
BY ShuffledBounded DEF Arranged

\* Going to the last song and past it stays inside the list.
LEMMA ResumedBounded ==
  ASSUME NEW p \in Bounded, ~p.program
  PROVE  Resumed(p) \in Bounded
<1> DEFINE g == GotoEntry(p, lastSong)
<1>1. p \in Handles /\ p.list \in Seq(Songs) /\ p.index <= Len(p.list)
  BY DEF Bounded, Held, Handles, NumItems
<1>2. g \in Handles /\ ~g.program /\ g.index <= Len(g.list)
  <2>1. CASE \E i \in DOMAIN p.list : p.list[i] = lastSong
    <3>1. FirstPlace(p.list, lastSong) \in DOMAIN p.list
      BY <2>1, <1>1, FirstPlaceInList
    <3>2. FirstPlace(p.list, lastSong) - 1 \in Nat
          /\ FirstPlace(p.list, lastSong) - 1 <= Len(p.list)
      BY <3>1, <1>1
    <3> QED BY <2>1, <3>2, <1>1 DEF GotoEntry, Handles
  <2>2. CASE ~(\E i \in DOMAIN p.list : p.list[i] = lastSong)
    BY <2>2, <1>1 DEF GotoEntry
  <2> QED BY <2>1, <2>2
<1> HIDE DEF g
<1>3. SkipNext(g) \in Bounded
  BY <1>2 DEF SkipNext, AtEntry, NumItems, Bounded, Held, Handles
<1> QED BY <1>3 DEF g, Resumed

--------------------------------------------------------------------------------
(* The inductive invariant. *)

Inside ==
  {"next", "track_done", "reread",
   "open", "returned", "drop_skip", "drop_query", "take_skip", "take_query", "close",
   "fread", "check", "send", "poll", "reconnect", "recover"}

\* No track is begun after the failure that was one too many, because streamFile()
\* and streamPlaylist() then return 0 all the way to main().
WindingDown ==
  resource_errors > MaxErrors =>
    /\ pc \in {"track_done", "main_check", "shutdown", "exited"}
    /\ pc \in {"track_done", "main_check"} => ~retval

WalksInPlaylistMode ==
  pc \in {"load", "next", "track_done", "reread"} => PlaylistMode

WalkBounded ==
  /\ playlist # NoPlaylist => playlist \in Held
  /\ pc \in Inside /\ PlaylistMode => playlist \in Bounded

IInv == TypeOK /\ WindingDown /\ WalksInPlaylistMode /\ WalkBounded

\* A step that leaves the playlist alone and does not enter its walk.
LEMMA ListKept ==
  ASSUME WalkBounded, UNCHANGED <<cfg, playlist>>,
         pc' \in Inside /\ PlaylistMode => pc \in Inside
  PROVE  WalkBounded'
BY DEF WalkBounded, PlaylistMode

\* Zero and the successor modulo UIntRange are values of the counters.
LEMMA CounterRanges ==
  /\ 0 \in 0..(MaxErrors + 1)
  /\ 0 \in 0..(UIntRange - 1)
  /\ \A n \in Nat : (n + 1) % UIntRange \in 0..(UIntRange - 1)
<1>1. MaxErrors \in Nat /\ UIntRange \in Nat \ {0}
  BY EzstreamAssumption
<1> QED BY <1>1

\* main() preserves the invariant: a failure reported as 0 leaves its loop.
LEMMA MainKeepsIInv == IInv /\ MainStep => IInv'
<1> SUFFICES ASSUME IInv, MainStep PROVE IInv'
  OBVIOUS
<1> USE EzstreamAssumption DEF IInv
<1>1. CASE Connect
  <2>1. TypeOK'
    BY <1>1 DEF Connect, TypeOK, ControlOK, FlagsOK, PlaylistOK, StreamOK,
         Points, flags, lists, supply, resource, net, disk
  <2>2. WindingDown'
    BY <1>1 DEF Connect, WindingDown, TypeOK, ControlOK
  <2>3. WalksInPlaylistMode'
    BY <1>1 DEF Connect, WalksInPlaylistMode, PlaylistMode
  <2>4. WalkBounded'
    BY <1>1, ListKept DEF Connect, lists, Inside, WalksInPlaylistMode, PlaylistMode
  <2> QED BY <2>1, <2>2, <2>3, <2>4
<1>2. CASE MainLoop
  <2>1. TypeOK'
    BY <1>2 DEF MainLoop, TypeOK, ControlOK, FlagsOK, PlaylistOK, StreamOK,
         Points, flags, lists, supply, resource, net, disk
  <2>2. WindingDown'
    BY <1>2 DEF MainLoop, WindingDown, TypeOK, ControlOK
  <2>3. WalksInPlaylistMode'
    BY <1>2 DEF MainLoop, WalksInPlaylistMode, PlaylistMode
  <2>4. WalkBounded'
    BY <1>2, ListKept DEF MainLoop, lists, Inside, WalksInPlaylistMode, PlaylistMode
  <2> QED BY <2>1, <2>2, <2>3, <2>4
<1>3. CASE MainCheck
  <2>1. TypeOK'
    BY <1>3 DEF MainCheck, Leaves, TypeOK, ControlOK, FlagsOK, PlaylistOK, StreamOK,
         Points, flags, lists, supply, resource, net, disk
  <2>2. WindingDown'
    BY <1>3 DEF MainCheck, Leaves, WindingDown, TypeOK, ControlOK
  <2>3. WalksInPlaylistMode'
    BY <1>3 DEF MainCheck, Leaves, WalksInPlaylistMode, PlaylistMode
  <2>4. WalkBounded'
    BY <1>3, ListKept DEF MainCheck, Leaves, lists, Inside, WalksInPlaylistMode, PlaylistMode
  <2> QED BY <2>1, <2>2, <2>3, <2>4
<1>4. CASE Shutdown
  <2>1. TypeOK'
    <3>1. ControlOK'
      BY <1>4 DEF Shutdown, TypeOK, ControlOK, Points, WindingDown
    <3>2. FlagsOK'
      BY <1>4 DEF Shutdown, TypeOK, FlagsOK, flags
    <3>3. PlaylistOK'
      BY <1>4 DEF Shutdown, TypeOK, PlaylistOK, lists, disk
    <3>4. StreamOK'
      BY <1>4 DEF Shutdown, TypeOK, StreamOK, supply, resource, net
    <3> QED BY <3>1, <3>2, <3>3, <3>4 DEF TypeOK
  <2>2. WindingDown'
    BY <1>4 DEF Shutdown, WindingDown, TypeOK, ControlOK
  <2>3. WalksInPlaylistMode'
    BY <1>4 DEF Shutdown, WalksInPlaylistMode, PlaylistMode
  <2>4. WalkBounded'
    BY <1>4 DEF Shutdown, WalkBounded, Inside
  <2> QED BY <2>1, <2>2, <2>3, <2>4
<1> QED
  BY <1>1, <1>2, <1>3, <1>4 DEF MainStep

\* streamPlaylist() preserves the invariant.
LEMMA PlaylistKeepsIInv == IInv /\ PlaylistStep => IInv'
<1> SUFFICES ASSUME IInv, PlaylistStep PROVE IInv'
  OBVIOUS
<1> USE EzstreamAssumption DEF IInv
<1>1. CASE LoadPlaylist
  <2>0. playlist' \in Bounded
    <3>1. FromProgram \in Bounded /\ FromFile(diskList) \in Bounded
      BY FreshBounded DEF TypeOK, PlaylistOK
    <3> QED BY <1>1, <3>1, ArrangedBounded DEF LoadPlaylist
  <2>1. TypeOK'
    <3>1. ControlOK'
      BY <1>1 DEF LoadPlaylist, TypeOK, ControlOK, Points, WindingDown
    <3>2. FlagsOK'
      BY <1>1 DEF LoadPlaylist, TypeOK, FlagsOK, flags
    <3>3. PlaylistOK'
      BY <1>1, <2>0 DEF LoadPlaylist, TypeOK, PlaylistOK, lists, disk, Held, Bounded
    <3>4. StreamOK'
      BY <1>1 DEF LoadPlaylist, TypeOK, StreamOK, supply, resource, net
    <3> QED BY <3>1, <3>2, <3>3, <3>4 DEF TypeOK
  <2>2. WindingDown'
    BY <1>1 DEF LoadPlaylist, WindingDown, TypeOK, ControlOK
  <2>3. WalksInPlaylistMode'
    BY <1>1 DEF LoadPlaylist, WalksInPlaylistMode, PlaylistMode
  <2>4. WalkBounded'
    BY <2>0 DEF WalkBounded, Bounded
  <2> QED BY <2>1, <2>2, <2>3, <2>4
<1>2. CASE LoadFails
  <2>1. TypeOK'
    <3>1. ControlOK'
      BY <1>2 DEF LoadFails, PlaylistReturns, TypeOK, ControlOK, Points
    <3>2. FlagsOK'
      BY <1>2 DEF LoadFails, PlaylistReturns, TypeOK, ControlOK, FlagsOK, flags
    <3>3. PlaylistOK'
      BY <1>2 DEF LoadFails, PlaylistReturns, TypeOK, ControlOK, PlaylistOK, lists, disk
    <3>4. StreamOK'
      BY <1>2 DEF LoadFails, PlaylistReturns, TypeOK, ControlOK, StreamOK, supply, resource, net
    <3> QED BY <3>1, <3>2, <3>3, <3>4 DEF TypeOK
  <2>2. WindingDown'
    BY <1>2 DEF LoadFails, PlaylistReturns, WindingDown, TypeOK, ControlOK
  <2>3. WalksInPlaylistMode'
    BY <1>2 DEF LoadFails, PlaylistReturns, WalksInPlaylistMode, PlaylistMode
  <2>4. WalkBounded'
    BY <1>2, ListKept DEF LoadFails, PlaylistReturns, lists, Inside, WalksInPlaylistMode, PlaylistMode
  <2> QED BY <2>1, <2>2, <2>3, <2>4
<1>3. CASE RewindPlaylist
  <2>0. playlist' \in Bounded
    <3>1. Rewind(playlist) \in Bounded
      BY <1>3, FreshBounded DEF RewindPlaylist, WalkBounded
    <3> QED BY <1>3, <3>1, ArrangedBounded DEF RewindPlaylist
  <2>1. TypeOK'
    <3>1. ControlOK'
      BY <1>3 DEF RewindPlaylist, TypeOK, ControlOK, Points, WindingDown
    <3>2. FlagsOK'
      BY <1>3 DEF RewindPlaylist, TypeOK, FlagsOK, flags
    <3>3. PlaylistOK'
      BY <1>3, <2>0 DEF RewindPlaylist, TypeOK, PlaylistOK, lists, disk, Held, Bounded
    <3>4. StreamOK'
      BY <1>3 DEF RewindPlaylist, TypeOK, StreamOK, supply, resource, net
    <3> QED BY <3>1, <3>2, <3>3, <3>4 DEF TypeOK
  <2>2. WindingDown'
    BY <1>3 DEF RewindPlaylist, WindingDown, TypeOK, ControlOK
  <2>3. WalksInPlaylistMode'
    BY <1>3 DEF RewindPlaylist, WalksInPlaylistMode, PlaylistMode
  <2>4. WalkBounded'
    BY <2>0 DEF WalkBounded, Bounded
  <2> QED BY <2>1, <2>2, <2>3, <2>4
<1>4. CASE NextSong
  <2>0. playlist' \in Bounded
    <3>1. playlist \in Bounded
      BY <1>4 DEF NextSong, WalkBounded, WalksInPlaylistMode, Inside
    <3>2. playlist.program \/ AtEntry(playlist)
      BY <1>4 DEF NextSong, Upcoming
    <3> QED BY <1>4, <3>1, <3>2, GetNextBounded DEF NextSong
  <2>5. lastSong' \in Songs
    <3>1. playlist \in Handles
      BY <1>4 DEF NextSong, WalkBounded, WalksInPlaylistMode, Inside, Bounded, Held
    <3>2. AtEntry(playlist) => Entry(playlist) \in Songs
      BY <3>1 DEF AtEntry, Entry, NumItems, Handles
    <3> QED BY <1>4, <3>2 DEF NextSong, Upcoming
  <2>1. TypeOK'
    <3>1. ControlOK'
      BY <1>4 DEF NextSong, TypeOK, ControlOK, Points, WindingDown
    <3>2. FlagsOK'
      BY <1>4 DEF NextSong, TypeOK, FlagsOK, flags
    <3>3. PlaylistOK'
      BY <1>4, <2>0, <2>5 DEF NextSong, TypeOK, PlaylistOK, lists, disk, Held, Bounded
    <3>4. StreamOK'
      BY <1>4 DEF NextSong, TypeOK, StreamOK, supply, resource, net
    <3> QED BY <3>1, <3>2, <3>3, <3>4 DEF TypeOK
  <2>2. WindingDown'
    BY <1>4 DEF NextSong, WindingDown, TypeOK, ControlOK
  <2>3. WalksInPlaylistMode'
    BY <1>4 DEF NextSong, WalksInPlaylistMode, PlaylistMode
  <2>4. WalkBounded'
    BY <2>0 DEF WalkBounded, Bounded
  <2> QED BY <2>1, <2>2, <2>3, <2>4
<1>5. CASE EndOfList
  <2>0. playlist' \in Held
    <3>1. playlist \in Bounded
      BY <1>5 DEF EndOfList, WalkBounded, WalksInPlaylistMode, Inside
    <3> QED BY <1>5, <3>1, GetNextBounded DEF EndOfList
  <2>1. TypeOK'
    <3>1. ControlOK'
      BY <1>5 DEF EndOfList, PlaylistReturns, Upcoming, TypeOK, ControlOK, Points, WindingDown
    <3>2. FlagsOK'
      BY <1>5 DEF EndOfList, PlaylistReturns, Upcoming, TypeOK, FlagsOK, flags
    <3>3. PlaylistOK'
      BY <1>5, <2>0 DEF EndOfList, PlaylistReturns, Upcoming, TypeOK, PlaylistOK, lists, disk, Held, Bounded
    <3>4. StreamOK'
      BY <1>5 DEF EndOfList, PlaylistReturns, Upcoming, TypeOK, StreamOK, supply, resource, net
    <3> QED BY <3>1, <3>2, <3>3, <3>4 DEF TypeOK
  <2>2. WindingDown'
    BY <1>5 DEF EndOfList, PlaylistReturns, Upcoming, WindingDown, TypeOK, ControlOK
  <2>3. WalksInPlaylistMode'
    BY <1>5 DEF EndOfList, PlaylistReturns, Upcoming, WalksInPlaylistMode, PlaylistMode
  <2>4. WalkBounded'
    BY <1>5, <2>0 DEF EndOfList, PlaylistReturns, WalkBounded, Inside, Held
  <2> QED BY <2>1, <2>2, <2>3, <2>4
<1>6. CASE TrackDone
  <2>1. TypeOK'
    <3>1. ControlOK'
      BY <1>6 DEF TrackDone, PlaylistReturns, RereadDue, TypeOK, ControlOK, Points, WindingDown
    <3>2. FlagsOK'
      BY <1>6 DEF TrackDone, PlaylistReturns, RereadDue, TypeOK, FlagsOK, flags
    <3>3. PlaylistOK'
      BY <1>6 DEF TrackDone, PlaylistReturns, RereadDue, TypeOK, PlaylistOK, lists, disk
    <3>4. StreamOK'
      BY <1>6 DEF TrackDone, PlaylistReturns, RereadDue, TypeOK, StreamOK, supply, resource, net
    <3> QED BY <3>1, <3>2, <3>3, <3>4 DEF TypeOK
  <2>2. WindingDown'
    BY <1>6 DEF TrackDone, PlaylistReturns, RereadDue, WindingDown, TypeOK, ControlOK
  <2>3. WalksInPlaylistMode'
    BY <1>6 DEF TrackDone, PlaylistReturns, RereadDue, WalksInPlaylistMode, PlaylistMode
  <2>4. WalkBounded'
    BY <1>6, ListKept DEF TrackDone, PlaylistReturns, RereadDue, lists, Inside, WalksInPlaylistMode, PlaylistMode
  <2> QED BY <2>1, <2>2, <2>3, <2>4
<1>7. CASE Reread
  <2>0. playlist' \in Bounded
    <3>1. FromFile(diskList) \in Bounded /\ ~FromFile(diskList).program
      BY FreshBounded DEF TypeOK, PlaylistOK, FromFile
    <3>2. Resumed(FromFile(diskList)) \in Bounded
      BY <3>1, ResumedBounded
    <3> QED BY <1>7, <3>1, <3>2, ShuffledBounded DEF Reread
  <2>1. TypeOK'
    <3>1. ControlOK'
      BY <1>7 DEF Reread, TypeOK, ControlOK, Points, WindingDown
    <3>2. FlagsOK'
      BY <1>7 DEF Reread, TypeOK, FlagsOK, flags
    <3>3. PlaylistOK'
      BY <1>7, <2>0 DEF Reread, TypeOK, PlaylistOK, lists, disk, Held, Bounded
    <3>4. StreamOK'
      BY <1>7 DEF Reread, TypeOK, StreamOK, supply, resource, net
    <3> QED BY <3>1, <3>2, <3>3, <3>4 DEF TypeOK
  <2>2. WindingDown'
    BY <1>7 DEF Reread, WindingDown, TypeOK, ControlOK
  <2>3. WalksInPlaylistMode'
    BY <1>7 DEF Reread, WalksInPlaylistMode, PlaylistMode
  <2>4. WalkBounded'
    BY <2>0 DEF WalkBounded, Bounded
  <2> QED BY <2>1, <2>2, <2>3, <2>4
<1>8. CASE RereadFails
  <2>1. TypeOK'
    <3>1. ControlOK'
      BY <1>8 DEF RereadFails, PlaylistReturns, TypeOK, ControlOK, Points, WindingDown
    <3>2. FlagsOK'
      BY <1>8 DEF RereadFails, PlaylistReturns, TypeOK, FlagsOK, flags
    <3>3. PlaylistOK'
      BY <1>8 DEF RereadFails, PlaylistReturns, TypeOK, PlaylistOK, lists, disk
    <3>4. StreamOK'
      BY <1>8 DEF RereadFails, PlaylistReturns, TypeOK, StreamOK, supply, resource, net
    <3> QED BY <3>1, <3>2, <3>3, <3>4 DEF TypeOK
  <2>2. WindingDown'
    BY <1>8 DEF RereadFails, PlaylistReturns, WindingDown, TypeOK, ControlOK
  <2>3. WalksInPlaylistMode'
    BY <1>8 DEF RereadFails, PlaylistReturns, WalksInPlaylistMode, PlaylistMode
  <2>4. WalkBounded'
    BY <1>8, ListKept DEF RereadFails, PlaylistReturns, lists, Inside, WalksInPlaylistMode, PlaylistMode
  <2> QED BY <2>1, <2>2, <2>3, <2>4
<1> QED
  BY <1>1, <1>2, <1>3, <1>4, <1>5, <1>6, <1>7, <1>8 DEF PlaylistStep

\* streamFile() preserves the invariant: its only call that counts is openResource().
LEMMA FileKeepsIInv == IInv /\ FileStep => IInv'
<1> SUFFICES ASSUME IInv, FileStep PROVE IInv'
  OBVIOUS
<1> USE EzstreamAssumption DEF IInv
<1>1. CASE Open
  <2>1. TypeOK'
    <3>1. ControlOK'
      BY <1>1, CounterRanges DEF Open, CallSendStream, TypeOK, ControlOK, Points, WindingDown
    <3>2. FlagsOK'
      BY <1>1 DEF Open, CallSendStream, TypeOK, FlagsOK, flags
    <3>3. PlaylistOK'
      BY <1>1 DEF Open, CallSendStream, TypeOK, PlaylistOK, lists, disk
    <3>4. StreamOK'
      BY <1>1 DEF Open, CallSendStream, TypeOK, StreamOK, supply, resource, net
    <3> QED BY <3>1, <3>2, <3>3, <3>4 DEF TypeOK
  <2>2. WindingDown'
    BY <1>1 DEF Open, CallSendStream, WindingDown, TypeOK, ControlOK
  <2>3. WalksInPlaylistMode'
    BY <1>1 DEF Open, CallSendStream, WalksInPlaylistMode, PlaylistMode
  <2>4. WalkBounded'
    BY <1>1, ListKept DEF Open, CallSendStream, lists, Inside, WalksInPlaylistMode, PlaylistMode
  <2> QED BY <2>1, <2>2, <2>3, <2>4
<1>2. CASE OpenFails
  <2>1. TypeOK'
    <3>1. ControlOK'
      BY <1>2 DEF OpenFails, TooManyErrors, FileReturns, TypeOK, ControlOK, Points, WindingDown
    <3>2. FlagsOK'
      BY <1>2 DEF OpenFails, TooManyErrors, FileReturns, TypeOK, FlagsOK, flags
    <3>3. PlaylistOK'
      BY <1>2 DEF OpenFails, TooManyErrors, FileReturns, TypeOK, PlaylistOK, lists, disk
    <3>4. StreamOK'
      BY <1>2 DEF OpenFails, TooManyErrors, FileReturns, TypeOK, StreamOK, supply, resource, net
    <3> QED BY <3>1, <3>2, <3>3, <3>4 DEF TypeOK
  <2>2. WindingDown'
    BY <1>2 DEF OpenFails, TooManyErrors, FileReturns, WindingDown, TypeOK, ControlOK
  <2>3. WalksInPlaylistMode'
    BY <1>2 DEF OpenFails, TooManyErrors, FileReturns, WalksInPlaylistMode, PlaylistMode
  <2>4. WalkBounded'
    BY <1>2, ListKept DEF OpenFails, TooManyErrors, FileReturns, lists, Inside, WalksInPlaylistMode, PlaylistMode
  <2> QED BY <2>1, <2>2, <2>3, <2>4
<1>3. CASE Returned
  <2>1. TypeOK'
    <3>1. ControlOK'
      BY <1>3 DEF Returned, CloseWith, TypeOK, ControlOK, Points, WindingDown
    <3>2. FlagsOK'
      BY <1>3 DEF Returned, CloseWith, TypeOK, FlagsOK, flags
    <3>3. PlaylistOK'
      BY <1>3 DEF Returned, CloseWith, TypeOK, PlaylistOK, lists, disk
    <3>4. StreamOK'
      BY <1>3 DEF Returned, CloseWith, TypeOK, StreamOK, supply, resource, net
    <3> QED BY <3>1, <3>2, <3>3, <3>4 DEF TypeOK
  <2>2. WindingDown'
    BY <1>3 DEF Returned, CloseWith, WindingDown, TypeOK, ControlOK
  <2>3. WalksInPlaylistMode'
    BY <1>3 DEF Returned, CloseWith, WalksInPlaylistMode, PlaylistMode
  <2>4. WalkBounded'
    BY <1>3, ListKept DEF Returned, CloseWith, lists, Inside, WalksInPlaylistMode, PlaylistMode
  <2> QED BY <2>1, <2>2, <2>3, <2>4
<1>4. CASE DropSkip
  <2>1. TypeOK'
    <3>1. ControlOK'
      BY <1>4 DEF DropSkip, TypeOK, ControlOK, Points, WindingDown
    <3>2. FlagsOK'
      BY <1>4 DEF DropSkip, TypeOK, FlagsOK, flags
    <3>3. PlaylistOK'
      BY <1>4 DEF DropSkip, TypeOK, PlaylistOK, lists, disk
    <3>4. StreamOK'
      BY <1>4 DEF DropSkip, TypeOK, StreamOK, supply, resource, net
    <3> QED BY <3>1, <3>2, <3>3, <3>4 DEF TypeOK
  <2>2. WindingDown'
    BY <1>4 DEF DropSkip, WindingDown, TypeOK, ControlOK
  <2>3. WalksInPlaylistMode'
    BY <1>4 DEF DropSkip, WalksInPlaylistMode, PlaylistMode
  <2>4. WalkBounded'
    BY <1>4, ListKept DEF DropSkip, lists, Inside, WalksInPlaylistMode, PlaylistMode
  <2> QED BY <2>1, <2>2, <2>3, <2>4
<1>5. CASE DropQuery
  <2>1. TypeOK'
    <3>1. ControlOK'
      BY <1>5 DEF DropQuery, TypeOK, ControlOK, Points, WindingDown
    <3>2. FlagsOK'
      BY <1>5 DEF DropQuery, TypeOK, FlagsOK, flags
    <3>3. PlaylistOK'
      BY <1>5 DEF DropQuery, TypeOK, PlaylistOK, lists, disk
    <3>4. StreamOK'
      BY <1>5 DEF DropQuery, TypeOK, StreamOK, supply, resource, net
    <3> QED BY <3>1, <3>2, <3>3, <3>4 DEF TypeOK
  <2>2. WindingDown'
    BY <1>5 DEF DropQuery, WindingDown, TypeOK, ControlOK
  <2>3. WalksInPlaylistMode'
    BY <1>5 DEF DropQuery, WalksInPlaylistMode, PlaylistMode
  <2>4. WalkBounded'
    BY <1>5, ListKept DEF DropQuery, lists, Inside, WalksInPlaylistMode, PlaylistMode
  <2> QED BY <2>1, <2>2, <2>3, <2>4
<1>6. CASE TakeSkip
  <2>1. TypeOK'
    <3>1. ControlOK'
      BY <1>6 DEF TakeSkip, TypeOK, ControlOK, Points, WindingDown
    <3>2. FlagsOK'
      BY <1>6 DEF TakeSkip, TypeOK, FlagsOK, flags
    <3>3. PlaylistOK'
      BY <1>6 DEF TakeSkip, TypeOK, PlaylistOK, lists, disk
    <3>4. StreamOK'
      BY <1>6 DEF TakeSkip, TypeOK, StreamOK, supply, resource, net
    <3> QED BY <3>1, <3>2, <3>3, <3>4 DEF TypeOK
  <2>2. WindingDown'
    BY <1>6 DEF TakeSkip, WindingDown, TypeOK, ControlOK
  <2>3. WalksInPlaylistMode'
    BY <1>6 DEF TakeSkip, WalksInPlaylistMode, PlaylistMode
  <2>4. WalkBounded'
    BY <1>6, ListKept DEF TakeSkip, lists, Inside, WalksInPlaylistMode, PlaylistMode
  <2> QED BY <2>1, <2>2, <2>3, <2>4
<1>7. CASE TakeQuery
  <2>1. TypeOK'
    <3>1. ControlOK'
      BY <1>7 DEF TakeQuery, LoopTest, ServerTest, CloseWith, CallSendStream, TypeOK, ControlOK, Points, WindingDown
    <3>2. FlagsOK'
      BY <1>7 DEF TakeQuery, LoopTest, ServerTest, CloseWith, CallSendStream, TypeOK, FlagsOK, flags
    <3>3. PlaylistOK'
      BY <1>7 DEF TakeQuery, LoopTest, ServerTest, CloseWith, CallSendStream, TypeOK, PlaylistOK, lists, disk
    <3>4. StreamOK'
      BY <1>7 DEF TakeQuery, LoopTest, ServerTest, CloseWith, CallSendStream, TypeOK, StreamOK, supply, resource, net
    <3> QED BY <3>1, <3>2, <3>3, <3>4 DEF TypeOK
  <2>2. WindingDown'
    BY <1>7 DEF TakeQuery, LoopTest, ServerTest, CloseWith, CallSendStream, WindingDown, TypeOK, ControlOK
  <2>3. WalksInPlaylistMode'
    BY <1>7 DEF TakeQuery, LoopTest, ServerTest, CloseWith, CallSendStream, WalksInPlaylistMode, PlaylistMode
  <2>4. WalkBounded'
    BY <1>7, ListKept DEF TakeQuery, LoopTest, ServerTest, CloseWith, CallSendStream, lists, Inside, WalksInPlaylistMode, PlaylistMode
  <2> QED BY <2>1, <2>2, <2>3, <2>4
<1>8. CASE MetadataFails
  <2>1. TypeOK'
    BY <1>8 DEF MetadataFails, CloseWith, TypeOK, ControlOK, FlagsOK, PlaylistOK, StreamOK,
         Points, flags, lists, supply, resource, net, disk
  <2>2. WindingDown'
    BY <1>8 DEF MetadataFails, CloseWith, WindingDown, TypeOK, ControlOK
  <2>3. WalksInPlaylistMode'
    BY <1>8 DEF MetadataFails, CloseWith, WalksInPlaylistMode, PlaylistMode
  <2>4. WalkBounded'
    BY <1>8, ListKept DEF MetadataFails, CloseWith, lists, Inside, WalksInPlaylistMode, PlaylistMode
  <2> QED BY <2>1, <2>2, <2>3, <2>4
<1>9. CASE Close
  <2>1. TypeOK'
    BY <1>9 DEF Close, FileReturns, TypeOK, ControlOK, FlagsOK, PlaylistOK, StreamOK,
         Points, flags, lists, supply, resource, net, disk
  <2>2. WindingDown'
    BY <1>9 DEF Close, FileReturns, WindingDown, TypeOK, ControlOK
  <2>3. WalksInPlaylistMode'
    BY <1>9 DEF Close, FileReturns, WalksInPlaylistMode, PlaylistMode
  <2>4. WalkBounded'
    BY <1>9, ListKept DEF Close, FileReturns, lists, Inside, WalksInPlaylistMode, PlaylistMode
  <2> QED BY <2>1, <2>2, <2>3, <2>4
<1> QED
  BY <1>1, <1>2, <1>3, <1>4, <1>5, <1>6, <1>7, <1>8, <1>9 DEF FileStep

\* sendStream() preserves the invariant.
LEMMA SendKeepsIInv == IInv /\ SendStep => IInv'
<1> SUFFICES ASSUME IInv, SendStep PROVE IInv'
  OBVIOUS
<1> USE EzstreamAssumption DEF IInv
<1>1. CASE ReadBlock
  <2>1. TypeOK'
    BY <1>1 DEF ReadBlock, TypeOK, ControlOK, FlagsOK, PlaylistOK, StreamOK,
         Points, flags, lists, supply, resource, net, disk
  <2>2. WindingDown'
    BY <1>1 DEF ReadBlock, WindingDown, TypeOK, ControlOK
  <2>3. WalksInPlaylistMode'
    BY <1>1 DEF ReadBlock, WalksInPlaylistMode, PlaylistMode
  <2>4. WalkBounded'
    BY <1>1, ListKept DEF ReadBlock, lists, Inside, WalksInPlaylistMode, PlaylistMode
  <2> QED BY <2>1, <2>2, <2>3, <2>4
<1>2. CASE ReadEnds
  <2>1. TypeOK'
    <3>1. ControlOK'
      BY <1>2 DEF ReadEnds, SendReturns, TypeOK, ControlOK, Points
    <3>2. FlagsOK'
      BY <1>2 DEF ReadEnds, SendReturns, TypeOK, ControlOK, FlagsOK, flags
    <3>3. PlaylistOK'
      BY <1>2 DEF ReadEnds, SendReturns, TypeOK, ControlOK, PlaylistOK, lists, disk
    <3>4. StreamOK'
      BY <1>2 DEF ReadEnds, SendReturns, TypeOK, ControlOK, StreamOK, supply, resource, net
    <3> QED BY <3>1, <3>2, <3>3, <3>4 DEF TypeOK
  <2>2. WindingDown'
    BY <1>2 DEF ReadEnds, SendReturns, WindingDown, TypeOK, ControlOK
  <2>3. WalksInPlaylistMode'
    BY <1>2 DEF ReadEnds, SendReturns, WalksInPlaylistMode, PlaylistMode
  <2>4. WalkBounded'
    BY <1>2, ListKept DEF ReadEnds, SendReturns, lists, Inside, WalksInPlaylistMode, PlaylistMode
  <2> QED BY <2>1, <2>2, <2>3, <2>4
<1>3. CASE ReadInterrupted
  <2>1. TypeOK'
    BY <1>3 DEF ReadInterrupted, TypeOK, ControlOK, FlagsOK, PlaylistOK, StreamOK,
         Points, flags, lists, supply, resource, net, disk
  <2>2. WindingDown'
    BY <1>3 DEF ReadInterrupted, WindingDown, TypeOK, ControlOK
  <2>3. WalksInPlaylistMode'
    BY <1>3 DEF ReadInterrupted, WalksInPlaylistMode, PlaylistMode
  <2>4. WalkBounded'
    BY <1>3, ListKept DEF ReadInterrupted, lists, Inside, WalksInPlaylistMode, PlaylistMode
  <2> QED BY <2>1, <2>2, <2>3, <2>4
<1>4. CASE CheckConnection
  <2>1. TypeOK'
    BY <1>4 DEF CheckConnection, TypeOK, ControlOK, FlagsOK, PlaylistOK, StreamOK,
         Points, flags, lists, supply, resource, net, disk
  <2>2. WindingDown'
    BY <1>4 DEF CheckConnection, WindingDown, TypeOK, ControlOK
  <2>3. WalksInPlaylistMode'
    BY <1>4 DEF CheckConnection, WalksInPlaylistMode, PlaylistMode
  <2>4. WalkBounded'
    BY <1>4, ListKept DEF CheckConnection, lists, Inside, WalksInPlaylistMode, PlaylistMode
  <2> QED BY <2>1, <2>2, <2>3, <2>4
<1>5. CASE Send
  <2>1. TypeOK'
    BY <1>5 DEF Send, TypeOK, ControlOK, FlagsOK, PlaylistOK, StreamOK,
         Points, flags, lists, supply, resource, net, disk
  <2>2. WindingDown'
    BY <1>5 DEF Send, WindingDown, TypeOK, ControlOK
  <2>3. WalksInPlaylistMode'
    BY <1>5 DEF Send, WalksInPlaylistMode, PlaylistMode
  <2>4. WalkBounded'
    BY <1>5, ListKept DEF Send, lists, Inside, WalksInPlaylistMode, PlaylistMode
  <2> QED BY <2>1, <2>2, <2>3, <2>4
<1>6. CASE SendFails
  <2>1. TypeOK'
    <3>1. ControlOK'
      BY <1>6 DEF SendFails, TypeOK, ControlOK, Points, WindingDown
    <3>2. FlagsOK'
      BY <1>6 DEF SendFails, TypeOK, FlagsOK, flags
    <3>3. PlaylistOK'
      BY <1>6 DEF SendFails, TypeOK, PlaylistOK, lists, disk
    <3>4. StreamOK'
      BY <1>6, CounterRanges DEF SendFails, TypeOK, StreamOK, supply, resource, net
    <3> QED BY <3>1, <3>2, <3>3, <3>4 DEF TypeOK
  <2>2. WindingDown'
    BY <1>6 DEF SendFails, WindingDown, TypeOK, ControlOK
  <2>3. WalksInPlaylistMode'
    BY <1>6 DEF SendFails, WalksInPlaylistMode, PlaylistMode
  <2>4. WalkBounded'
    BY <1>6, ListKept DEF SendFails, lists, Inside, WalksInPlaylistMode, PlaylistMode
  <2> QED BY <2>1, <2>2, <2>3, <2>4
<1>7. CASE PollQuit
  <2>1. TypeOK'
    BY <1>7 DEF PollQuit, SendReturns, TypeOK, ControlOK, FlagsOK, PlaylistOK, StreamOK,
         Points, flags, lists, supply, resource, net, disk
  <2>2. WindingDown'
    BY <1>7 DEF PollQuit, SendReturns, WindingDown, TypeOK, ControlOK
  <2>3. WalksInPlaylistMode'
    BY <1>7 DEF PollQuit, SendReturns, WalksInPlaylistMode, PlaylistMode
  <2>4. WalkBounded'
    BY <1>7, ListKept DEF PollQuit, SendReturns, lists, Inside, WalksInPlaylistMode, PlaylistMode
  <2> QED BY <2>1, <2>2, <2>3, <2>4
<1>8. CASE PollSkip
  <2>1. TypeOK'
    BY <1>8 DEF PollSkip, SendReturns, TypeOK, ControlOK, FlagsOK, PlaylistOK, StreamOK,
         Points, flags, lists, supply, resource, net, disk
  <2>2. WindingDown'
    BY <1>8 DEF PollSkip, SendReturns, WindingDown, TypeOK, ControlOK
  <2>3. WalksInPlaylistMode'
    BY <1>8 DEF PollSkip, SendReturns, WalksInPlaylistMode, PlaylistMode
  <2>4. WalkBounded'
    BY <1>8, ListKept DEF PollSkip, SendReturns, lists, Inside, WalksInPlaylistMode, PlaylistMode
  <2> QED BY <2>1, <2>2, <2>3, <2>4
<1>9. CASE PollQuery
  <2>1. TypeOK'
    <3>1. ControlOK'
      BY <1>9 DEF PollQuery, SendReturns, TypeOK, ControlOK, Points
    <3>2. FlagsOK'
      BY <1>9 DEF PollQuery, SendReturns, TypeOK, ControlOK, FlagsOK, flags
    <3>3. PlaylistOK'
      BY <1>9 DEF PollQuery, SendReturns, TypeOK, ControlOK, PlaylistOK, lists, disk
    <3>4. StreamOK'
      BY <1>9 DEF PollQuery, SendReturns, TypeOK, ControlOK, StreamOK, supply, resource, net
    <3> QED BY <3>1, <3>2, <3>3, <3>4 DEF TypeOK
  <2>2. WindingDown'
    BY <1>9 DEF PollQuery, SendReturns, WindingDown, TypeOK, ControlOK
  <2>3. WalksInPlaylistMode'
    BY <1>9 DEF PollQuery, SendReturns, WalksInPlaylistMode, PlaylistMode
  <2>4. WalkBounded'
    BY <1>9, ListKept DEF PollQuery, SendReturns, lists, Inside, WalksInPlaylistMode, PlaylistMode
  <2> QED BY <2>1, <2>2, <2>3, <2>4
<1>10. CASE PollNothing
  <2>1. TypeOK'
    BY <1>10 DEF PollNothing, TypeOK, ControlOK, FlagsOK, PlaylistOK, StreamOK,
         Points, flags, lists, supply, resource, net, disk
  <2>2. WindingDown'
    BY <1>10 DEF PollNothing, WindingDown, TypeOK, ControlOK
  <2>3. WalksInPlaylistMode'
    BY <1>10 DEF PollNothing, WalksInPlaylistMode, PlaylistMode
  <2>4. WalkBounded'
    BY <1>10, ListKept DEF PollNothing, lists, Inside, WalksInPlaylistMode, PlaylistMode
  <2> QED BY <2>1, <2>2, <2>3, <2>4
<1>11. CASE ReadFails
  <2>1. TypeOK'
    BY <1>11 DEF ReadFails, TypeOK, ControlOK, FlagsOK, PlaylistOK, StreamOK,
         Points, flags, lists, supply, resource, net, disk
  <2>2. WindingDown'
    BY <1>11 DEF ReadFails, WindingDown, TypeOK, ControlOK
  <2>3. WalksInPlaylistMode'
    BY <1>11 DEF ReadFails, WalksInPlaylistMode, PlaylistMode
  <2>4. WalkBounded'
    BY <1>11, ListKept DEF ReadFails, lists, Inside, WalksInPlaylistMode, PlaylistMode
  <2> QED BY <2>1, <2>2, <2>3, <2>4
<1> QED
  BY <1>1, <1>2, <1>3, <1>4, <1>5, <1>6, <1>7, <1>8, <1>9, <1>10, <1>11 DEF SendStep

\* reconnect() preserves the invariant; its counter stays an unsigned int.
LEMMA ReconnectKeepsIInv == IInv /\ ReconnectStep => IInv'
<1> SUFFICES ASSUME IInv, ReconnectStep PROVE IInv'
  OBVIOUS
<1> USE EzstreamAssumption DEF IInv
<1>1. CASE TryConnects
  <2>1. TypeOK'
    BY <1>1 DEF TryConnects, Reconnecting, NextTry, SendReturns, TypeOK, ControlOK, FlagsOK, PlaylistOK, StreamOK,
         Points, flags, lists, supply, resource, net, disk
  <2>2. WindingDown'
    BY <1>1 DEF TryConnects, Reconnecting, NextTry, SendReturns, WindingDown, TypeOK, ControlOK
  <2>3. WalksInPlaylistMode'
    BY <1>1 DEF TryConnects, Reconnecting, NextTry, SendReturns, WalksInPlaylistMode, PlaylistMode
  <2>4. WalkBounded'
    BY <1>1, ListKept DEF TryConnects, Reconnecting, NextTry, SendReturns, lists, Inside, WalksInPlaylistMode, PlaylistMode
  <2> QED BY <2>1, <2>2, <2>3, <2>4
<1>2. CASE TryFails
  <2>0. NextTry \in 0..(UIntRange - 1)
    BY CounterRanges DEF NextTry, TypeOK, StreamOK
  <2>1. TypeOK'
    <3>1. ControlOK'
      BY <1>2 DEF TryFails, Reconnecting, NextTry, SendReturns, TypeOK, ControlOK, Points, WindingDown
    <3>2. FlagsOK'
      BY <1>2 DEF TryFails, Reconnecting, NextTry, SendReturns, TypeOK, FlagsOK, flags
    <3>3. PlaylistOK'
      BY <1>2 DEF TryFails, Reconnecting, NextTry, SendReturns, TypeOK, PlaylistOK, lists, disk
    <3>4. StreamOK'
      BY <1>2, <2>0 DEF TryFails, Reconnecting, SendReturns, TypeOK, StreamOK, supply, resource, net
    <3> QED BY <3>1, <3>2, <3>3, <3>4 DEF TypeOK
  <2>2. WindingDown'
    BY <1>2 DEF TryFails, Reconnecting, NextTry, SendReturns, WindingDown, TypeOK, ControlOK
  <2>3. WalksInPlaylistMode'
    BY <1>2 DEF TryFails, Reconnecting, NextTry, SendReturns, WalksInPlaylistMode, PlaylistMode
  <2>4. WalkBounded'
    BY <1>2, ListKept DEF TryFails, Reconnecting, NextTry, SendReturns, lists, Inside, WalksInPlaylistMode, PlaylistMode
  <2> QED BY <2>1, <2>2, <2>3, <2>4
<1>3. CASE TriesWrap
  <2>1. TypeOK'
    BY <1>3 DEF TriesWrap, Reconnecting, SendReturns, TypeOK, ControlOK, FlagsOK, PlaylistOK, StreamOK,
         Points, flags, lists, supply, resource, net, disk
  <2>2. WindingDown'
    BY <1>3 DEF TriesWrap, Reconnecting, SendReturns, WindingDown, TypeOK, ControlOK
  <2>3. WalksInPlaylistMode'
    BY <1>3 DEF TriesWrap, Reconnecting, SendReturns, WalksInPlaylistMode, PlaylistMode
  <2>4. WalkBounded'
    BY <1>3, ListKept DEF TriesWrap, Reconnecting, SendReturns, lists, Inside, WalksInPlaylistMode, PlaylistMode
  <2> QED BY <2>1, <2>2, <2>3, <2>4
<1> QED
  BY <1>1, <1>2, <1>3 DEF ReconnectStep

\* A signal or an edit of the playlist file preserves the invariant at any point.
LEMMA EnvironmentKeepsIInv == IInv /\ Environment => IInv'
<1> SUFFICES ASSUME IInv, Environment PROVE IInv'
  OBVIOUS
<1> USE EzstreamAssumption DEF IInv
<1>1. CASE SigTerm
  <2>1. TypeOK'
    BY <1>1 DEF SigTerm, Signal, TypeOK, ControlOK, FlagsOK, PlaylistOK, StreamOK,
         Points, flags, lists, supply, resource, net, disk
  <2>2. WindingDown'
    BY <1>1 DEF SigTerm, Signal, WindingDown, TypeOK, ControlOK
  <2>3. WalksInPlaylistMode'
    BY <1>1 DEF SigTerm, Signal, WalksInPlaylistMode, PlaylistMode
  <2>4. WalkBounded'
    BY <1>1, ListKept DEF SigTerm, Signal, lists, Inside, WalksInPlaylistMode, PlaylistMode
  <2> QED BY <2>1, <2>2, <2>3, <2>4
<1>2. CASE SigHup
  <2>1. TypeOK'
    BY <1>2 DEF SigHup, Signal, TypeOK, ControlOK, FlagsOK, PlaylistOK, StreamOK,
         Points, flags, lists, supply, resource, net, disk
  <2>2. WindingDown'
    BY <1>2 DEF SigHup, Signal, WindingDown, TypeOK, ControlOK
  <2>3. WalksInPlaylistMode'
    BY <1>2 DEF SigHup, Signal, WalksInPlaylistMode, PlaylistMode
  <2>4. WalkBounded'
    BY <1>2, ListKept DEF SigHup, Signal, lists, Inside, WalksInPlaylistMode, PlaylistMode
  <2> QED BY <2>1, <2>2, <2>3, <2>4
<1>3. CASE SigUsr1
  <2>1. TypeOK'
    BY <1>3 DEF SigUsr1, Signal, TypeOK, ControlOK, FlagsOK, PlaylistOK, StreamOK,
         Points, flags, lists, supply, resource, net, disk
  <2>2. WindingDown'
    BY <1>3 DEF SigUsr1, Signal, WindingDown, TypeOK, ControlOK
  <2>3. WalksInPlaylistMode'
    BY <1>3 DEF SigUsr1, Signal, WalksInPlaylistMode, PlaylistMode
  <2>4. WalkBounded'
    BY <1>3, ListKept DEF SigUsr1, Signal, lists, Inside, WalksInPlaylistMode, PlaylistMode
  <2> QED BY <2>1, <2>2, <2>3, <2>4
<1>4. CASE SigUsr2
  <2>1. TypeOK'
    BY <1>4 DEF SigUsr2, Signal, TypeOK, ControlOK, FlagsOK, PlaylistOK, StreamOK,
         Points, flags, lists, supply, resource, net, disk
  <2>2. WindingDown'
    BY <1>4 DEF SigUsr2, Signal, WindingDown, TypeOK, ControlOK
  <2>3. WalksInPlaylistMode'
    BY <1>4 DEF SigUsr2, Signal, WalksInPlaylistMode, PlaylistMode
  <2>4. WalkBounded'
    BY <1>4, ListKept DEF SigUsr2, Signal, lists, Inside, WalksInPlaylistMode, PlaylistMode
  <2> QED BY <2>1, <2>2, <2>3, <2>4
<1>5. CASE EditPlaylist
  <2>1. TypeOK'
    BY <1>5 DEF EditPlaylist, TypeOK, ControlOK, FlagsOK, PlaylistOK, StreamOK,
         Points, flags, lists, supply, resource, net, disk
  <2>2. WindingDown'
    BY <1>5 DEF EditPlaylist, WindingDown, TypeOK, ControlOK
  <2>3. WalksInPlaylistMode'
    BY <1>5 DEF EditPlaylist, WalksInPlaylistMode, PlaylistMode
  <2>4. WalkBounded'
    BY <1>5, ListKept DEF EditPlaylist, lists, Inside, WalksInPlaylistMode, PlaylistMode
  <2> QED BY <2>1, <2>2, <2>3, <2>4
<1> QED
  BY <1>1, <1>2, <1>3, <1>4, <1>5 DEF Environment

\* The invariant holds at first: resource_errors is 0 and no playlist is loaded.
LEMMA InitIInv == Init => IInv
<1> SUFFICES ASSUME Init PROVE IInv
  OBVIOUS
<1>1. MaxErrors \in Nat /\ MaxBlocks \in Nat /\ MaxEdits \in Nat /\ UIntRange \in Nat \ {0}
  BY EzstreamAssumption
<1>2. ControlOK
  BY CounterRanges DEF Init, ControlOK, Points
<1>3. FlagsOK
  BY DEF Init, FlagsOK
<1>4. PlaylistOK
  BY <1>1 DEF Init, PlaylistOK
<1>5. StreamOK
  <2>1. 0 \in 0..MaxBlocks
    BY <1>1
  <2> QED BY <2>1, CounterRanges DEF Init, StreamOK
<1>6. WindingDown
  BY <1>1 DEF Init, WindingDown
<1>7. WalksInPlaylistMode /\ WalkBounded
  BY DEF Init, WalksInPlaylistMode, WalkBounded, Inside
<1> QED BY <1>2, <1>3, <1>4, <1>5, <1>6, <1>7 DEF IInv, TypeOK

\* A step that changes nothing preserves the invariant.
LEMMA StutterKeepsIInv == IInv /\ UNCHANGED vars => IInv'
<1> SUFFICES ASSUME IInv, UNCHANGED vars PROVE IInv'
  OBVIOUS
<1> USE DEF vars, flags, lists, supply, resource, net, disk
<1>1. ControlOK'
  BY DEF IInv, TypeOK, ControlOK
<1>2. FlagsOK'
  BY DEF IInv, TypeOK, FlagsOK
<1>3. PlaylistOK'
  BY DEF IInv, TypeOK, PlaylistOK
<1>4. StreamOK'
  BY DEF IInv, TypeOK, StreamOK
<1>5. WindingDown' /\ WalksInPlaylistMode'
  BY DEF IInv, WindingDown, WalksInPlaylistMode, PlaylistMode
<1>6. WalkBounded'
  BY ListKept DEF IInv
<1> QED BY <1>1, <1>2, <1>3, <1>4, <1>5, <1>6 DEF IInv, TypeOK

\* The invariant is inductive: it holds in every reachable state.
THEOREM Invariance == Spec => []IInv
<1>1. IInv /\ [Next]_vars => IInv'
  BY MainKeepsIInv, PlaylistKeepsIInv, FileKeepsIInv, SendKeepsIInv, ReconnectKeepsIInv,
     EnvironmentKeepsIInv, StutterKeepsIInv
     DEF Next, Step, Gone
<1> QED BY InitIInv, <1>1, PTL DEF Spec

\* Every variable keeps its type: resource_errors stops at MaxErrors + 1, and the
\* counter of reconnect() stays an unsigned int.
THEOREM TypeCorrect == Spec => []TypeOK
<1>1. IInv => TypeOK
  BY DEF IInv
<1> QED BY Invariance, <1>1, PTL

\* playlist_get_next() is never called with an index behind the NULL that ends the
\* list, over any sequence of walks, wraps, shuffles, edits and rereads.
THEOREM CursorStaysInBounds == Spec => []CursorInBounds
<1>1. IInv => CursorInBounds
  BY DEF IInv, CursorInBounds, WalkBounded, WalksInPlaylistMode, Inside, Bounded
<1> QED BY Invariance, <1>1, PTL

\* After the failure that is one too many, no resource is tried again, whatever
\* signals arrive and whatever the playlist still holds.
THEOREM GivingUpIsFinal == Spec => []GiveUpIsFinal
<1>1. IInv => GiveUpIsFinal
  BY DEF IInv, GiveUpIsFinal, WindingDown
<1> QED BY Invariance, <1>1, PTL

--------------------------------------------------------------------------------
(* What the order rests on. *)

Streaming ==
  {"returned", "drop_skip", "drop_query", "take_skip", "take_query", "close",
   "fread", "check", "send", "poll", "reconnect", "recover"}

Playing == {"open"} \cup Streaming

\* A handle is there in playlist mode only, and a program's if the intake is one;
\* no program is reread.
Kinds ==
  /\ playlist # NoPlaylist => /\ PlaylistMode
                              /\ playlist.program <=> cfg.intake = "program"
  /\ pc = "reread" => ~playlist.program

\* streamPlaylist() returned without a failure only after the last entry, so a list
\* that is rewound was walked to its end.
Walked ==
  /\ playlist # NoPlaylist
  /\ pc \in {"connect", "main", "load"} \/ (pc = "main_check" /\ retval /\ ~quit)
  => ~AtEntry(playlist)

\* The song of the track is the entry before the index.
AtSong ==
  /\ pc \in Playing \cup {"track_done", "reread"}
  /\ playlist # NoPlaylist /\ ~playlist.program
  => /\ playlist.index \in 1..NumItems(playlist)
     /\ lastSong = playlist.list[playlist.index]

\* Something is open from openResource() to the fclose() or pclose() of streamFile().
OpenWhileStreaming == filep # "none" <=> pc \in Streaming

OrderInv == IInv /\ Kinds /\ Walked /\ AtSong /\ OpenWhileStreaming

\* What the handle is where streamPlaylist() has one.
LEMMA HandleParts ==
  ASSUME IInv
  PROVE  /\ playlist # NoPlaylist =>
              /\ playlist \in Held /\ playlist.program \in BOOLEAN
              /\ playlist.list \in Seq(Songs) /\ playlist.list # NoPlaylist
              /\ playlist.index \in Nat /\ NumItems(playlist) \in Nat
              /\ NumItems(playlist) = Len(playlist.list)
              /\ playlist.program => playlist.list = << >> /\ NumItems(playlist) = 0
         /\ pc \in Inside /\ PlaylistMode =>
              playlist # NoPlaylist /\ playlist.index <= NumItems(playlist)
<1>1. ASSUME playlist # NoPlaylist
      PROVE  /\ playlist \in Held /\ playlist.program \in BOOLEAN
             /\ playlist.list \in Seq(Songs) /\ playlist.list # NoPlaylist
             /\ playlist.index \in Nat /\ NumItems(playlist) \in Nat
             /\ NumItems(playlist) = Len(playlist.list)
             /\ playlist.program => playlist.list = << >> /\ NumItems(playlist) = 0
  <2>1. playlist \in Held
    BY <1>1 DEF IInv, WalkBounded
  <2>2. playlist \in Handles /\ (playlist.program => playlist.list = << >>)
    BY <2>1 DEF Held
  <2> QED
    BY <2>1, <2>2, EzstreamAssumption DEF Handles, NumItems
<1>2. pc \in Inside /\ PlaylistMode => playlist \in Bounded
  BY DEF IInv, WalkBounded
<1>3. NoPlaylist \notin Bounded
  BY EzstreamAssumption DEF Bounded, Held, Handles
<1> QED
  BY <1>1, <1>2, <1>3 DEF Bounded

\* Most steps leave the list, the song and what is open alone: they stay inside a track, or leave
\* the program where it is.
Inner ==
  /\ UNCHANGED <<cfg, playlist, lastSong, filep>>
  /\ \/ pc' = pc /\ UNCHANGED retval /\ (quit => quit')
     \/ pc \in Streaming /\ pc' \in Streaming

\* sendStream() and reconnect() stay inside a track.
LEMMA SendIsInner == SendStep \/ ReconnectStep => Inner
<1> SUFFICES ASSUME SendStep \/ ReconnectStep PROVE Inner
  OBVIOUS
<1> USE DEF Inner, Streaming, lists, flags, supply, resource
<1>1. CASE ReadBlock \/ ReadEnds \/ ReadFails \/ ReadInterrupted
  BY <1>1 DEF ReadBlock, ReadEnds, ReadFails, ReadInterrupted, SendReturns
<1>2. CASE CheckConnection \/ Send \/ SendFails
  BY <1>2 DEF CheckConnection, Send, SendFails
<1>3. CASE PollQuit \/ PollSkip \/ PollQuery \/ PollNothing
  BY <1>3 DEF PollQuit, PollSkip, PollQuery, PollNothing, SendReturns
<1>4. CASE ReconnectStep
  BY <1>4 DEF ReconnectStep, Reconnecting, TryConnects, TryFails, TriesWrap, SendReturns
<1> QED
  BY <1>1, <1>2, <1>3, <1>4 DEF SendStep

\* streamFile() too, from the opening until it returns.
LEMMA FileIsInner == FileStep => Inner \/ Open \/ OpenFails \/ Close
<1> SUFFICES ASSUME FileStep, ~Open, ~OpenFails, ~Close PROVE Inner
  OBVIOUS
<1> USE DEF Inner, Streaming, lists, flags, supply, resource, CloseWith
<1>2. CASE Returned \/ DropSkip \/ DropQuery \/ TakeSkip
  BY <1>2 DEF Returned, DropSkip, DropQuery, TakeSkip
<1>3. CASE TakeQuery \/ MetadataFails
  BY <1>3 DEF TakeQuery, MetadataFails, LoopTest, ServerTest, CallSendStream
<1> QED
  BY <1>2, <1>3 DEF FileStep

\* A signal or an edit of the file moves nothing, and no flag is reset by one.
LEMMA WorldIsInner == TypeOK /\ (Environment \/ Gone \/ UNCHANGED vars) => Inner
<1> SUFFICES ASSUME TypeOK, Environment \/ Gone \/ UNCHANGED vars PROVE Inner
  OBVIOUS
<1> USE DEF Inner, lists, flags, supply, resource
<1>1. CASE Environment
  BY <1>1 DEF Environment, SigTerm, SigHup, SigUsr1, SigUsr2, EditPlaylist
<1>2. CASE Gone \/ UNCHANGED vars
  BY <1>2 DEF Gone, vars
<1> QED
  BY <1>1, <1>2

--------------------------------------------------------------------------------
(* The invariant. *)

\* Such a step keeps the invariant.
LEMMA InnerKeepsOrder == OrderInv /\ Inner => Kinds' /\ Walked' /\ AtSong'
<1> SUFFICES ASSUME OrderInv, Inner PROVE Kinds' /\ Walked' /\ AtSong'
  OBVIOUS
<1> USE DEF OrderInv, Inner
<1>1. UNCHANGED <<AtEntry(playlist), NumItems(playlist), PlaylistMode>>
  BY DEF AtEntry, NumItems, PlaylistMode
<1>2. Kinds'
  BY <1>1 DEF Kinds, Streaming
<1>3. Walked'
  BY <1>1 DEF Walked, Streaming
<1>4. AtSong'
  BY <1>1 DEF AtSong, Playing, Streaming
<1> QED
  BY <1>2, <1>3, <1>4

\* main(): a list is walked again only if the walk before ended at its end.
LEMMA MainKeepsOrder == OrderInv /\ MainStep => Kinds' /\ Walked' /\ AtSong'
<1> SUFFICES ASSUME OrderInv, MainStep PROVE Kinds' /\ Walked' /\ AtSong'
  OBVIOUS
<1> USE DEF OrderInv, Kinds, Walked, AtSong, lists, flags, PlaylistMode, Playing, Streaming
<1>1. CASE Connect
  BY <1>1 DEF Connect
<1>2. CASE MainLoop
  BY <1>2 DEF MainLoop
<1>3. CASE MainCheck
  BY <1>3 DEF MainCheck, Leaves
<1>4. CASE Shutdown
  BY <1>4 DEF Shutdown
<1> QED
  BY <1>1, <1>2, <1>3, <1>4 DEF MainStep

\* streamFile(): where it returns to, the playlist is what it was.
LEMMA TrackEndKeepsOrder == OrderInv /\ (OpenFails \/ Close) => Kinds' /\ Walked' /\ AtSong'
<1> SUFFICES ASSUME OrderInv, OpenFails \/ Close PROVE Kinds' /\ Walked' /\ AtSong'
  OBVIOUS
<1>1. /\ UNCHANGED <<cfg, playlist, lastSong, quit>>
      /\ pc' = IF PlaylistMode THEN "track_done" ELSE "main_check"
      /\ pc \in Playing
  BY DEF OpenFails, Close, FileReturns, lists, flags, Playing, Streaming
<1>2. UNCHANGED <<AtEntry(playlist), NumItems(playlist), PlaylistMode>>
  BY <1>1 DEF AtEntry, NumItems, PlaylistMode
<1> QED
  BY <1>1, <1>2 DEF OrderInv, Kinds, Walked, AtSong, Playing, Streaming

\* openResource(): a track begins with what NextSong left.
LEMMA OpenKeepsOrder == OrderInv /\ Open => Kinds' /\ Walked' /\ AtSong'
<1> SUFFICES ASSUME OrderInv, Open PROVE Kinds' /\ Walked' /\ AtSong'
  OBVIOUS
<1>1. UNCHANGED <<cfg, playlist, lastSong>> /\ pc = "open" /\ pc' = "fread"
  BY DEF Open, CallSendStream, lists
<1>2. UNCHANGED <<AtEntry(playlist), NumItems(playlist), PlaylistMode>>
  BY <1>1 DEF AtEntry, NumItems, PlaylistMode
<1> QED
  BY <1>1, <1>2 DEF OrderInv, Kinds, Walked, AtSong, Playing, Streaming

\* main() and streamPlaylist() hold nothing open and open nothing.
LEMMA OutsideIsClosed ==
  OrderInv /\ (MainStep \/ PlaylistStep) =>
    filep = "none" /\ UNCHANGED filep /\ OpenWhileStreaming'
<1> SUFFICES ASSUME OrderInv, MainStep \/ PlaylistStep
             PROVE  filep = "none" /\ UNCHANGED filep /\ OpenWhileStreaming'
  OBVIOUS
<1> USE DEF OrderInv, OpenWhileStreaming, Streaming, supply, resource
<1>1. CASE MainStep
  BY <1>1 DEF MainStep, Connect, MainLoop, MainCheck, Shutdown
<1>2. CASE LoadPlaylist \/ LoadFails \/ RewindPlaylist \/ NextSong
  BY <1>2 DEF LoadPlaylist, LoadFails, RewindPlaylist, NextSong, PlaylistReturns
<1>3. CASE EndOfList \/ TrackDone \/ Reread \/ RereadFails
  BY <1>3 DEF EndOfList, TrackDone, Reread, RereadFails, PlaylistReturns
<1> QED
  BY <1>1, <1>2, <1>3 DEF PlaylistStep

\* streamFile() opens one thing, keeps it and lets go of it.
LEMMA TrackKeepsOpen ==
  OrderInv /\ (Inner \/ Open \/ OpenFails \/ Close) => OpenWhileStreaming'
<1> SUFFICES ASSUME OrderInv, Inner \/ Open \/ OpenFails \/ Close PROVE OpenWhileStreaming'
  OBVIOUS
<1> USE DEF OrderInv, OpenWhileStreaming, Streaming
<1>1. CASE Inner
  BY <1>1 DEF Inner
<1>2. CASE Open
  BY <1>2 DEF Open, CallSendStream
<1>3. CASE OpenFails \/ Close
  BY <1>3 DEF OpenFails, Close, FileReturns, supply, resource
<1> QED
  BY <1>1, <1>2, <1>3

\* A fresh handle, shuffled or not, is of its kind.
LEMMA ShuffledKind ==
  ASSUME NEW p \in Bounded, NEW q \in Shuffled(p)
  PROVE  q.program = p.program /\ q.index = p.index /\ q.list \in Permuted(p.list)
<1>1. PICK l \in Permuted(p.list) : q = [p EXCEPT !.list = l]
  BY DEF Shuffled
<1> QED
  BY <1>1 DEF Bounded, Held, Handles

\* So is one that is shuffled only when the configuration asks for it.
LEMMA ArrangedKind ==
  ASSUME NEW p \in Bounded, NEW q \in Arranged(p)
  PROVE  /\ q \in Bounded /\ q.program = p.program /\ q.index = p.index
         /\ IF cfg.shuffle /\ ~p.program THEN q.list \in Permuted(p.list) ELSE q = p
BY ShuffledKind, ArrangedBounded DEF Arranged

\* Where the last song is in the reread list, playing goes on behind it, and else
\* at the start or behind the first entry.
LEMMA ResumedPlace ==
  ASSUME NEW l \in Lists
  PROVE  /\ Resumed(FromFile(l)).program = FALSE /\ Resumed(FromFile(l)).list = l
         /\ Resumed(FromFile(l)).index \in 0..Len(l)
         /\ (\E k \in DOMAIN l : l[k] = lastSong)
              => Resumed(FromFile(l)).index = FirstPlace(l, lastSong)
         /\ Resumed(FromFile(l)).index \in {0, 1} \/ \E k \in DOMAIN l : l[k] = lastSong
<1>1. l \in Seq(Songs) /\ Len(l) \in Nat /\ DOMAIN l = 1..Len(l)
  BY EzstreamAssumption
<1>2. CASE \E k \in DOMAIN l : l[k] = lastSong
  <2>1. FirstPlace(l, lastSong) \in 1..Len(l)
    BY <1>1, <1>2, FirstPlaceInList
  <2>2. GotoEntry(FromFile(l), lastSong)
          = [program |-> FALSE, list |-> l, index |-> FirstPlace(l, lastSong) - 1]
    BY <1>2 DEF GotoEntry, FromFile
  <2> QED
    BY <1>1, <1>2, <2>1, <2>2 DEF Resumed, SkipNext, AtEntry, NumItems
<1>3. CASE ~(\E k \in DOMAIN l : l[k] = lastSong)
  BY <1>1, <1>3 DEF Resumed, GotoEntry, SkipNext, AtEntry, NumItems, FromFile
<1> QED
  BY <1>2, <1>3

\* What a step of streamPlaylist() does to the list and its cursor.
Loaded ==
  /\ playlist = NoPlaylist /\ PlaylistMode
  /\ playlist' \in Bounded /\ playlist'.index = 0
  /\ playlist'.program <=> cfg.intake = "program"
  /\ pc = "load" /\ pc' = "next" /\ UNCHANGED <<cfg, lastSong>>

\* playlist_read() or playlist_program() at the first walk.
LEMMA LoadIsLoaded == OrderInv /\ LoadPlaylist => Loaded
<1> SUFFICES ASSUME OrderInv, LoadPlaylist PROVE Loaded
  OBVIOUS
<1>1. diskList \in Lists /\ PlaylistMode
  BY DEF OrderInv, IInv, TypeOK, PlaylistOK, LoadPlaylist, WalksInPlaylistMode
<1>2. FromProgram \in Bounded /\ FromFile(diskList) \in Bounded
  BY <1>1, FreshBounded
<1>3. CASE cfg.intake = "program"
  <2>1. playlist' = FromProgram
    BY <1>3 DEF LoadPlaylist
  <2>2. playlist' \in Bounded /\ playlist'.program = TRUE /\ playlist'.index = 0
    BY <1>2, <2>1 DEF FromProgram
  <2> QED
    BY <1>1, <1>3, <2>2 DEF LoadPlaylist, Loaded
<1>4. CASE cfg.intake # "program"
  <2>1. playlist' \in Arranged(FromFile(diskList))
    BY <1>4 DEF LoadPlaylist
  <2>2. playlist' \in Bounded /\ playlist'.program = FALSE /\ playlist'.index = 0
    BY <1>2, <2>1, ArrangedKind DEF FromFile
  <2> QED
    BY <1>1, <1>4, <2>2 DEF LoadPlaylist, Loaded
<1> QED
  BY <1>3, <1>4

Rewound ==
  /\ playlist # NoPlaylist /\ PlaylistMode
  /\ playlist' \in Bounded /\ playlist'.index = 0
  /\ playlist'.program = playlist.program
  /\ IF cfg.shuffle /\ ~playlist.program THEN playlist'.list \in Permuted(playlist.list)
     ELSE playlist'.list = playlist.list
  /\ pc = "load" /\ pc' = "next" /\ UNCHANGED <<cfg, lastSong>>

\* playlist_rewind(), and the shuffle behind it.
LEMMA RewindIsRewound == OrderInv /\ RewindPlaylist => Rewound
<1> SUFFICES ASSUME OrderInv, RewindPlaylist PROVE Rewound
  OBVIOUS
<1>1. playlist # NoPlaylist /\ PlaylistMode
  BY DEF OrderInv, IInv, RewindPlaylist, WalksInPlaylistMode
<1>2. playlist \in Held
  BY <1>1 DEF OrderInv, IInv, WalkBounded
<1>3. Rewind(playlist) \in Bounded /\ Rewind(playlist).index = 0
      /\ Rewind(playlist).program = playlist.program
      /\ Rewind(playlist).list = playlist.list
  BY <1>2, FreshBounded DEF Rewind, Held, Handles
<1>4. playlist' \in Arranged(Rewind(playlist))
  BY DEF RewindPlaylist
<1> QED
  BY <1>1, <1>3, <1>4, ArrangedKind DEF Rewound, RewindPlaylist

RereadList ==
  /\ playlist # NoPlaylist /\ PlaylistMode /\ ~playlist.program
  /\ playlist' \in Bounded /\ ~playlist'.program
  /\ IF cfg.shuffle THEN playlist'.index = 0 ELSE playlist' = Resumed(FromFile(diskList))
  /\ diskList \in Lists
  /\ pc = "reread" /\ pc' = "next" /\ UNCHANGED <<cfg, lastSong>>

\* playlist_reread(), and going on from the last song.
LEMMA RereadIsReread == OrderInv /\ Reread => RereadList
<1> SUFFICES ASSUME OrderInv, Reread PROVE RereadList
  OBVIOUS
<1>1. diskList \in Lists /\ PlaylistMode /\ pc = "reread" /\ pc \in Inside
  BY DEF OrderInv, IInv, TypeOK, PlaylistOK, Reread, WalksInPlaylistMode, Inside
<1>2. playlist # NoPlaylist /\ ~playlist.program
  BY <1>1, HandleParts DEF OrderInv, Kinds
<1>3. FromFile(diskList) \in Bounded /\ ~FromFile(diskList).program
      /\ FromFile(diskList).index = 0
  BY <1>1, FreshBounded DEF FromFile
<1>4. Resumed(FromFile(diskList)) \in Bounded /\ ~Resumed(FromFile(diskList)).program
  BY <1>1, <1>3, ResumedBounded, ResumedPlace
<1> QED
  BY <1>1, <1>2, <1>3, <1>4, ShuffledKind, ShuffledBounded DEF Reread, RereadList

\* streamPlaylist(): handles are of their kind, the song is where the index says, and
\* the end of the list is where a walk without a failure ends.
LEMMA PlaylistKeepsOrder == OrderInv /\ PlaylistStep => Kinds' /\ Walked' /\ AtSong'
<1> SUFFICES ASSUME OrderInv, PlaylistStep PROVE Kinds' /\ Walked' /\ AtSong'
  OBVIOUS
<1>0. NoPlaylist \notin Bounded
  BY EzstreamAssumption DEF Bounded, Held, Handles
<1>1. CASE LoadPlaylist
  BY <1>1, LoadIsLoaded DEF Loaded, Kinds, Walked, AtSong, Playing, Streaming, PlaylistMode
<1>2. CASE LoadFails
  BY <1>2 DEF LoadFails, PlaylistReturns, lists, Kinds, Walked, AtSong, Playing, Streaming
<1>3. CASE RewindPlaylist
  BY <1>3, RewindIsRewound DEF Rewound, OrderInv, Kinds, Walked, AtSong, Playing, Streaming, PlaylistMode
<1>4. CASE NextSong
  <2>1. PlaylistMode /\ pc \in Inside
    BY <1>4 DEF NextSong, OrderInv, IInv, WalksInPlaylistMode, Inside
  <2>2. /\ playlist # NoPlaylist /\ playlist \in Handles
        /\ playlist.program => NumItems(playlist) = 0
        /\ playlist.index \in Nat /\ NumItems(playlist) \in Nat
    BY <2>1, HandleParts DEF OrderInv, Held
  <2>3. /\ playlist'.program = playlist.program /\ playlist'.list = playlist.list
        /\ ~playlist.program =>
             /\ AtEntry(playlist) /\ lastSong' = playlist.list[playlist.index + 1]
             /\ playlist'.index = playlist.index + 1
    BY <1>4, <2>2 DEF NextSong, Upcoming, GetNext, Entry, AtEntry, Handles
  <2>4. NumItems(playlist)' = NumItems(playlist)
    BY <2>3 DEF NumItems
  <2>5. UNCHANGED cfg /\ pc' = "open"
    BY <1>4 DEF NextSong
  <2>6. Kinds' /\ Walked'
    BY <2>2, <2>3, <2>5 DEF OrderInv, Kinds, Walked, PlaylistMode
  <2>7. AtSong'
    BY <2>2, <2>3, <2>4 DEF AtSong, AtEntry
  <2> QED
    BY <2>6, <2>7
<1>5. CASE EndOfList
  <2>1. PlaylistMode /\ pc \in Inside
    BY <1>5 DEF EndOfList, OrderInv, IInv, WalksInPlaylistMode, Inside
  <2>2. /\ playlist # NoPlaylist /\ playlist \in Handles
        /\ playlist.program => NumItems(playlist) = 0
        /\ playlist.index \in Nat /\ NumItems(playlist) \in Nat
        /\ NumItems(playlist) = Len(playlist.list) /\ playlist.list \in Seq(Songs)
    BY <2>1, HandleParts DEF OrderInv, Held
  <2>3. ~AtEntry(playlist)
    BY <1>5, <2>2, EzstreamAssumption DEF EndOfList, Upcoming, AtEntry, Entry
  <2>4. /\ playlist'.program = playlist.program /\ playlist'.list = playlist.list
        /\ playlist'.index \in {playlist.index, playlist.index + 1}
    BY <1>5, <2>2 DEF EndOfList, GetNext, Handles
  <2>5. ~AtEntry(playlist)'
    BY <2>2, <2>3, <2>4 DEF AtEntry, NumItems
  <2>6. UNCHANGED cfg /\ pc' = "main_check"
    BY <1>5 DEF EndOfList, PlaylistReturns
  <2> QED
    BY <2>2, <2>4, <2>5, <2>6 DEF OrderInv, Kinds, Walked, AtSong, Playing, Streaming, PlaylistMode
<1>6. CASE TrackDone
  <2>1. UNCHANGED <<playlist, lastSong, cfg, quit, NumItems(playlist)>>
    BY <1>6 DEF TrackDone, lists, NumItems
  <2> QED
    BY <1>6, <2>1 DEF TrackDone, PlaylistReturns, RereadDue, OrderInv, Kinds, Walked, AtSong,
       Playing, Streaming, PlaylistMode
<1>7. CASE Reread
  BY <1>7, RereadIsReread DEF RereadList, OrderInv, Kinds, Walked, AtSong, Playing, Streaming, PlaylistMode
<1>8. CASE RereadFails
  BY <1>8 DEF RereadFails, PlaylistReturns, lists, OrderInv, Kinds, Walked, AtSong, Playing, Streaming,
     PlaylistMode
<1> QED
  BY <1>1, <1>2, <1>3, <1>4, <1>5, <1>6, <1>7, <1>8 DEF PlaylistStep

\* At first there is no playlist.
LEMMA InitOrderInv == Init => OrderInv
BY InitIInv DEF Init, OrderInv, Kinds, Walked, AtSong, OpenWhileStreaming, Streaming

\* Every step keeps the invariant.
LEMMA StepOrderInv == OrderInv /\ [Next]_vars => OrderInv'
<1> SUFFICES ASSUME OrderInv, [Next]_vars PROVE OrderInv'
  OBVIOUS
<1>1. IInv'
  BY MainKeepsIInv, PlaylistKeepsIInv, FileKeepsIInv, SendKeepsIInv, ReconnectKeepsIInv,
     EnvironmentKeepsIInv, StutterKeepsIInv DEF OrderInv, Next, Step, Gone
<1>2. TypeOK
  BY DEF OrderInv, IInv
<1>3. Kinds' /\ Walked' /\ AtSong'
  BY <1>2, MainKeepsOrder, PlaylistKeepsOrder, FileIsInner, OpenKeepsOrder, TrackEndKeepsOrder,
     SendIsInner, WorldIsInner, InnerKeepsOrder DEF Next, Step
<1>4. OpenWhileStreaming'
  BY <1>2, OutsideIsClosed, TrackKeepsOpen, FileIsInner, SendIsInner, WorldIsInner DEF Next, Step
<1> QED
  BY <1>1, <1>3, <1>4 DEF OrderInv

\* The invariant holds in every reachable state.
LEMMA OrderInvAlways == Spec => []OrderInv
BY InitOrderInv, StepOrderInv, PTL DEF Spec

--------------------------------------------------------------------------------
(* Every step is a step of the order, or changes nothing of it. *)

\* The variables of PlayOrder.
Kind ==
  CASE cfg.intake = "playlist" -> "list"
    [] cfg.intake = "program" -> "program"
    [] OTHER -> "single"
Phase ==
  CASE pc = "connect" -> "off"
    [] Stopped -> "over"
    [] pc \in {"main", "main_check", "shutdown", "load", "next", "track_done", "reread"} ->
         "between"
    [] OTHER -> "playing"
List == IF playlist = NoPlaylist THEN NoPlaylist ELSE playlist.list
Pos ==
  IF playlist = NoPlaylist THEN 0
  ELSE IF AtEntry(playlist) THEN playlist.index ELSE NumItems(playlist)

\* Nothing is seen of a step that leaves list, song, phase and what is open alone.
LEMMA SeenSame ==
  ASSUME UNCHANGED <<cfg, playlist, lastSong, filep, Phase>>
  PROVE  UNCHANGED Order!vars
BY DEF Order!vars, Phase, AtEntry, NumItems

\* Nothing is seen of a step inside a track.
LEMMA InnerUnseen == OrderInv /\ OrderInv' /\ Inner => UNCHANGED Order!vars
<1> SUFFICES ASSUME OrderInv, OrderInv', Inner PROVE UNCHANGED Order!vars
  OBVIOUS
<1>1. Phase' = Phase
  <2>1. CASE pc' = pc
    BY <2>1 DEF Phase, Stopped
  <2>2. CASE pc \in Streaming /\ pc' \in Streaming
    BY <2>2 DEF Phase, Stopped, Streaming
  <2> QED
    BY <2>1, <2>2 DEF Inner
<1> QED
  BY <1>1, SeenSame DEF Inner

\* main() goes on air, begins a single file and goes off air.
LEMMA MainInOrder == OrderInv /\ MainStep => [Order!Next]_(Order!vars)
<1> SUFFICES ASSUME OrderInv, MainStep PROVE [Order!Next]_(Order!vars)
  OBVIOUS
<1>closed. filep = "none" /\ UNCHANGED filep
  BY OutsideIsClosed
<1>1. CASE Connect
  <2>1. Order!GoOnAir
    BY <1>1 DEF Connect, lists, Order!GoOnAir, Order!Settings, Stopped, AtEntry, NumItems
  <2> QED
    BY <1>closed, <2>1 DEF Order!Next, Order!Between
<1>2. CASE MainLoop
  <2>1. UNCHANGED <<cfg, playlist, lastSong>>
    BY <1>2 DEF MainLoop, lists
  <2>2. CASE PlaylistMode
    BY <1>closed, <1>2, <2>1, <2>2, SeenSame DEF MainLoop, Phase, Stopped
  <2>3. CASE ~PlaylistMode
    <3>1. Order!BeginSingle
      BY <1>2, <2>1, <2>3 DEF MainLoop, Order!BeginSingle, Order!Settings, Stopped, AtEntry,
         NumItems, PlaylistMode
    <3> QED
      BY <1>closed, <3>1 DEF Order!Next, Order!Between
  <2> QED
    BY <2>2, <2>3
<1>3. CASE MainCheck
  BY <1>closed, <1>3, SeenSame DEF MainCheck, lists, Phase, Stopped
<1>4. CASE Shutdown
  <2>1. Order!GoOff
    BY <1>4 DEF Shutdown, Order!GoOff, Order!Settings, Stopped
  <2> QED
    BY <1>closed, <2>1 DEF Order!Next, Order!Between
<1> QED
  BY <1>1, <1>2, <1>3, <1>4 DEF MainStep

\* openResource() opens one thing while nothing is open.
LEMMA OpenInOrder == OrderInv /\ Open => Order!OpenSource
<1> SUFFICES ASSUME OrderInv, Open PROVE Order!OpenSource
  OBVIOUS
<1>1. /\ UNCHANGED <<cfg, playlist, lastSong>>
      /\ pc = "open" /\ pc' = "fread"
      /\ filep' \in {"file", "pipe", "stdin"}
  BY DEF Open, CallSendStream, lists
<1>2. filep = "none"
  BY <1>1 DEF OrderInv, OpenWhileStreaming, Streaming
<1> QED
  BY <1>1, <1>2 DEF Order!OpenSource, Order!Settings, Stopped, AtEntry, NumItems

\* A track that cannot be opened, or that is closed, is finished.
LEMMA TrackEndInOrder == OrderInv /\ (OpenFails \/ Close) => Order!Finish
<1> SUFFICES ASSUME OrderInv, OpenFails \/ Close PROVE Order!Finish
  OBVIOUS
<1>1. /\ UNCHANGED <<cfg, playlist, lastSong>>
      /\ pc' \in {"track_done", "main_check"} /\ pc \in {"open", "close"}
  BY DEF OpenFails, Close, FileReturns, lists
<1>2. filep' = "none"
  BY DEF OrderInv, OpenWhileStreaming, Streaming, OpenFails, Close, supply, resource
<1> QED
  BY <1>1, <1>2 DEF Order!Finish, Order!Settings, Stopped, AtEntry, NumItems

\* Each step of streamPlaylist(): a list is loaded, started over at its end, gone on
\* with, or reread.
LEMMA PlaylistInOrder == OrderInv /\ PlaylistStep => [Order!Next]_(Order!vars)
<1> SUFFICES ASSUME OrderInv, PlaylistStep PROVE [Order!Next]_(Order!vars)
  OBVIOUS
<1>closed. filep = "none" /\ UNCHANGED filep
  BY OutsideIsClosed
<1>0. /\ NoPlaylist \notin Bounded
      /\ \A p \in Bounded : /\ p.list \in Seq(Songs) /\ NumItems(p) = Len(p.list)
                            /\ p.index \in Nat /\ p.index <= Len(p.list)
                            /\ p.program => p.list = << >>
                            /\ AtEntry(p) <=> p.index < Len(p.list)
  BY EzstreamAssumption DEF Bounded, Held, Handles, NumItems, AtEntry
<1>1. CASE LoadPlaylist
  <2>1. Loaded
    BY <1>1, LoadIsLoaded
  <2>2. Pos' = 0 /\ Pos = 0
    BY <1>0, <2>1 DEF Loaded, Pos
  <2>3. List' \in (IF Kind = "program" THEN {<< >>} ELSE Seq(Songs)) /\ List = NoPlaylist
    BY <1>0, <2>1 DEF Loaded, List, Kind
  <2>4. Order!Load
    BY <2>1, <2>2, <2>3 DEF Loaded, Order!Load, Order!Settings, Stopped, List, Pos, Kind,
       PlaylistMode
  <2> QED
    BY <1>closed, <2>4 DEF Order!Next, Order!Between
<1>2. CASE LoadFails
  BY <1>closed, <1>2, SeenSame DEF LoadFails, PlaylistReturns, lists, Phase, Stopped
<1>3. CASE RewindPlaylist
  <2>1. Rewound
    BY <1>3, RewindIsRewound
  <2>2. ~AtEntry(playlist) /\ (playlist.program <=> cfg.intake = "program")
    BY <2>1 DEF Rewound, OrderInv, Walked, Kinds
  <2>3. Pos' = 0 /\ Pos = NumItems(playlist) /\ List = playlist.list /\ List' = playlist'.list
    BY <1>0, <2>1, <2>2 DEF Rewound, Pos, List
  <2>4. List # NoPlaylist /\ NumItems(playlist) = Len(List)
        /\ (playlist.program => NumItems(playlist) = 0)
    BY <2>1, <2>3, HandleParts DEF OrderInv, Rewound
  <2>5. CASE playlist.program
    <3>1. UNCHANGED <<cfg, lastSong, Phase, List, Pos>>
      BY <2>1, <2>3, <2>4, <2>5 DEF Rewound, Phase, Stopped
    <3> QED
      BY <1>closed, <3>1 DEF Order!vars, Phase, List, Pos
  <2>6. CASE ~playlist.program
    <3>1. cfg.intake = "playlist" /\ cfg' = cfg
      BY <2>1, <2>2, <2>6 DEF Rewound, PlaylistMode
    <3>2. List' \in IF cfg.shuffle THEN Order!Permuted(List) ELSE {List}
      BY <2>1, <2>3, <2>6 DEF Rewound, Permuted, Order!Permuted, Bijection, Order!Bijection,
         Injection, Order!Injection, Surjection, Order!Surjection, IsInjective,
         Order!IsInjective
    <3>3. Order!StartOver
      BY <2>1, <2>3, <2>4, <3>1, <3>2 DEF Rewound, Order!StartOver, Order!Settings, Stopped,
         List, Pos
    <3> QED
      BY <1>closed, <3>3 DEF Order!Next, Order!Between
  <2> QED
    BY <2>5, <2>6
<1>4. CASE NextSong
  <2>1. PlaylistMode /\ pc \in Inside
    BY <1>4 DEF NextSong, OrderInv, IInv, WalksInPlaylistMode, Inside
  <2>2. /\ playlist # NoPlaylist /\ playlist \in Handles
        /\ playlist.program => playlist.list = << >> /\ NumItems(playlist) = 0
        /\ playlist.index \in Nat /\ NumItems(playlist) \in Nat
        /\ NumItems(playlist) = Len(playlist.list) /\ playlist.list # NoPlaylist
        /\ playlist.program <=> cfg.intake = "program"
    BY <2>1, HandleParts DEF OrderInv, Held, Kinds
  <2>3. UNCHANGED cfg /\ pc' = "open" /\ pc = "next"
    BY <1>4 DEF NextSong
  <2>4. CASE playlist.program
    <3>1. playlist' = playlist /\ lastSong' \in Songs
      BY <1>4, <2>2, <2>4 DEF NextSong, GetNext, Upcoming
    <3>2. Order!BeginPrinted
      BY <2>2, <2>3, <2>4, <3>1 DEF Order!BeginPrinted, Order!Settings, Stopped, AtEntry, NumItems
    <3> QED
      BY <1>closed, <3>2 DEF Order!Next, Order!Between
  <2>5. CASE ~playlist.program
    <3>1. /\ AtEntry(playlist) /\ lastSong' = playlist.list[playlist.index + 1]
          /\ playlist' \in Handles /\ playlist'.list = playlist.list
          /\ playlist'.index = playlist.index + 1
      BY <1>4, <2>2, <2>5 DEF NextSong, Upcoming, GetNext, Entry, AtEntry, Handles
    <3>2. playlist' # NoPlaylist /\ playlist.index < Len(playlist.list)
      BY <2>2, <3>1, EzstreamAssumption DEF Handles, AtEntry
    <3>3. Pos = playlist.index /\ Pos' = playlist.index + 1
      BY <2>2, <3>1, <3>2 DEF Pos, AtEntry, NumItems
    <3>4. List = playlist.list /\ List' = List /\ List # NoPlaylist /\ Pos < Len(List)
      BY <2>2, <3>1, <3>2, <3>3 DEF List
    <3>5. cfg.intake = "playlist"
      BY <2>1, <2>2, <2>5 DEF PlaylistMode
    <3>6. Order!BeginEntry
      BY <2>3, <3>1, <3>3, <3>4, <3>5 DEF Order!BeginEntry, Order!Settings, Stopped, List, Pos
    <3> QED
      BY <1>closed, <3>6 DEF Order!Next, Order!Between
  <2> QED
    BY <2>4, <2>5
<1>5. CASE EndOfList
  <2>1. PlaylistMode /\ pc \in Inside
    BY <1>5 DEF EndOfList, OrderInv, IInv, WalksInPlaylistMode, Inside
  <2>2. /\ playlist # NoPlaylist /\ playlist \in Handles
        /\ playlist.program => NumItems(playlist) = 0
        /\ playlist.index \in Nat /\ NumItems(playlist) \in Nat
        /\ NumItems(playlist) = Len(playlist.list) /\ playlist.list \in Seq(Songs)
    BY <2>1, HandleParts DEF OrderInv, Held
  <2>3. ~AtEntry(playlist)
    BY <1>5, <2>2, EzstreamAssumption DEF EndOfList, Upcoming, AtEntry, Entry
  <2>4. /\ playlist' \in Handles /\ playlist'.list = playlist.list
        /\ playlist'.index \in {playlist.index, playlist.index + 1}
    BY <1>5, <2>2 DEF EndOfList, GetNext, Handles
  <2>5. playlist' # NoPlaylist /\ ~AtEntry(playlist)' /\ NumItems(playlist)' = NumItems(playlist)
    BY <2>2, <2>3, <2>4, EzstreamAssumption DEF AtEntry, NumItems, Handles
  <2>6. UNCHANGED <<cfg, lastSong, Phase, List, Pos>>
    BY <1>5, <2>2, <2>3, <2>4, <2>5 DEF EndOfList, PlaylistReturns, Phase, Stopped, List, Pos
  <2> QED
    BY <1>closed, <2>6 DEF Order!vars, Phase, List, Pos
<1>6. CASE TrackDone
  BY <1>closed, <1>6, SeenSame DEF TrackDone, PlaylistReturns, lists, Phase, Stopped
<1>7. CASE Reread
  <2>1. RereadList
    BY <1>7, RereadIsReread
  <2>2. cfg.intake = "playlist" /\ List # NoPlaylist
    BY <2>1, HandleParts DEF RereadList, OrderInv, Kinds, PlaylistMode, List
  <2>3. List' \in Seq(Songs) /\ List' = playlist'.list
        /\ Pos' = playlist'.index
    BY <1>0, <2>1 DEF RereadList, List, Pos
  <2>4. Pos' \in Order!ResumePoints(List')
    <3>1. CASE cfg.shuffle
      BY <2>1, <2>3, <3>1 DEF RereadList, Order!ResumePoints
    <3>2. CASE ~cfg.shuffle
      <4>1. List' = diskList /\ diskList \in Seq(Songs) /\ Pos' \in 0..Len(diskList)
        BY <2>1, <2>3, <3>2, ResumedPlace DEF RereadList
      <4>2. CASE \E k \in DOMAIN diskList : diskList[k] = lastSong
        <5>1. Pos' = Order!FirstPlace(List', lastSong)
          <6>1. playlist'.index = FirstPlace(diskList, lastSong)
            BY <2>1, <3>2, <4>2, ResumedPlace DEF RereadList
          <6>2. FirstPlace(diskList, lastSong) = Order!FirstPlace(diskList, lastSong)
            BY DEF FirstPlace, Order!FirstPlace
          <6> QED
            BY <2>3, <4>1, <6>1, <6>2
        <5> QED
          BY <3>2, <4>1, <4>2, <5>1, <2>1 DEF Order!ResumePoints, RereadList
      <4>3. CASE ~(\E k \in DOMAIN diskList : diskList[k] = lastSong)
        <5>1. Pos' \in {0, 1}
          BY <2>1, <2>3, <3>2, <4>3, ResumedPlace DEF RereadList
        <5> QED
          BY <3>2, <4>1, <4>3, <5>1, <2>1 DEF Order!ResumePoints, RereadList
      <4> QED
        BY <4>2, <4>3
    <3> QED
      BY <3>1, <3>2
  <2>5. Order!Reload
    BY <2>1, <2>2, <2>3, <2>4 DEF RereadList, Order!Reload, Order!Settings, Stopped, List, Pos
  <2> QED
    BY <1>closed, <2>5 DEF Order!Next, Order!Between
<1>8. CASE RereadFails
  BY <1>closed, <1>8, SeenSame DEF RereadFails, PlaylistReturns, lists, Phase, Stopped
<1> QED
  BY <1>1, <1>2, <1>3, <1>4, <1>5, <1>6, <1>7, <1>8 DEF PlaylistStep

\* Every step is a step of the order, or nothing is seen of it.
LEMMA StepInOrder == OrderInv /\ OrderInv' /\ [Next]_vars => [Order!Next]_(Order!vars)
<1> SUFFICES ASSUME OrderInv, OrderInv', [Next]_vars PROVE [Order!Next]_(Order!vars)
  OBVIOUS
<1>1. TypeOK
  BY DEF OrderInv, IInv
<1>2. Open \/ OpenFails \/ Close => Order!Next
  BY OpenInOrder, TrackEndInOrder DEF Order!Next
<1> QED
  BY <1>1, <1>2, MainInOrder, PlaylistInOrder, FileIsInner, SendIsInner, WorldIsInner, InnerUnseen
     DEF Next, Step

\* streamPlaylist() and streamFile() implement the order of play: whatever fails,
\* whatever signals arrive and however the playlist file is edited.
THEOREM PlaysInOrder == Spec => InOrder
<1>1. Init => Order!Init
  BY EzstreamAssumption DEF Init, Order!Init, Config, Stopped
<1> QED
  BY <1>1, OrderInvAlways, StepInOrder, PTL DEF Spec, InOrder, Order!Spec

--------------------------------------------------------------------------------
(* The place that a reread keeps. *)

\* In a list whose entries differ, a song has one place.
LEMMA OnlyPlace ==
  ASSUME NEW l \in Seq(Songs), IsInjective(l), NEW k \in DOMAIN l
  PROVE  FirstPlace(l, l[k]) = k
BY FirstPlaceInList DEF IsInjective

\* The one step that rereads, and where it goes on.
LEMMA StepKeepsPlace ==
  ASSUME OrderInv, [Next]_vars, pc = "reread", pc' = "next", ~cfg.shuffle,
         playlist'.list = playlist.list, IsInjective(playlist.list)
  PROVE  playlist'.index = playlist.index
<1>1. Reread
  <2>1. ~MainStep /\ ~ReconnectStep
    BY DEF MainStep, Connect, MainLoop, MainCheck, Shutdown, ReconnectStep, TryConnects, TryFails,
       TriesWrap, Reconnecting
  <2>2. ~FileStep
    BY DEF FileStep, Open, OpenFails, Returned, DropSkip, DropQuery, TakeSkip, TakeQuery,
       MetadataFails, Close
  <2>3. ~SendStep
    BY DEF SendStep, ReadBlock, ReadEnds, ReadFails, ReadInterrupted, CheckConnection, Send,
       SendFails, PollQuit, PollSkip, PollQuery, PollNothing
  <2>4. ~(Environment \/ Gone \/ UNCHANGED vars)
    BY DEF Environment, SigTerm, SigHup, SigUsr1, SigUsr2, EditPlaylist, Gone, vars
  <2>5. PlaylistStep => Reread
    BY DEF PlaylistStep, LoadPlaylist, LoadFails, RewindPlaylist, NextSong, EndOfList, TrackDone,
       RereadFails, PlaylistReturns
  <2> QED
    BY <2>1, <2>2, <2>3, <2>4, <2>5 DEF Next, Step
<1>2. RereadList
  BY <1>1, RereadIsReread
<1>3. playlist' = Resumed(FromFile(diskList)) /\ playlist'.list = diskList
  BY <1>2, ResumedPlace DEF RereadList
<1>4. /\ playlist.index \in 1..NumItems(playlist)
      /\ lastSong = playlist.list[playlist.index]
  BY <1>2 DEF RereadList, OrderInv, AtSong
<1>5. playlist.list \in Seq(Songs) /\ NumItems(playlist) = Len(playlist.list)
  BY <1>2, HandleParts DEF RereadList, OrderInv
<1>6. playlist'.index = FirstPlace(playlist.list, lastSong)
  <2>1. diskList \in Lists /\ diskList = playlist.list
    BY <1>2, <1>3 DEF RereadList
  <2>2. \E k \in DOMAIN diskList : diskList[k] = lastSong
    BY <1>4, <1>5, <2>1
  <2>3. Resumed(FromFile(diskList)).index = FirstPlace(diskList, lastSong)
    BY <2>1, <2>2, ResumedPlace
  <2> QED
    BY <1>3, <2>1, <2>3
<1> QED
  BY <1>4, <1>5, <1>6, OnlyPlace

\* A HUP that finds the file as it was goes on with the next entry of the list.
THEOREM PlaceIsKept == Spec => RereadKeepsPlace
BY OrderInvAlways, StepKeepsPlace, PTL DEF Spec, RereadKeepsPlace
================================================================================
