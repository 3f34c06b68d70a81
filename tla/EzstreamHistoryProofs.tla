------------------------- MODULE EzstreamHistoryProofs -------------------------
(***************************************************************************)
(* Proofs about what Ezstream does over several steps, from the history     *)
(* variables of EzstreamHistory.                                            *)
(***************************************************************************)
EXTENDS EzstreamHistory, EzstreamProofs

\* The history restricts nothing.
LEMMA HistoryStep == [HistoryNext]_allVars => [Next]_vars
BY DEF HistoryNext, Next, Environment, allVars, vars, flags, lists, supply, resource, net, disk

\* So what holds of the program alone holds of it with its history.
LEMMA HistoryInvariance == HistorySpec => []IInv
<1>1. HistoryInit => Init
  BY DEF HistoryInit
<1> QED BY <1>1, HistoryStep, Invariance, PTL DEF HistorySpec, Spec

--------------------------------------------------------------------------------
(* After INT or TERM. *)

Ending == {"returned", "close", "track_done", "main_check", "shutdown", "exited"}

\* The way out that is left when quit is set, from each point behind the opening of
\* a resource; every step away from such a point sees quit.
WaysOut ==
  /\ quit'
  /\ pc \in Ending => pc' \in Ending
  /\ pc = "recover" => (pc' = "recover" /\ tries' = tries) \/ pc' = "returned"
  /\ pc = "poll" => pc' \in {"poll", "returned"}
  /\ pc = "send" => pc' \in {"send", "poll", "recover"}
  /\ pc = "reconnect" => (pc' = "reconnect" /\ tries' = tries) \/ pc' \in {"send", "returned"}
  /\ pc \in {"fread", "check"} => pc' \in {"fread", "check", "returned", "send", "reconnect"}
  /\ pc = "open" => pc' \in {"open", "fread", "track_done", "main_check"}

\* main() leaves when quit is set.
LEMMA MainWaysOut == IInv /\ quit /\ MainStep => WaysOut
BY DEF MainStep, Connect, MainLoop, MainCheck, Leaves, Shutdown, WaysOut, Ending,
       flags, lists, supply, resource, net, disk

\* streamPlaylist() returns after the track.
LEMMA PlaylistWaysOut == IInv /\ quit /\ PlaylistStep => WaysOut
BY DEF PlaylistStep, LoadPlaylist, LoadFails, RewindPlaylist, NextSong, EndOfList,
       TrackDone, Reread, RereadFails, PlaylistReturns, WaysOut, Ending,
       flags, lists, supply, resource, net, disk

\* streamFile() closes what it has open.
LEMMA FileWaysOut == IInv /\ quit /\ FileStep => WaysOut
BY DEF FileStep, Open, OpenFails, Returned, DropSkip, DropQuery, TakeSkip, TakeQuery,
       MetadataFails, Close, FileReturns, CallSendStream, CloseWith, WaysOut, Ending,
       flags, lists, supply, resource, net, disk

\* sendStream() returns after the buffer it is at.
LEMMA SendWaysOut == IInv /\ quit /\ SendStep => WaysOut
BY DEF SendStep, ReadBlock, ReadEnds, ReadFails, ReadInterrupted, CheckConnection, Send, SendFails,
       PollQuit, PollSkip, PollQuery, PollNothing, SendReturns, WaysOut, Ending,
       flags, lists, supply, resource, net, disk

\* reconnect() gives up after the attempt it is at.
LEMMA ReconnectWaysOut == IInv /\ quit /\ ReconnectStep => WaysOut
BY DEF ReconnectStep, TryConnects, TryFails, TriesWrap, GivesUp, SendReturns,
       Reconnecting, WaysOut, Ending, flags, lists, supply, resource, net, disk

\* No signal takes quit back.
LEMMA EnvironmentWaysOut == quit /\ (Environment \/ Gone \/ UNCHANGED vars) => WaysOut
BY DEF Environment, SigTerm, SigHup, SigUsr1, SigUsr2, EditPlaylist, Gone, WaysOut,
       vars, flags, lists, supply, resource, net, disk

\* The program finds its way out from wherever quit was set.
LEMMA QuitWaysOut == IInv /\ quit /\ [Next]_vars => WaysOut
BY MainWaysOut, PlaylistWaysOut, FileWaysOut, SendWaysOut, ReconnectWaysOut,
   EnvironmentWaysOut DEF Next, Step

AfterTries == Ending
AfterSend == {"poll", "recover"} \cup Ending
AfterOpen == {"fread", "check", "reconnect", "send"} \cup AfterSend

\* What was done since quit was set tells where the program is on its way out.
LateInv ==
  /\ lateOpens \in 0..1 /\ lateSends \in 0..1 /\ lateTries \in 0..2
  /\ lateOpens > 0 => quit /\ pc \in AfterOpen
  /\ lateSends > 0 => quit /\ pc \in AfterSend
  /\ lateTries > 0 => quit /\ pc \in {"send"} \cup AfterSend
  /\ lateTries > 1 => pc \in AfterTries

\* One more resource, buffer or attempt than before is a step on the way out.
LEMMA NextLateInv == IInv /\ LateInv /\ [HistoryNext]_allVars => LateInv'
<1> SUFFICES ASSUME IInv, LateInv, [HistoryNext]_allVars PROVE LateInv'
  OBVIOUS
<1>1. CASE UNCHANGED allVars
  BY <1>1 DEF allVars, vars, flags, history, late, LateInv
<1>2. CASE HistoryNext
  <2>1. CountLate
    BY <1>2 DEF HistoryNext, Observe
  <2>2. CASE ~quit
    <3>1. lateOpens = 0 /\ lateSends = 0 /\ lateTries = 0
      BY <2>2 DEF LateInv
    <3>2. lateOpens' = 0 /\ lateSends' = 0 /\ lateTries' = 0
      BY <2>1, <2>2, <3>1 DEF CountLate, Count
    <3> QED BY <3>2 DEF LateInv
  <2>3. CASE quit
    <3>1. WaysOut
      BY <2>3, HistoryStep, QuitWaysOut
    <3>2. /\ lateOpens' = IF pc = "open" /\ pc' # "open" THEN lateOpens + 1 ELSE lateOpens
          /\ lateSends' = IF pc = "send" /\ pc' # "send" THEN lateSends + 1 ELSE lateSends
          /\ lateTries' = IF pc \in {"reconnect", "recover"} /\ tries' # tries
                          THEN lateTries + 1 ELSE lateTries
      BY <2>1, <2>3 DEF CountLate, Count, Leaving, Tried, Reconnecting
    <3>3. lateOpens' \in 0..1 /\ (lateOpens' > 0 => pc' \in AfterOpen)
      BY <3>1, <3>2 DEF LateInv, WaysOut, AfterOpen, AfterSend, Ending
    <3>4. lateSends' \in 0..1 /\ (lateSends' > 0 => pc' \in AfterSend)
      BY <3>1, <3>2 DEF LateInv, WaysOut, AfterSend, Ending
    <3>5. lateTries' \in 0..2 /\ (lateTries' > 0 => pc' \in {"send"} \cup AfterSend)
          /\ (lateTries' > 1 => pc' \in AfterTries)
      BY <3>1, <3>2 DEF LateInv, WaysOut, AfterSend, AfterTries, Ending
    <3> QED BY <3>1, <3>3, <3>4, <3>5 DEF LateInv, WaysOut
  <2> QED BY <2>2, <2>3
<1> QED BY <1>1, <1>2

\* Wherever INT or TERM finds the program, it opens one more resource, sends one
\* more buffer and tries to connect twice at most.
THEOREM StopsAtOnce == HistorySpec => []StopsPromptly
<1>1. HistoryInit => LateInv
  BY DEF HistoryInit, LateInv
<1>2. LateInv => StopsPromptly
  BY DEF LateInv, StopsPromptly
<1> QED BY <1>1, <1>2, NextLateInv, HistoryInvariance, PTL DEF HistorySpec

--------------------------------------------------------------------------------
(* HUP. *)

\* No operation makes a program's handle of a list's, or the other way round.
LEMMA SameKind ==
  ASSUME NEW p \in Handles
  PROVE  /\ GetNext(p).program = p.program
         /\ Rewind(p).program = p.program /\ Rewind(p) \in Handles
         /\ \A q \in Shuffled(p) : q.program = p.program
         /\ \A q \in Arranged(p) : q.program = p.program
         /\ Resumed(p).program = p.program
<1>1. GetNext(p).program = p.program
  BY DEF GetNext, Handles
<1>2. Rewind(p).program = p.program /\ Rewind(p) \in Handles
  BY DEF Rewind, Handles
<1>3. \A q \in Shuffled(p) : q.program = p.program
  BY DEF Shuffled, Handles
<1>4. \A q \in Arranged(p) : q.program = p.program
  BY <1>3 DEF Arranged
<1>5. GotoEntry(p, lastSong).program = p.program
  BY DEF GotoEntry, Handles
<1>6. GotoEntry(p, lastSong) \in [program : BOOLEAN, list : Seq(Songs), index : Int]
  <2>1. CASE \E i \in DOMAIN p.list : p.list[i] = lastSong
    <3>1. FirstPlace(p.list, lastSong) \in DOMAIN p.list
      BY <2>1, FirstPlaceInList DEF Handles
    <3> QED BY <2>1, <3>1 DEF GotoEntry, Handles
  <2>2. CASE ~\E i \in DOMAIN p.list : p.list[i] = lastSong
    BY <2>2 DEF GotoEntry, Handles
  <2> QED BY <2>1, <2>2
<1>7. Resumed(p).program = p.program
  BY <1>5, <1>6 DEF Resumed, SkipNext
<1> QED BY <1>1, <1>2, <1>3, <1>4, <1>7

\* The handle is a program's when the intake is one, and only a list is reread.
KindInv ==
  /\ playlist # NoPlaylist => playlist.program = (cfg.intake = "program")
  /\ pc = "reread" => playlist # NoPlaylist /\ cfg.intake = "playlist"

\* A handle keeps its kind, and a new one gets that of the intake.
LEMMA NextKindInv == IInv /\ KindInv /\ [Next]_vars => KindInv'
<1> SUFFICES ASSUME IInv, KindInv, [Next]_vars PROVE KindInv'
  OBVIOUS
<1>0. /\ playlist # NoPlaylist => playlist \in Handles
      /\ FromFile(diskList) \in Handles /\ FromFile(diskList).program = FALSE
      /\ FromProgram.program = TRUE
  BY EzstreamAssumption DEF IInv, TypeOK, PlaylistOK, FromFile, FromProgram, Handles
<1>1. cfg' = cfg
  BY DEF Next, Step, Environment, Gone, MainStep, Connect, MainLoop, MainCheck, Shutdown,
         PlaylistStep, LoadPlaylist, LoadFails, RewindPlaylist, NextSong, EndOfList,
         TrackDone, Reread, RereadFails,
         FileStep, Open, OpenFails, Returned, DropSkip, DropQuery, TakeSkip, TakeQuery,
         MetadataFails, Close,
         SendStep, ReadBlock, ReadEnds, ReadFails, ReadInterrupted, CheckConnection, Send, SendFails,
         PollQuit, PollSkip, PollQuery, PollNothing,
         ReconnectStep, TryConnects, TryFails, TriesWrap,
         SigTerm, SigHup, SigUsr1, SigUsr2, EditPlaylist, vars
<1>2. CASE playlist' = playlist /\ pc' \in {pc, "next", "main_check"}
  BY <1>1, <1>2 DEF KindInv
<1>3. CASE MainStep \/ FileStep \/ SendStep \/ ReconnectStep
  <2>1. playlist' \in {playlist, NoPlaylist} /\ pc' # "reread"
    BY <1>3 DEF MainStep, Connect, MainLoop, MainCheck, Shutdown,
         FileStep, Open, OpenFails, Returned, DropSkip, DropQuery, TakeSkip, TakeQuery,
         MetadataFails, Close,
         SendStep, ReadBlock, ReadEnds, ReadFails, ReadInterrupted, CheckConnection, Send, SendFails,
         PollQuit, PollSkip, PollQuery, PollNothing,
         ReconnectStep, TryConnects, TryFails, TriesWrap, Reconnecting,
         FileReturns, CallSendStream, CloseWith, LoopTest, ServerTest, SendReturns, lists
  <2> QED BY <1>1, <2>1 DEF KindInv
<1>4. CASE Environment \/ Gone \/ UNCHANGED vars
  BY <1>2, <1>4 DEF Environment, SigTerm, SigHup, SigUsr1, SigUsr2, EditPlaylist, Gone,
         vars, lists
<1>5. CASE LoadPlaylist
  <2>1. CASE cfg.intake = "program"
    BY <1>0, <1>1, <1>5, <2>1 DEF LoadPlaylist, KindInv
  <2>2. CASE cfg.intake # "program"
    <3>1. playlist' \in Arranged(FromFile(diskList))
      BY <1>5, <2>2 DEF LoadPlaylist
    <3>2. playlist'.program = FALSE /\ pc' # "reread"
      BY <1>0, <1>5, <3>1, SameKind DEF LoadPlaylist
    <3> QED BY <1>1, <2>2, <3>2, <1>0 DEF KindInv
  <2> QED BY <2>1, <2>2
<1>6. CASE RewindPlaylist
  <2>1. playlist \in Handles /\ playlist' \in Arranged(Rewind(playlist))
    BY <1>0, <1>6 DEF RewindPlaylist
  <2>2. playlist'.program = playlist.program
    BY <2>1, SameKind
  <2> QED BY <1>1, <1>6, <2>2 DEF KindInv, RewindPlaylist
<1>7. CASE NextSong \/ EndOfList
  <2>1. playlist' = GetNext(playlist) /\ playlist \in Handles
    BY <1>7 DEF NextSong, EndOfList, IInv, WalkBounded, WalksInPlaylistMode, Inside,
                Bounded, Held
  <2>2. playlist'.program = playlist.program
    BY <2>1, SameKind
  <2>3. playlist # NoPlaylist /\ pc' # "reread"
    BY <1>7, <2>1, EzstreamAssumption DEF NextSong, EndOfList, PlaylistReturns, Handles
  <2> QED BY <1>1, <2>2, <2>3 DEF KindInv
<1>8. CASE Reread
  <2>1. playlist' \in Shuffled(FromFile(diskList)) \/ playlist' = Resumed(FromFile(diskList))
    BY <1>8 DEF Reread
  <2>2. playlist'.program = FALSE /\ pc' # "reread"
    BY <1>0, <1>8, <2>1, SameKind DEF Reread
  <2>3. playlist # NoPlaylist /\ cfg.intake = "playlist"
    BY <1>8 DEF KindInv, Reread
  <2> QED BY <1>1, <2>2, <2>3 DEF KindInv
<1>9. CASE LoadFails \/ RereadFails
  BY <1>2, <1>9 DEF LoadFails, RereadFails, PlaylistReturns, lists
<1>10. CASE TrackDone
  <2>1. playlist \in Handles /\ playlist # NoPlaylist /\ PlaylistMode
    BY <1>10, EzstreamAssumption
       DEF TrackDone, IInv, WalkBounded, WalksInPlaylistMode, Inside, Bounded, Held, Handles
  <2>2. playlist' = playlist
    BY <1>10 DEF TrackDone, lists
  <2>3. pc' = "reread" => ~playlist.program
    BY <1>10 DEF TrackDone, RereadDue, PlaylistReturns
  <2>4. pc' = "reread" => cfg.intake = "playlist"
    BY <2>1, <2>3 DEF KindInv, PlaylistMode
  <2> QED BY <1>1, <2>1, <2>2, <2>4 DEF KindInv
<1> QED
  BY <1>3, <1>4, <1>5, <1>6, <1>7, <1>8, <1>9, <1>10 DEF Next, Step, PlaylistStep

\* Where a list is walked: not while it is replaced, nor on the way out after that
\* failed.
Walking ==
  /\ cfg.intake = "playlist" /\ playlist # NoPlaylist
  /\ pc \notin {"reread", "shutdown", "exited"}
  /\ pc = "main_check" => retval

\* The walk of a list begins with reading it, and does not reset a HUP.
WalkStep ==
  /\ Walking' => Walking \/ ReadsList
  /\ Walking' /\ rereadPlaylist => rereadPlaylist'

\* main() and streamPlaylist() leave when a reread failed.
LEMMA MainWalkStep == IInv /\ MainStep => WalkStep
BY DEF MainStep, Connect, MainLoop, MainCheck, Leaves, Shutdown, WalkStep, Walking,
       flags, lists, supply, resource, net, disk

\* Only the end of a track resets the flag of a HUP, to read the file next.
LEMMA PlaylistWalkStep == IInv /\ KindInv /\ PlaylistStep => WalkStep
<1> SUFFICES ASSUME IInv, KindInv, PlaylistStep PROVE WalkStep
  OBVIOUS
<1> USE DEF WalkStep, Walking, flags, lists, supply, resource, net, disk
<1>1. CASE LoadPlaylist \/ LoadFails
  BY <1>1 DEF LoadPlaylist, LoadFails, PlaylistReturns, ReadsList
<1>2. CASE RewindPlaylist
  BY <1>2 DEF RewindPlaylist
<1>3. CASE NextSong \/ EndOfList
  <2>1. playlist # NoPlaylist
    BY <1>3, EzstreamAssumption
       DEF NextSong, EndOfList, IInv, WalkBounded, WalksInPlaylistMode, Inside, Bounded, Held,
           Handles
  <2> QED BY <1>3, <2>1 DEF NextSong, EndOfList, PlaylistReturns
<1>4. CASE TrackDone
  <2>1. playlist # NoPlaylist
    BY <1>4, EzstreamAssumption
       DEF TrackDone, IInv, WalkBounded, WalksInPlaylistMode, Inside, Bounded, Held, Handles
  <2>2. cfg.intake = "playlist" => playlist.program = FALSE
    BY <2>1 DEF KindInv
  <2> QED BY <1>4, <2>1, <2>2 DEF TrackDone, RereadDue, PlaylistReturns
<1>5. CASE Reread \/ RereadFails
  BY <1>5 DEF Reread, RereadFails, PlaylistReturns, ReadsList
<1> QED BY <1>1, <1>2, <1>3, <1>4, <1>5 DEF PlaylistStep

\* A track is on its way through a list that is there.
LEMMA FileWalkStep == IInv /\ FileStep => WalkStep
BY DEF FileStep, Open, OpenFails, Returned, DropSkip, DropQuery, TakeSkip, TakeQuery,
       MetadataFails, Close, FileReturns, CallSendStream, CloseWith, LoopTest, ServerTest,
       WalkStep, Walking, flags, lists, supply, resource, net, disk

\* So is a buffer.
LEMMA SendWalkStep == IInv /\ SendStep => WalkStep
<1> SUFFICES ASSUME SendStep PROVE WalkStep
  OBVIOUS
<1> USE DEF ReadBlock, ReadEnds, ReadFails, ReadInterrupted, CheckConnection, Send, SendFails,
            PollQuit, PollSkip, PollQuery, PollNothing, SendReturns, flags, lists
<1>1. pc \in {"fread", "check", "send", "poll"}
  BY DEF SendStep
<1>2. cfg' = cfg /\ playlist' = playlist /\ rereadPlaylist' = rereadPlaylist
  BY DEF SendStep
<1> QED BY <1>1, <1>2 DEF WalkStep, Walking

\* So is an attempt to connect.
LEMMA ReconnectWalkStep == IInv /\ ReconnectStep => WalkStep
BY DEF ReconnectStep, TryConnects, TryFails, TriesWrap, SendReturns,
       Reconnecting, WalkStep, Walking, flags, lists, supply, resource, net, disk

\* Signals and edits do not touch the walk.
LEMMA EnvironmentWalkStep == Environment \/ Gone \/ UNCHANGED vars => WalkStep
BY DEF Environment, SigTerm, SigHup, SigUsr1, SigUsr2, EditPlaylist, Gone, WalkStep,
       Walking, vars, flags, lists, supply, resource, net, disk

\* Every step of the program is such a step.
LEMMA NextWalkStep == IInv /\ KindInv /\ [Next]_vars => WalkStep
BY MainWalkStep, PlaylistWalkStep, FileWalkStep, SendWalkStep, ReconnectWalkStep,
   EnvironmentWalkStep DEF Next, Step

\* Edits are counted in order: no HUP and no list is newer than the file.
DatesOK ==
  /\ hupEdits \in Nat /\ listEdits \in Nat
  /\ hupEdits <= diskEdits

\* The list that is walked is at least as new as the last HUP, or that is pending.
HupInv == DatesOK /\ (Walking => rereadPlaylist \/ listEdits >= hupEdits)

\* Edits of the file only add up.
LEMMA EditsAddUp == IInv /\ [Next]_vars => diskEdits' \in {diskEdits, diskEdits + 1}
BY DEF Next, Step, Environment, Gone, MainStep, Connect, MainLoop, MainCheck, Shutdown,
       PlaylistStep, LoadPlaylist, LoadFails, RewindPlaylist, NextSong, EndOfList,
       TrackDone, Reread, RereadFails,
       FileStep, Open, OpenFails, Returned, DropSkip, DropQuery, TakeSkip, TakeQuery,
       MetadataFails, Close,
       SendStep, ReadBlock, ReadEnds, ReadFails, ReadInterrupted, CheckConnection, Send, SendFails,
       PollQuit, PollSkip, PollQuery, PollNothing,
       ReconnectStep, TryConnects, TryFails, TriesWrap,
       SigTerm, SigHup, SigUsr1, SigUsr2, EditPlaylist, vars, disk

\* A HUP sets the flag, and what resets the flag reads the file.
LEMMA NextHupInv == IInv /\ KindInv /\ HupInv /\ [HistoryNext]_allVars => HupInv'
<1> SUFFICES ASSUME IInv, KindInv, HupInv, [HistoryNext]_allVars PROVE HupInv'
  OBVIOUS
<1>0. diskEdits \in Nat /\ diskEdits' \in Nat /\ diskEdits <= diskEdits'
  BY HistoryStep, EditsAddUp, EzstreamAssumption DEF IInv, TypeOK, PlaylistOK
<1>1. WalkStep
  BY HistoryStep, NextWalkStep
<1>2. CASE UNCHANGED allVars
  BY <1>2 DEF allVars, vars, flags, lists, disk, history, reload, HupInv, DatesOK, Walking
<1>3. CASE HistoryNext
  <2>1. listEdits' = IF ReadsList THEN diskEdits ELSE listEdits
    BY <1>3 DEF HistoryNext, Observe, DateList
  <2>2. CASE SigHup /\ hupEdits' = diskEdits
    <3>1. rereadPlaylist' = TRUE
      BY <2>2 DEF SigHup
    <3> QED BY <1>0, <2>1, <2>2, <3>1 DEF HupInv, DatesOK
  <2>3. CASE hupEdits' = hupEdits
    <3>1. DatesOK'
      BY <1>0, <2>1, <2>3 DEF HupInv, DatesOK
    <3>2. CASE ReadsList
      BY <2>1, <2>3, <3>1, <3>2 DEF HupInv, DatesOK
    <3>3. CASE ~ReadsList
      BY <1>1, <2>1, <2>3, <3>1, <3>3 DEF HupInv, WalkStep
    <3> QED BY <3>2, <3>3
  <2> QED BY <1>3, <2>2, <2>3 DEF HistoryNext
<1> QED BY <1>2, <1>3

\* A HUP is never lost: a track that begins comes from a list that was read after
\* the last HUP, or that HUP is pending.
THEOREM HupsAreKept == HistorySpec => []NoHupLost
<1>1. HistoryInit => HupInv /\ KindInv
  BY DEF HistoryInit, Init, HupInv, DatesOK, Walking, KindInv
<1>2. IInv /\ HupInv => NoHupLost
  <2> SUFFICES ASSUME IInv, HupInv, pc = "open", cfg.intake = "playlist"
               PROVE  rereadPlaylist \/ listEdits >= hupEdits
    BY DEF NoHupLost
  <2>1. playlist # NoPlaylist
    BY EzstreamAssumption DEF IInv, WalkBounded, Inside, PlaylistMode, Bounded, Held, Handles
  <2> QED BY <2>1 DEF HupInv, Walking
<1> QED
  BY <1>1, <1>2, HistoryStep, NextKindInv, NextHupInv, HistoryInvariance, PTL DEF HistorySpec

\* The points at which a track is under way or over, and the ways out after it.
WithTrack ==
  \/ pc \in {"open", "returned", "drop_skip", "drop_query", "take_skip", "take_query",
             "close", "fread", "check", "send", "poll", "reconnect", "recover",
             "track_done", "shutdown", "exited"}
  \/ pc = "main_check" /\ (quit \/ ~retval)

\* A HUP that has seen a track begin is served when that track is over, before the
\* next one.
OverdueInv ==
  /\ overdue \in Nat
  /\ PlaylistMode /\ overdue > 0 => overdue = 1 /\ rereadPlaylist /\ WithTrack

\* The way from a track to the next one resets the flag.
TrackWay == PlaylistMode' => (PlaylistMode /\ (WithTrack => WithTrack' \/ ~rereadPlaylist'))

\* main() leaves after a track that ended with quit or a failure.
LEMMA MainTrackWay == MainStep => TrackWay
BY DEF MainStep, Connect, MainLoop, MainCheck, Leaves, Shutdown, TrackWay, WithTrack,
       PlaylistMode, flags, lists, supply, resource, net, disk

\* streamPlaylist() looks at the flag before it asks for the next song.
LEMMA PlaylistTrackWay == PlaylistStep => TrackWay
BY DEF PlaylistStep, LoadPlaylist, LoadFails, RewindPlaylist, NextSong, EndOfList,
       TrackDone, Reread, RereadFails, PlaylistReturns, TrackWay, WithTrack, PlaylistMode,
       flags, lists, supply, resource, net, disk

\* streamFile() always comes back to streamPlaylist().
LEMMA FileTrackWay == FileStep => TrackWay
BY DEF FileStep, Open, OpenFails, Returned, DropSkip, DropQuery, TakeSkip, TakeQuery,
       MetadataFails, Close, FileReturns, CallSendStream, CloseWith, LoopTest, ServerTest,
       TrackWay, WithTrack, PlaylistMode, flags, lists, supply, resource, net, disk

\* sendStream() comes back to streamFile().
LEMMA SendTrackWay == SendStep => TrackWay
BY DEF SendStep, ReadBlock, ReadEnds, ReadFails, ReadInterrupted, CheckConnection, Send, SendFails,
       PollQuit, PollSkip, PollQuery, PollNothing, SendReturns, TrackWay, WithTrack,
       PlaylistMode, flags, lists, supply, resource, net, disk

\* So does reconnect().
LEMMA ReconnectTrackWay == ReconnectStep => TrackWay
BY DEF ReconnectStep, TryConnects, TryFails, TriesWrap, SendReturns, Reconnecting,
       TrackWay, WithTrack, PlaylistMode, flags, lists, supply, resource, net, disk

\* No signal moves the program on.
LEMMA EnvironmentTrackWay == Environment \/ Gone \/ UNCHANGED vars => TrackWay
BY DEF Environment, SigTerm, SigHup, SigUsr1, SigUsr2, EditPlaylist, Gone, TrackWay,
       WithTrack, PlaylistMode, vars, flags, lists, supply, resource, net, disk

\* There is no other way from a track to the next one.
LEMMA NextTrackWay == [Next]_vars => TrackWay
BY MainTrackWay, PlaylistTrackWay, FileTrackWay, SendTrackWay, ReconnectTrackWay,
   EnvironmentTrackWay DEF Next, Step

\* A track begins under a pending HUP only if none has before.
LEMMA NextOverdueInv == OverdueInv /\ [HistoryNext]_allVars => OverdueInv'
<1> SUFFICES ASSUME OverdueInv, [HistoryNext]_allVars PROVE OverdueInv'
  OBVIOUS
<1>1. TrackWay
  BY HistoryStep, NextTrackWay
<1>2. CASE UNCHANGED allVars
  BY <1>2 DEF allVars, vars, flags, history, reload, OverdueInv, PlaylistMode, WithTrack
<1>3. CASE HistoryNext
  <2>1. overdue' = IF ~rereadPlaylist' THEN 0
                   ELSE IF pc = "next" /\ pc' = "open" THEN overdue + 1 ELSE overdue
    BY <1>3 DEF HistoryNext, Observe, DateList
  <2>2. CASE ~rereadPlaylist'
    BY <2>1, <2>2 DEF OverdueInv
  <2>3. CASE rereadPlaylist' /\ pc = "next" /\ pc' = "open"
    <3>1. PlaylistMode' => overdue = 0
      BY <1>1, <2>3 DEF OverdueInv, TrackWay, WithTrack
    <3> QED BY <2>1, <2>3, <3>1 DEF OverdueInv, WithTrack
  <2>4. CASE rereadPlaylist' /\ ~(pc = "next" /\ pc' = "open")
    BY <1>1, <2>1, <2>4 DEF OverdueInv, TrackWay
  <2> QED BY <2>2, <2>3, <2>4
<1> QED BY <1>2, <1>3

\* A pending HUP waits for one track at most.
THEOREM HupsAreServedNext == HistorySpec => []HupWaitsForOneTrack
<1>1. HistoryInit => OverdueInv
  BY DEF HistoryInit, OverdueInv
<1>2. OverdueInv => HupWaitsForOneTrack
  BY DEF OverdueInv, HupWaitsForOneTrack
<1> QED BY <1>1, <1>2, NextOverdueInv, PTL DEF HistorySpec

--------------------------------------------------------------------------------
(* The ends of the program. *)

\* A SERVERR is on its way to streamFile(), and nothing else makes a track end
\* without a success, a signal or a fault.
FaultInv ==
  /\ ret = "SERVERR" =>
       fault /\ pc \in {"returned", "drop_skip", "drop_query", "take_skip", "take_query"}
  /\ pc \in {"drop_skip", "drop_query", "take_skip"} => ret # "DONE"
  /\ pc = "take_query" /\ ret = "DONE" => retval
  /\ pc \in {"close", "track_done", "main_check"} => retval \/ quit \/ fault
  /\ pc = "shutdown" => quit \/ cfg.once \/ fault

\* A step keeps FaultInv.
FaultWay == FaultInv /\ NoteFault => FaultInv'

\* main() ends for one of the three reasons.
LEMMA MainFaultWay == MainStep => FaultWay
BY DEF MainStep, Connect, MainLoop, MainCheck, Leaves, Shutdown, FaultWay, FaultInv,
       NoteFault, MetadataFails, CloseWith, flags, lists, supply, resource, net, disk

\* streamPlaylist() returns 0 for a playlist it cannot read, or hands on a
\* track's 0.
LEMMA PlaylistFaultWay == PlaylistStep => FaultWay
BY DEF PlaylistStep, LoadPlaylist, LoadFails, RewindPlaylist, NextSong, EndOfList,
       TrackDone, Reread, RereadFails, PlaylistReturns, FaultWay, FaultInv, NoteFault,
       flags, lists, supply, resource, net, disk

\* streamFile() returns 0 for a fault only, and nothing hides a SERVERR from it
\* without setting its result.
LEMMA FileFaultWay == FileStep => FaultWay
<1> SUFFICES ASSUME FileStep, FaultInv, NoteFault PROVE FaultInv'
  BY DEF FaultWay
<1> USE DEF FaultInv, NoteFault, flags, lists, supply, resource, net, disk
<1>1. CASE Open \/ OpenFails
  BY <1>1 DEF Open, OpenFails, FileReturns, CallSendStream, PlaylistMode
<1>2. CASE Returned \/ DropSkip \/ DropQuery \/ TakeSkip
  BY <1>2 DEF Returned, DropSkip, DropQuery, TakeSkip, SkipTaken, CloseWith
<1>3. CASE TakeQuery
  BY <1>3 DEF TakeQuery, LoopTest, ServerTest, CallSendStream, CloseWith
<1>4. CASE MetadataFails
  BY <1>4 DEF MetadataFails, CloseWith
<1>5. CASE Close
  BY <1>5 DEF Close, FileReturns, PlaylistMode
<1> QED BY <1>1, <1>2, <1>3, <1>4, <1>5 DEF FileStep

\* sendStream() leaves ret as its caller set it, or sets it to something else
\* than SERVERR.
LEMMA SendFaultWay == SendStep => FaultWay
BY DEF SendStep, ReadBlock, ReadEnds, ReadFails, ReadInterrupted, CheckConnection, Send, SendFails,
       PollQuit, PollSkip, PollQuery, PollNothing, SendReturns, FaultWay, FaultInv,
       NoteFault, flags, lists, supply, resource, net, disk

\* reconnect() makes a SERVERR, which is a fault.
LEMMA ReconnectFaultWay == ReconnectStep => FaultWay
BY DEF ReconnectStep, TryConnects, TryFails, TriesWrap, SendReturns, Reconnecting,
       FaultWay, FaultInv, NoteFault, flags, lists, supply, resource, net, disk

\* Signals and edits are no fault, nor do they take one back.
LEMMA EnvironmentFaultWay == Environment \/ Gone => FaultWay
BY DEF Environment, SigTerm, SigHup, SigUsr1, SigUsr2, EditPlaylist, Gone, FaultWay,
       FaultInv, NoteFault, vars, flags, lists, supply, resource, net, disk

\* No step forgets a fault before the program has left.
LEMMA NextFaultInv == FaultInv /\ [HistoryNext]_allVars => FaultInv'
<1>1. HistoryNext => (Step \/ Environment \/ Gone) /\ NoteFault
  BY DEF HistoryNext, Observe, Environment
<1>2. HistoryNext => FaultWay
  BY <1>1, MainFaultWay, PlaylistFaultWay, FileFaultWay, SendFaultWay, ReconnectFaultWay,
     EnvironmentFaultWay DEF Step
<1>3. FaultInv /\ UNCHANGED allVars => FaultInv'
  BY DEF FaultInv, allVars, vars, flags, history
<1> QED BY <1>1, <1>2, <1>3 DEF FaultWay

\* Without INT or TERM and without stream_once, the program ends for a failure
\* only.
THEOREM EndsAreFounded == HistorySpec => []EndsForAReason
<1>1. HistoryInit => FaultInv
  BY DEF HistoryInit, Init, FaultInv
<1>2. FaultInv => EndsForAReason
  BY DEF FaultInv, EndsForAReason
<1> QED BY <1>1, <1>2, NextFaultInv, PTL DEF HistorySpec

--------------------------------------------------------------------------------
(* Signals that never come. *)

\* Only a handler sets a flag.
QuietInv ==
  /\ "HUP" \notin cfg.signals => rereadPlaylist = FALSE
  /\ "USR1" \notin cfg.signals => skipTrack = FALSE
  /\ "USR2" \notin cfg.signals => queryMetadata = FALSE

\* A flag that nobody sets stays as it is.
LEMMA NextQuietInv == QuietInv /\ [Next]_vars => QuietInv'
BY DEF QuietInv, Next, Step, Environment, Gone, MainStep, Connect, MainLoop, MainCheck,
       Shutdown, PlaylistStep, LoadPlaylist, LoadFails, RewindPlaylist, NextSong,
       EndOfList, TrackDone, Reread, RereadFails,
       FileStep, Open, OpenFails, Returned, DropSkip, DropQuery, TakeSkip, TakeQuery,
       MetadataFails, Close,
       SendStep, ReadBlock, ReadEnds, ReadFails, ReadInterrupted, CheckConnection, Send, SendFails,
       PollQuit, PollSkip, PollQuery, PollNothing,
       ReconnectStep, TryConnects, TryFails, TriesWrap,
       SigTerm, SigHup, SigUsr1, SigUsr2, EditPlaylist, Signal, vars, flags

\* So the flag of a signal that is never sent is never set.
LEMMA QuietInvariance == HistorySpec => []QuietInv
<1>1. HistoryInit => QuietInv
  BY DEF HistoryInit, Init, QuietInv
<1> QED BY <1>1, HistoryStep, NextQuietInv, PTL DEF HistorySpec

--------------------------------------------------------------------------------
(* Requests that were taken from their flags. *)

BeforeQuery == {"returned", "drop_skip", "drop_query", "take_skip"}

\* Only a read that is cut short leaves an error behind.
CutInv == cutShort \in BOOLEAN /\ (readError # "none" => cutShort)

\* Where a skip that was taken is, without HUP and USR2.
SkipInv ==
  owedSkip /\ ~cutShort /\ cfg.signals \cap {"HUP", "USR2"} = {} =>
    \/ pc = "close"
    \/ pc \in BeforeQuery /\ ret = "SKIP"
    \/ pc = "take_query" /\ ret = "DONE"

\* Where a query that was taken is, without HUP.
QueryInv ==
  owedQuery /\ ~cutShort /\ "HUP" \notin cfg.signals =>
    \/ pc = "close"
    \/ pc \in BeforeQuery \cup {"take_query"} /\ ret = "UPDMDATA"
    \/ pc \in {"drop_query", "take_skip", "take_query"} /\ ret = "CONT" /\ queryMetadata
    \/ pc = "take_query" /\ ret = "DONE"

RequestInv ==
  owedSkip \in BOOLEAN /\ owedQuery \in BOOLEAN /\ CutInv /\ SkipInv /\ QueryInv

RequestWay == RequestInv /\ QuietInv /\ TakeRequests /\ NoteCutShort => RequestInv'

\* No request is open in main().
LEMMA MainRequestWay == MainStep => RequestWay
BY DEF MainStep, Connect, MainLoop, MainCheck, Shutdown, RequestWay, RequestInv, CutInv, SkipInv,
       QueryInv, QuietInv, BeforeQuery, TakeRequests, NoteCutShort, Leaving, flags, supply, resource

\* No request is open in streamPlaylist().
LEMMA PlaylistRequestWay == PlaylistStep => RequestWay
BY DEF PlaylistStep, LoadPlaylist, LoadFails, RewindPlaylist, NextSong, EndOfList,
       TrackDone, Reread, RereadFails, PlaylistReturns, RequestWay, RequestInv, CutInv, SkipInv,
       QueryInv, BeforeQuery, TakeRequests, NoteCutShort, Leaving, flags, supply, resource

\* streamFile() passes a request on from test to test, to the end of the track
\* or the metadata program.
LEMMA FileRequestWay == FileStep => RequestWay
<1> SUFFICES ASSUME FileStep, RequestInv, QuietInv, TakeRequests, NoteCutShort PROVE RequestInv'
  BY DEF RequestWay
<1> USE DEF RequestInv, CutInv, SkipInv, QueryInv, QuietInv, BeforeQuery, TakeRequests,
           NoteCutShort, Leaving, flags, supply, resource
<1>1. CASE Open \/ OpenFails
  BY <1>1 DEF Open, OpenFails, FileReturns, CallSendStream, PlaylistMode
<1>2. CASE Returned
  BY <1>2 DEF Returned, CloseWith
<1>3. CASE DropSkip
  BY <1>3 DEF DropSkip
<1>4. CASE DropQuery
  BY <1>4 DEF DropQuery
<1>5. CASE TakeSkip
  BY <1>5 DEF TakeSkip, SkipTaken
<1>6. CASE TakeQuery
  BY <1>6 DEF TakeQuery, Asked, LoopTest, ServerTest, CallSendStream, CloseWith
<1>7. CASE MetadataFails \/ Close
  BY <1>7 DEF MetadataFails, Close, CloseWith, FileReturns, PlaylistMode
<1> QED BY <1>1, <1>2, <1>3, <1>4, <1>5, <1>6, <1>7 DEF FileStep

\* sendStream() takes a request from its flag and returns at once.
LEMMA SendRequestWay == SendStep => RequestWay
<1> SUFFICES ASSUME SendStep, RequestInv, QuietInv, TakeRequests, NoteCutShort PROVE RequestInv'
  BY DEF RequestWay
<1> USE DEF RequestInv, CutInv, SkipInv, QueryInv, QuietInv, BeforeQuery, TakeRequests,
           NoteCutShort, Leaving, flags, supply, resource
<1>1. CASE PollSkip
  BY <1>1 DEF PollSkip, SendReturns
<1>2. CASE PollQuery
  BY <1>2 DEF PollQuery, SendReturns, Updates
<1>3. CASE ReadBlock
  BY <1>3 DEF ReadBlock
<1>4. CASE ReadEnds \/ ReadFails \/ ReadInterrupted
  <2>1. pc = "fread" /\ pc' = "returned" /\ UNCHANGED <<cfg, skipTrack, queryMetadata>>
    BY <1>4 DEF ReadEnds, ReadFails, ReadInterrupted, SendReturns
  <2>2. CutInv'
    BY <2>1
  <2>3. SkipInv'
    BY <2>1
  <2>4. QueryInv' /\ owedSkip' \in BOOLEAN /\ owedQuery' \in BOOLEAN
    BY <2>1
  <2> QED BY <2>2, <2>3, <2>4
<1>5. CASE CheckConnection \/ Send \/ SendFails
  BY <1>5 DEF CheckConnection, Send, SendFails
<1>6. CASE PollQuit \/ PollNothing
  BY <1>6 DEF PollQuit, PollNothing, SendReturns
<1> QED BY <1>1, <1>2, <1>3, <1>4, <1>5, <1>6 DEF SendStep

\* reconnect() takes none.
LEMMA ReconnectRequestWay == ReconnectStep => RequestWay
BY DEF ReconnectStep, TryConnects, TryFails, TriesWrap, SendReturns, Reconnecting,
       RequestWay, RequestInv, CutInv, SkipInv, QueryInv, BeforeQuery, TakeRequests, NoteCutShort,
       Leaving, flags, supply, resource

\* A handler only adds requests.
LEMMA EnvironmentRequestWay == Environment \/ Gone => RequestWay
BY DEF Environment, SigTerm, SigHup, SigUsr1, SigUsr2, EditPlaylist, Signal, Gone,
       RequestWay, RequestInv, CutInv, SkipInv, QueryInv, BeforeQuery, TakeRequests, NoteCutShort,
       Leaving, vars, flags, supply, resource

\* Every step keeps the request where it will be seen.
LEMMA NextRequestInv == RequestInv /\ QuietInv /\ [HistoryNext]_allVars => RequestInv'
<1>1. HistoryNext => (Step \/ Environment \/ Gone) /\ TakeRequests /\ NoteCutShort
  BY DEF HistoryNext, Observe, Environment
<1>2. HistoryNext => RequestWay
  BY <1>1, MainRequestWay, PlaylistRequestWay, FileRequestWay, SendRequestWay,
     ReconnectRequestWay, EnvironmentRequestWay DEF Step
<1>3. RequestInv /\ UNCHANGED allVars => RequestInv'
  BY DEF RequestInv, CutInv, SkipInv, QueryInv, allVars, vars, flags, resource, history, owed
<1> QED BY <1>1, <1>2, <1>3 DEF RequestWay

\* So the requests are somewhere on their way.
LEMMA RequestInvariance == HistorySpec => []RequestInv
<1>1. HistoryInit => RequestInv
  BY DEF HistoryInit, Init, RequestInv, CutInv, SkipInv, QueryInv
<1> QED BY <1>1, NextRequestInv, QuietInvariance, PTL DEF HistorySpec

\* Without HUP and USR2 and where no read is cut short, a skip that was taken from its
\* flag ends the track before any more of it is read.
THEOREM SkipsAreServed == HistorySpec => []SkipEndsTrackAlone
<1>1. RequestInv => SkipEndsTrackAlone
  BY DEF RequestInv, SkipInv, BeforeQuery, SkipEndsTrackAlone, SkipEndsTrack
<1> QED BY <1>1, RequestInvariance, PTL

\* Without HUP and where no read is cut short, a query that was taken from its flag
\* runs the metadata program before any more of the track is read.
THEOREM QueriesAreServed == HistorySpec => []QueryRunsProgramAlone
<1>1. RequestInv => QueryRunsProgramAlone
  BY DEF RequestInv, QueryInv, BeforeQuery, QueryRunsProgramAlone
<1> QED BY <1>1, RequestInvariance, PTL

--------------------------------------------------------------------------------
(* Attempts to connect. *)

\* A connection that was lost is being restored, or the program is on its way out.
LostOrLeaving ==
  \/ connected
  \/ pc \in {"connect", "failed", "reconnect", "recover", "shutdown", "exited"}
  \/ pc \in BeforeQuery \cup {"take_query"} /\ ret = "SERVERR"
  \/ pc \in {"close", "track_done", "main_check"} /\ (~retval \/ quit)

\* Neither USR1 nor USR2 is sent.
Undisturbed == cfg.signals \cap {"USR1", "USR2"} = {}

\* Then reconnect() is entered with a connection that was just lost, and every
\* failure since counts in its i.
AttemptsInv ==
  /\ failures \in Nat
  /\ connected => failures = 0
  /\ Undisturbed /\ ~cutShort => LostOrLeaving
  /\ Undisturbed /\ ~cutShort /\ cfg.attempts > 0 =>
       /\ failures <= cfg.attempts
       /\ Reconnecting => failures <= tries /\ tries < cfg.attempts

\* A step outside of reconnect() leaves the connection lost only on the way out,
\* and enters reconnect() only with one that was there.
LostWay ==
  /\ cfg' = cfg
  /\ Undisturbed /\ readError = "none" /\ LostOrLeaving => LostOrLeaving'
  /\ Undisturbed /\ LostOrLeaving /\ Reconnecting' /\ ~Reconnecting => connected /\ tries' = 0
  /\ pc = "close" => ~Reconnecting'

\* main() leaves when the connection is lost.
LEMMA MainLostWay == IInv /\ MainStep => LostWay
BY DEF MainStep, Connect, MainLoop, MainCheck, Leaves, Shutdown, LostWay, Undisturbed,
       LostOrLeaving, BeforeQuery, Reconnecting, PlaylistMode, flags, lists, supply, resource, net, disk

\* streamPlaylist() returns when a track ended for a lost connection.
LEMMA PlaylistLostWay == PlaylistStep => LostWay
BY DEF PlaylistStep, LoadPlaylist, LoadFails, RewindPlaylist, NextSong, EndOfList,
       TrackDone, Reread, RereadFails, PlaylistReturns, LostWay, Undisturbed,
       LostOrLeaving, BeforeQuery, Reconnecting, flags, lists, supply, resource, net, disk

\* Without USR1 and USR2 a SERVERR closes the track, and its 0 is returned.
LEMMA FileLostWay == QuietInv /\ FileStep => LostWay
<1> SUFFICES ASSUME QuietInv, FileStep PROVE LostWay
  OBVIOUS
<1>0. Undisturbed => skipTrack = FALSE /\ queryMetadata = FALSE
  BY DEF Undisturbed, QuietInv
<1> USE DEF LostWay, Undisturbed, LostOrLeaving, BeforeQuery, Reconnecting,
            flags, lists, supply, resource, net, disk
<1>1. CASE Open \/ OpenFails
  BY <1>1 DEF Open, OpenFails, FileReturns, CallSendStream, PlaylistMode
<1>2. CASE Returned
  BY <1>2 DEF Returned, CloseWith
<1>3. CASE DropSkip \/ DropQuery
  BY <1>0, <1>3 DEF DropSkip, DropQuery
<1>4. CASE TakeSkip
  BY <1>0, <1>4 DEF TakeSkip, SkipTaken
<1>5. CASE TakeQuery
  BY <1>0, <1>5 DEF TakeQuery, Asked, LoopTest, ServerTest, CallSendStream, CloseWith
<1>6. CASE MetadataFails
  BY <1>6 DEF MetadataFails, CloseWith
<1>7. CASE Close
  BY <1>7 DEF Close, FileReturns, PlaylistMode
<1> QED BY <1>1, <1>2, <1>3, <1>4, <1>5, <1>6, <1>7 DEF FileStep

\* sendStream() calls reconnect() for a connection that it has just lost.
LEMMA SendLostWay == SendStep => LostWay
<1> SUFFICES ASSUME SendStep PROVE LostWay
  OBVIOUS
<1> USE DEF LostWay, Undisturbed, LostOrLeaving, BeforeQuery, Reconnecting,
            flags, lists, supply, resource, net, disk
<1>1. CASE ReadBlock
  BY <1>1 DEF ReadBlock
<1>2. CASE ReadEnds
  BY <1>2 DEF ReadEnds, SendReturns
<1>3. CASE ReadFails \/ ReadInterrupted
  BY <1>3 DEF ReadFails, ReadInterrupted
<1>4. CASE CheckConnection \/ Send \/ SendFails
  BY <1>4 DEF CheckConnection, Send, SendFails
<1>5. CASE PollQuit \/ PollSkip \/ PollQuery \/ PollNothing
  BY <1>5 DEF PollQuit, PollSkip, PollQuery, PollNothing, SendReturns
<1> QED BY <1>1, <1>2, <1>3, <1>4, <1>5 DEF SendStep

\* reconnect() restores the connection or returns SERVERR.
LEMMA ReconnectLostWay == ReconnectStep => LostWay
BY DEF ReconnectStep, TryConnects, TryFails, TriesWrap, SendReturns, LostWay,
       Undisturbed, LostOrLeaving, BeforeQuery, Reconnecting, flags, lists, supply, resource, net, disk

\* Signals do not touch the connection.
LEMMA EnvironmentLostWay == Environment \/ Gone \/ UNCHANGED vars => LostWay
BY DEF Environment, SigTerm, SigHup, SigUsr1, SigUsr2, EditPlaylist, Signal, Gone, LostWay,
       Undisturbed, LostOrLeaving, BeforeQuery, Reconnecting, vars, flags, lists, supply, resource,
       net, disk

\* No step sends on without a connection.
LEMMA NextLostWay == IInv /\ QuietInv /\ [Next]_vars => LostWay
BY MainLostWay, PlaylistLostWay, FileLostWay, SendLostWay, ReconnectLostWay,
   EnvironmentLostWay DEF Next, Step

\* Below the limit the counter of reconnect() does not wrap.
LEMMA CounterCounts ==
  ASSUME IInv, cfg.attempts > 0, tries < cfg.attempts
  PROVE  tries \in Nat /\ cfg.attempts \in Nat /\ NextTry = tries + 1
<1>1. cfg.attempts \in Nat /\ cfg.attempts < UIntRange /\ UIntRange \in Nat
  BY EzstreamAssumption DEF IInv, TypeOK, ControlOK, Config
<1>2. tries \in Nat
  BY <1>1 DEF IInv, TypeOK, StreamOK
<1>3. \A n, m \in Nat : n < m => n % m = n
  OBVIOUS
<1> QED BY <1>1, <1>2, <1>3 DEF NextTry

\* Inside reconnect(), i counts every attempt, and the last one ends it.
TryWay ==
  Reconnecting =>
    \/ tries' = tries /\ pc' = pc
    \/ NextTry = 0
    \/ tries' = NextTry /\ ((~LastTry /\ pc' = pc) \/ ~Reconnecting')

\* Every step inside reconnect() is an attempt, or leaves its counter alone.
LEMMA NextTryWay == [Next]_vars => TryWay
BY DEF Next, Step, Environment, Gone, MainStep, Connect, MainLoop, MainCheck, Shutdown,
       PlaylistStep, LoadPlaylist, LoadFails, RewindPlaylist, NextSong, EndOfList,
       TrackDone, Reread, RereadFails,
       FileStep, Open, OpenFails, Returned, DropSkip, DropQuery, TakeSkip, TakeQuery,
       MetadataFails, Close,
       SendStep, ReadBlock, ReadEnds, ReadFails, ReadInterrupted, CheckConnection, Send, SendFails,
       PollQuit, PollSkip, PollQuery, PollNothing,
       ReconnectStep, TryConnects, TryFails, TriesWrap, GivesUp, SendReturns,
       SigTerm, SigHup, SigUsr1, SigUsr2, EditPlaylist, vars, net, Reconnecting, TryWay

\* A failure is counted where i is.
LEMMA NextAttemptsInv ==
  IInv /\ QuietInv /\ CutInv /\ AttemptsInv /\ [HistoryNext]_allVars => AttemptsInv'
<1> SUFFICES ASSUME IInv, QuietInv, CutInv, AttemptsInv, [HistoryNext]_allVars
             PROVE  AttemptsInv'
  OBVIOUS
<1>1. LostWay /\ TryWay
  BY HistoryStep, NextLostWay, NextTryWay
<1>2. CASE UNCHANGED allVars
  BY <1>2 DEF allVars, vars, flags, net, history, owed, AttemptsInv, Undisturbed, LostOrLeaving,
              Reconnecting
<1>3. CASE HistoryNext
  <2>1. failures' = IF connected' THEN 0
                    ELSE IF Reconnecting /\ tries' # tries /\ failures <= cfg.attempts
                         THEN failures + 1
                    ELSE failures
    BY <1>3 DEF HistoryNext, Observe, CountFailures, Tried
  <2>2. failures' \in Nat /\ (connected' => failures' = 0)
    BY <2>1 DEF AttemptsInv
  <2>5. ~cutShort' => (~cutShort /\ readError = "none") \/ (pc = "close" /\ connected')
    BY <1>3 DEF HistoryNext, Observe, NoteCutShort, CutInv
  <2>3. Undisturbed' /\ ~cutShort' => LostOrLeaving'
    BY <1>1, <2>5 DEF LostWay, AttemptsInv, Undisturbed, LostOrLeaving
  <2>6. cfg'.attempts \in Nat /\ (pc = "close" /\ connected' => failures' = 0 /\ ~Reconnecting')
    BY <1>1, <2>1, EzstreamAssumption DEF LostWay, IInv, TypeOK, ControlOK, Config
  <2>4. ASSUME Undisturbed', ~cutShort', cfg'.attempts > 0, ~(pc = "close" /\ connected')
        PROVE  failures' <= cfg'.attempts
               /\ (Reconnecting' => failures' <= tries' /\ tries' < cfg'.attempts)
    <3>1. Undisturbed /\ ~cutShort /\ LostOrLeaving /\ cfg' = cfg /\ cfg.attempts > 0
      BY <1>1, <2>4, <2>5 DEF LostWay, AttemptsInv, Undisturbed
    <3>2. cfg.attempts \in Nat
      BY EzstreamAssumption DEF IInv, TypeOK, ControlOK, Config
    <3>3. CASE Reconnecting
      <4>1. NextTry = tries + 1 /\ tries \in Nat /\ failures <= tries /\ tries < cfg.attempts
        BY <3>1, <3>3, CounterCounts DEF AttemptsInv
      <4>2. CASE tries' = tries /\ pc' = pc
        <5>1. failures' \in {0, failures}
          BY <2>1, <4>2
        <5> QED BY <2>2, <3>1, <3>2, <4>1, <4>2, <5>1
      <4>3. CASE tries' = tries + 1 /\ (~LastTry \/ ~Reconnecting')
        <5>1. failures' <= failures + 1
          BY <2>1 DEF AttemptsInv
        <5>2. failures' <= tries' /\ tries' <= cfg.attempts
          BY <2>2, <3>2, <4>1, <4>3, <5>1 DEF AttemptsInv
        <5>3. ~LastTry => tries' < cfg.attempts
          BY <3>1, <3>2, <4>1, <4>3 DEF LastTry
        <5> QED BY <2>2, <3>1, <3>2, <4>1, <4>3, <5>2, <5>3
      <4> QED BY <1>1, <3>3, <4>1, <4>2, <4>3 DEF TryWay
    <3>4. CASE ~Reconnecting
      <4>1. failures' \in {0, failures} /\ failures <= cfg.attempts
        BY <2>1, <3>1, <3>4 DEF AttemptsInv
      <4>2. Reconnecting' => failures = 0 /\ tries' = 0
        BY <1>1, <3>1, <3>4 DEF LostWay, AttemptsInv
      <4> QED BY <2>2, <3>1, <3>2, <4>1, <4>2
    <3> QED BY <3>3, <3>4
  <2> QED BY <2>2, <2>3, <2>4, <2>6 DEF AttemptsInv
<1> QED BY <1>2, <1>3

\* reconnect_attempts bounds the attempts in a row, over all calls of reconnect(),
\* as long as neither USR1, USR2 nor a read that is cut short hides that it gave up.
THEOREM AttemptsAreBounded == HistorySpec => []AttemptsBoundedAlone
<1>1. HistoryInit => AttemptsInv
  BY EzstreamAssumption DEF HistoryInit, Init, AttemptsInv, LostOrLeaving, Reconnecting, Config
<1>2. AttemptsInv => AttemptsBoundedAlone
  BY DEF AttemptsInv, Undisturbed, AttemptsBoundedAlone, AttemptsBounded
<1>3. RequestInv => CutInv
  BY DEF RequestInv
<1> QED
  BY <1>1, <1>2, <1>3, NextAttemptsInv, HistoryInvariance, QuietInvariance, RequestInvariance,
     PTL DEF HistorySpec
================================================================================
