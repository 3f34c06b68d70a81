-------------------------------- MODULE Ezstream --------------------------------
(***************************************************************************)
(* src/src/ezstream.c: the one thread that connects to the server, walks    *)
(* the playlist and streams one resource after another, and the signal      *)
(* handler that interrupts it.                                              *)
(*                                                                          *)
(* pc names the point the program has reached; between two points it looks  *)
(* at each signal flag at most once, and a handler only ever sets flags, so *)
(* a signal that arrives between two points stands for every arrival on the *)
(* way.  What the code calls (libshout, stdio, the programs it runs) may    *)
(* succeed or fail each time.                                               *)
(***************************************************************************)
EXTENDS Naturals, Sequences, PlaylistOps

CONSTANTS
  Songs,        \* what a playlist names, StdinName perhaps among them
  StdinName,    \* the entry "stdin", which streams the standard input
  NoSong,       \* the NULL that ends a playlist; and lastSong at first
  NoPlaylist,   \* playlist == NULL
  Configs,      \* the settings to run with, see Config
  Lists,        \* what the playlist file may contain
  MaxErrors,    \* resource_errors allowed in a row: 100 in the code
  UIntRange,    \* the number of values of an unsigned int
  MaxBlocks,    \* bound: the longest resource, in buffers
  MaxEdits,     \* bound: edits of the playlist file
  Restart       \* SA_RESTART is defined: no read fails with EINTR

\* intake is the type with AUTODETECT resolved; attempts is reconnect_attempts,
\* metadata whether there is a metadata program, refresh whether there is a
\* metadata_refresh_interval.  signals are those that someone may send.
SignalNames == {"TERM", "HUP", "USR1", "USR2"}

Config ==
  [intake : {"playlist", "program", "file", "stdin"},
   shuffle : BOOLEAN, once : BOOLEAN, encoder : BOOLEAN,
   metadata : BOOLEAN, no_updates : BOOLEAN, refresh : BOOLEAN,
   attempts : Nat, signals : SUBSET SignalNames]

ASSUME EzstreamAssumption ==
  /\ Configs \subseteq Config
  /\ NoSong \notin Songs
  /\ NoPlaylist \notin [program : BOOLEAN, list : Seq(Songs), index : Nat]
  /\ NoPlaylist \notin Seq(Songs)
  /\ Lists \subseteq Seq(Songs)
  /\ MaxErrors \in Nat /\ MaxBlocks \in Nat /\ MaxEdits \in Nat
  /\ UIntRange \in Nat \ {0}
  /\ \A c \in Configs : c.attempts < UIntRange
  /\ Restart \in BOOLEAN

VARIABLES
  pc,
  cfg,                                           \* the configuration
  quit, rereadPlaylist, skipTrack, queryMetadata,  \* what sig_handler() sets
  ret,              \* what sendStream() returned to streamFile()
  retval,           \* what streamFile() or streamPlaylist() returns
  resource_errors,
  playlist, lastSong,
  filep,            \* what is open: "none", "file", "pipe" or "stdin"
  input,            \* buffers left to read in it
  stdinEOF,         \* the standard input has ended
  readError,        \* ferror(filep): "none"; "other" or "eintr" by what errno may be
  connected,        \* stream_get_connected()
  tries,            \* i of reconnect()
  diskList, diskEdits    \* the playlist file and how often it was edited

flags == <<quit, rereadPlaylist, skipTrack, queryMetadata>>
lists == <<playlist, lastSong>>
supply == <<filep, input, stdinEOF>>
resource == <<supply, readError>>
net   == <<connected, tries>>
disk  == <<diskList, diskEdits>>
vars  == <<pc, cfg, flags, ret, retval, resource_errors, lists, resource, net, disk>>

--------------------------------------------------------------------------------
(* main(), from the first stream_connect(): the handlers are installed.         *)

Stopped == pc \in {"exited", "failed"}

PlaylistMode == cfg.intake \in {"playlist", "program"}

Init ==
  /\ pc = "connect"
  /\ cfg \in Configs
  /\ quit = FALSE /\ rereadPlaylist = FALSE
  /\ skipTrack = FALSE /\ queryMetadata = FALSE
  /\ ret = "DONE" /\ retval = FALSE
  /\ resource_errors = 0
  /\ playlist = NoPlaylist /\ lastSong = NoSong
  /\ filep = "none" /\ input = 0 /\ stdinEOF = FALSE /\ readError = "none"
  /\ connected = FALSE /\ tries = 0
  /\ diskList \in Lists /\ diskEdits = 0

Connect ==
  /\ pc = "connect"
  /\ connected' \in BOOLEAN
  /\ pc' = IF connected' THEN "main" ELSE "failed"
  /\ UNCHANGED <<cfg, flags, ret, retval, resource_errors, lists, resource, tries, disk>>

MainLoop ==
  /\ pc = "main"
  /\ pc' = IF PlaylistMode THEN "load" ELSE "open"
  /\ UNCHANGED <<cfg, flags, ret, retval, resource_errors, lists, resource, net, disk>>

\* Mutant: the test of quit is missing.
Leaves_NoQuit == cfg.once \/ ~retval

Leaves == quit \/ cfg.once \/ ~retval

MainCheck ==
  /\ pc = "main_check"
  /\ pc' = IF Leaves THEN "shutdown" ELSE "main"
  /\ UNCHANGED <<cfg, flags, ret, retval, resource_errors, lists, resource, net, disk>>

Shutdown ==
  /\ pc = "shutdown"
  /\ connected' = FALSE
  /\ playlist' = NoPlaylist
  /\ pc' = "exited"
  /\ UNCHANGED <<cfg, flags, ret, retval, resource_errors, lastSong, resource, tries, disk>>

--------------------------------------------------------------------------------
(* streamPlaylist() *)

\* A fresh list, or one about to be walked again, is shuffled when asked to.
Arranged(p) == IF cfg.shuffle /\ ~p.program THEN Shuffled(p) ELSE {p}

PlaylistReturns(v) == retval' = v /\ pc' = "main_check"

LoadPlaylist ==
  /\ pc = "load" /\ playlist = NoPlaylist
  /\ playlist' \in IF cfg.intake = "program" THEN {FromProgram}
                   ELSE Arranged(FromFile(diskList))
  /\ pc' = "next"
  /\ UNCHANGED <<cfg, flags, ret, retval, resource_errors, lastSong, resource, net, disk>>

LoadFails ==
  /\ pc = "load" /\ playlist = NoPlaylist
  /\ PlaylistReturns(FALSE)
  /\ UNCHANGED <<cfg, flags, ret, resource_errors, lists, resource, net, disk>>

RewindPlaylist ==
  /\ pc = "load" /\ playlist # NoPlaylist
  /\ playlist' \in Arranged(Rewind(playlist))
  /\ pc' = "next"
  /\ UNCHANGED <<cfg, flags, ret, retval, resource_errors, lastSong, resource, net, disk>>

\* What playlist_get_next() may return: a program prints any name, or no more.
Upcoming ==
  IF playlist.program THEN Songs \cup {NoSong}
  ELSE IF AtEntry(playlist) THEN {Entry(playlist)} ELSE {NoSong}

NextSong ==
  /\ pc = "next"
  /\ \E song \in Upcoming \ {NoSong} : lastSong' = song
  /\ playlist' = GetNext(playlist)
  /\ pc' = "open"
  /\ UNCHANGED <<cfg, flags, ret, retval, resource_errors, resource, net, disk>>

EndOfList ==
  /\ pc = "next"
  /\ NoSong \in Upcoming
  /\ playlist' = GetNext(playlist)
  /\ PlaylistReturns(TRUE)
  /\ UNCHANGED <<cfg, flags, ret, resource_errors, lastSong, resource, net, disk>>

\* Mutant: not after the last entry, where the list is done anyway.
RereadDue_UnlessAtEnd == rereadPlaylist /\ ~playlist.program /\ AtEntry(playlist)

RereadDue == rereadPlaylist /\ ~playlist.program

\* Mutant: the flag is not reset.
TrackDone_KeepsHup ==
  /\ pc = "track_done"
  /\ IF ~retval \/ quit
     THEN PlaylistReturns(retval)
     ELSE pc' = (IF RereadDue THEN "reread" ELSE "next") /\ UNCHANGED retval
  /\ UNCHANGED <<cfg, flags, ret, resource_errors, lists, resource, net, disk>>

TrackDone ==
  /\ pc = "track_done"
  /\ IF ~retval \/ quit
     THEN PlaylistReturns(retval) /\ UNCHANGED rereadPlaylist
     ELSE /\ rereadPlaylist' = FALSE
          /\ pc' = IF RereadDue THEN "reread" ELSE "next"
          /\ UNCHANGED retval
  /\ UNCHANGED <<cfg, quit, skipTrack, queryMetadata, ret, resource_errors, lists,
                 resource, net, disk>>

\* Mutants: the last song is not looked for; it is found and played again.
Resumed_FromStart(p) == p
Resumed_NoSkip(p) == GotoEntry(p, lastSong)

\* playlist_goto_entry() may not find lastSong; playlist_skip_next() runs anyway.
Resumed(p) == SkipNext(GotoEntry(p, lastSong))

Reread ==
  /\ pc = "reread"
  /\ playlist' \in IF cfg.shuffle THEN Shuffled(FromFile(diskList))
                   ELSE {Resumed(FromFile(diskList))}
  /\ pc' = "next"
  /\ UNCHANGED <<cfg, flags, ret, retval, resource_errors, lastSong, resource, net, disk>>

RereadFails ==
  /\ pc = "reread"
  /\ PlaylistReturns(FALSE)
  /\ UNCHANGED <<cfg, flags, ret, resource_errors, lists, resource, net, disk>>

--------------------------------------------------------------------------------
(* streamFile(): openResource(), then sendStream() until its result is DONE.    *)

IsStdin == cfg.intake = "stdin" \/ (PlaylistMode /\ lastSong = StdinName)

FileReturns == pc' = IF PlaylistMode THEN "track_done" ELSE "main_check"

\* Each entry into sendStream() starts from DONE.
CallSendStream == pc' = "fread" /\ ret' = "DONE"

Open ==
  /\ pc = "open"
  /\ resource_errors' = 0
  /\ IF IsStdin
     THEN filep' = "stdin" /\ UNCHANGED input
     ELSE filep' = (IF cfg.encoder THEN "pipe" ELSE "file") /\ input' \in 0..MaxBlocks
  /\ retval' = FALSE
  /\ CallSendStream
  /\ UNCHANGED <<cfg, flags, lists, stdinEOF, readError, net, disk>>

\* Mutants: one failure too many is allowed; failures never end the program.
TooManyErrors_OffByOne(n) == n > MaxErrors + 1
TooManyErrors_Never(n) == FALSE

TooManyErrors(n) == n > MaxErrors

\* No extension, no metadata, no decoder, or popen() or fopen() failed; for the
\* standard input only its metadata can fail.
OpenFails ==
  /\ pc = "open"
  /\ IsStdin => cfg.metadata
  /\ resource_errors' = resource_errors + 1
  /\ retval' = ~TooManyErrors(resource_errors')
  /\ FileReturns
  /\ UNCHANGED <<cfg, flags, ret, lists, resource, net, disk>>

CloseWith(v) == pc' = "close" /\ ret' = "DONE" /\ retval' = v

Returned ==
  /\ pc = "returned"
  /\ IF quit THEN CloseWith(retval)
     ELSE IF ret = "DONE" THEN CloseWith(TRUE)
     ELSE pc' = "drop_skip" /\ UNCHANGED <<ret, retval>>
  /\ UNCHANGED <<cfg, flags, resource_errors, lists, resource, net, disk>>

DropSkip ==
  /\ pc = "drop_skip"
  /\ IF skipTrack /\ (rereadPlaylist \/ queryMetadata)
     THEN skipTrack' = FALSE /\ ret' = "CONT"
     ELSE UNCHANGED <<skipTrack, ret>>
  /\ pc' = "drop_query"
  /\ UNCHANGED <<cfg, quit, rereadPlaylist, queryMetadata, retval, resource_errors,
                 lists, resource, net, disk>>

DropQuery ==
  /\ pc = "drop_query"
  /\ IF queryMetadata /\ rereadPlaylist
     THEN queryMetadata' = FALSE /\ ret' = "CONT"
     ELSE UNCHANGED <<queryMetadata, ret>>
  /\ pc' = "take_skip"
  /\ UNCHANGED <<cfg, quit, rereadPlaylist, skipTrack, retval, resource_errors,
                 lists, resource, net, disk>>

\* Mutant: what sendStream() returned is not looked at.
SkipTaken_FlagOnly == skipTrack

SkipTaken == ret = "SKIP" \/ skipTrack

TakeSkip ==
  /\ pc = "take_skip"
  /\ skipTrack' = FALSE
  /\ IF SkipTaken
     THEN retval' = TRUE /\ ret' = "DONE"
     ELSE UNCHANGED <<ret, retval>>
  /\ pc' = "take_query"
  /\ UNCHANGED <<cfg, quit, rereadPlaylist, queryMetadata, resource_errors,
                 lists, resource, net, disk>>

\* The test at the end of the do loop, reached by its continue as well.
LoopTest ==
  IF ret = "DONE" THEN CloseWith(retval) ELSE CallSendStream /\ UNCHANGED retval

\* Mutant: an interrupted call is taken for a lost server.
ServerTest_Cont == IF ret \in {"SERVERR", "CONT"} THEN CloseWith(FALSE) ELSE LoopTest

\* The last test inside the loop, then its end.
ServerTest == IF ret = "SERVERR" THEN CloseWith(FALSE) ELSE LoopTest

\* Mutant: what sendStream() returned is not looked at.
Asked_FlagOnly == queryMetadata

Asked == ret = "UPDMDATA" \/ queryMetadata

TakeQuery ==
  /\ pc = "take_query"
  /\ queryMetadata' = FALSE
  /\ IF Asked /\ cfg.no_updates THEN LoopTest ELSE ServerTest
  /\ UNCHANGED <<cfg, quit, rereadPlaylist, skipTrack, resource_errors,
                 lists, resource, net, disk>>

\* The metadata program failed, or the server refused what it said.
MetadataFails ==
  /\ pc = "take_query"
  /\ Asked /\ ~cfg.no_updates /\ cfg.metadata
  /\ queryMetadata' = FALSE
  /\ CloseWith(FALSE)
  /\ UNCHANGED <<cfg, quit, rereadPlaylist, skipTrack, resource_errors,
                 lists, resource, net, disk>>

\* Mutant: what has no pipe is not closed.
Close_PipeOnly ==
  /\ pc = "close"
  /\ filep' = (IF filep = "file" THEN filep ELSE "none") /\ input' = 0
  /\ readError' = IF filep = "stdin" THEN readError ELSE "none"
  /\ FileReturns
  /\ UNCHANGED <<cfg, flags, ret, retval, resource_errors, lists, stdinEOF, net, disk>>

\* The standard input is let go of without fclose(), and keeps its error.
Close ==
  /\ pc = "close"
  /\ filep' = "none" /\ input' = 0
  /\ readError' = IF filep = "stdin" THEN readError ELSE "none"
  /\ FileReturns
  /\ UNCHANGED <<cfg, flags, ret, retval, resource_errors, lists, stdinEOF, net, disk>>

--------------------------------------------------------------------------------
(* sendStream() *)

\* Behind the loop, however it was left: an error of the stream with errno EINTR is
\* taken for an interrupted read, and replaces what the loop has decided on.
SendReturns(r) ==
  /\ pc' = "returned"
  /\ \/ ret' = r /\ UNCHANGED readError
     \/ readError = "eintr" /\ readError' = "none" /\ ret' = "CONT"

HandlerRan == quit \/ rereadPlaylist \/ skipTrack \/ queryMetadata

\* fread() may fill its buffer in part before read() fails.  Without SA_RESTART errno
\* is then EINTR where a handler has run; with it, or for an error of the file, a
\* handler that runs later may leave EINTR behind, when it interrupts a sleep.
ReadBlock ==
  /\ pc = "fread"
  /\ IF filep = "stdin" THEN ~stdinEOF /\ UNCHANGED input
     ELSE input > 0 /\ input' = input - 1
  /\ readError' \in {readError, "other"} \cup (IF ~Restart /\ HandlerRan THEN {"eintr"} ELSE {})
  /\ pc' = "check"
  /\ UNCHANGED <<cfg, flags, ret, retval, resource_errors, lists, filep, stdinEOF, net, disk>>

\* End of file; what has ended on standard input stays ended.
ReadEnds ==
  /\ pc = "fread"
  /\ stdinEOF' \in (IF filep = "stdin" THEN {stdinEOF, TRUE} ELSE {stdinEOF})
  /\ SendReturns("DONE")
  /\ UNCHANGED <<cfg, flags, retval, resource_errors, lists, filep, input, net, disk>>

\* read() fails before it has got anything.
ReadFails ==
  /\ pc = "fread"
  /\ readError' = "other"
  /\ ret' = "DONE" /\ pc' = "returned"
  /\ UNCHANGED <<cfg, flags, retval, resource_errors, lists, supply, net, disk>>

\* So it does with EINTR: a handler has run.
ReadInterrupted ==
  /\ pc = "fread" /\ ~Restart /\ HandlerRan
  /\ readError' = "none"
  /\ ret' = "CONT" /\ pc' = "returned"
  /\ UNCHANGED <<cfg, flags, retval, resource_errors, lists, supply, net, disk>>

CheckConnection ==
  /\ pc = "check"
  /\ pc' = IF connected THEN "send" ELSE "reconnect"
  /\ tries' = 0
  /\ UNCHANGED <<cfg, flags, ret, retval, resource_errors, lists, resource, connected, disk>>

Send ==
  /\ pc = "send"
  /\ pc' = "poll"
  /\ UNCHANGED <<cfg, flags, ret, retval, resource_errors, lists, resource, net, disk>>

\* stream_send() disconnects; what is left of the resource is not sent.
SendFails ==
  /\ pc = "send"
  /\ connected' = FALSE /\ tries' = 0
  /\ pc' = "recover"
  /\ UNCHANGED <<cfg, flags, ret, retval, resource_errors, lists, resource, disk>>

\* Mutant: quit leaves the program from inside the loop.
PollQuit_Exits ==
  /\ pc = "poll" /\ quit /\ pc' = "exited"
  /\ UNCHANGED <<cfg, flags, ret, retval, resource_errors, lists, resource, net, disk>>

PollQuit ==
  /\ pc = "poll" /\ quit
  /\ SendReturns(ret)
  /\ UNCHANGED <<cfg, flags, retval, resource_errors, lists, supply, net, disk>>

PollSkip ==
  /\ pc = "poll" /\ ~quit /\ skipTrack
  /\ skipTrack' = FALSE
  /\ SendReturns("SKIP")
  /\ UNCHANGED <<cfg, quit, rereadPlaylist, queryMetadata, retval, resource_errors,
                 lists, supply, net, disk>>

\* Asked by USR2, or the refresh interval is over.
PollQuery ==
  /\ pc = "poll" /\ ~quit /\ ~skipTrack
  /\ queryMetadata \/ cfg.refresh
  /\ queryMetadata' = FALSE
  /\ IF cfg.metadata THEN SendReturns("UPDMDATA")
     ELSE pc' = "fread" /\ UNCHANGED <<ret, readError>>
  /\ UNCHANGED <<cfg, quit, rereadPlaylist, skipTrack, retval, resource_errors,
                 lists, supply, net, disk>>

PollNothing ==
  /\ pc = "poll" /\ ~quit /\ ~skipTrack /\ ~queryMetadata
  /\ pc' = "fread"
  /\ UNCHANGED <<cfg, flags, ret, retval, resource_errors, lists, resource, net, disk>>

--------------------------------------------------------------------------------
(* reconnect(), called before a send at "reconnect" and after a failed one at   *)
(* "recover".                                                                   *)

Reconnecting == pc \in {"reconnect", "recover"}

\* Mutant: the counter of attempts does not wrap.
NextTry_Wide == tries + 1

NextTry == (tries + 1) % UIntRange

TryConnects ==
  /\ Reconnecting /\ NextTry # 0
  /\ tries' = NextTry
  /\ connected' = TRUE
  /\ IF pc = "recover" THEN SendReturns(ret)
     ELSE pc' = "send" /\ UNCHANGED <<ret, readError>>
  /\ UNCHANGED <<cfg, flags, retval, resource_errors, lists, supply, disk>>

\* Mutant: one attempt too many.
LastTry_OffByOne == cfg.attempts > 0 /\ NextTry > cfg.attempts

LastTry == cfg.attempts > 0 /\ NextTry >= cfg.attempts

\* Mutant: the test of quit is missing.
GivesUp_NoQuit == LastTry

GivesUp == LastTry \/ quit

TryFails ==
  /\ Reconnecting /\ NextTry # 0
  /\ tries' = NextTry
  /\ connected' = FALSE
  /\ IF GivesUp THEN SendReturns("SERVERR") ELSE UNCHANGED <<pc, ret, readError>>
  /\ UNCHANGED <<cfg, flags, retval, resource_errors, lists, supply, disk>>

\* Without a limit the counter wraps to 0, which ends the loop.
TriesWrap ==
  /\ Reconnecting /\ NextTry = 0
  /\ tries' = 0
  /\ SendReturns("SERVERR")
  /\ UNCHANGED <<cfg, flags, retval, resource_errors, lists, supply, connected, disk>>

--------------------------------------------------------------------------------
(* The world around the program. *)

\* Between these points and the next nothing is called that could be interrupted.
Computing == pc \in {"check", "poll", "returned", "drop_skip", "drop_query", "take_skip"}

\* A call that a handler interrupts may leave EINTR in errno: those that sleep or
\* poll, with SA_RESTART as well.
Signal(s) ==
  /\ s \in cfg.signals /\ ~Stopped
  /\ readError' = IF readError = "other" /\ ~Computing THEN "eintr" ELSE readError

SigTerm ==
  /\ Signal("TERM") /\ quit' = TRUE
  /\ UNCHANGED <<pc, cfg, rereadPlaylist, skipTrack, queryMetadata, ret, retval,
                 resource_errors, lists, supply, net, disk>>

SigHup ==
  /\ Signal("HUP") /\ rereadPlaylist' = TRUE
  /\ UNCHANGED <<pc, cfg, quit, skipTrack, queryMetadata, ret, retval,
                 resource_errors, lists, supply, net, disk>>

SigUsr1 ==
  /\ Signal("USR1") /\ skipTrack' = TRUE
  /\ UNCHANGED <<pc, cfg, quit, rereadPlaylist, queryMetadata, ret, retval,
                 resource_errors, lists, supply, net, disk>>

SigUsr2 ==
  /\ Signal("USR2") /\ queryMetadata' = TRUE
  /\ UNCHANGED <<pc, cfg, quit, rereadPlaylist, skipTrack, ret, retval,
                 resource_errors, lists, supply, net, disk>>

EditPlaylist ==
  /\ ~Stopped /\ diskEdits < MaxEdits
  /\ diskList' \in Lists
  /\ diskEdits' = diskEdits + 1
  /\ UNCHANGED <<pc, cfg, flags, ret, retval, resource_errors, lists, resource, net>>

--------------------------------------------------------------------------------

MainStep == Connect \/ MainLoop \/ MainCheck \/ Shutdown

PlaylistStep ==
  \/ LoadPlaylist \/ LoadFails \/ RewindPlaylist
  \/ NextSong \/ EndOfList \/ TrackDone \/ Reread \/ RereadFails

FileStep ==
  \/ Open \/ OpenFails \/ Returned \/ DropSkip \/ DropQuery
  \/ TakeSkip \/ TakeQuery \/ MetadataFails \/ Close

SendStep ==
  \/ ReadBlock \/ ReadEnds \/ ReadFails \/ ReadInterrupted \/ CheckConnection
  \/ Send \/ SendFails \/ PollQuit \/ PollSkip \/ PollQuery \/ PollNothing

ReconnectStep == TryConnects \/ TryFails \/ TriesWrap

Step == MainStep \/ PlaylistStep \/ FileStep \/ SendStep \/ ReconnectStep

Environment == SigTerm \/ SigHup \/ SigUsr1 \/ SigUsr2 \/ EditPlaylist

\* The process is gone.
Gone == Stopped /\ UNCHANGED vars

Next == Step \/ Environment \/ Gone

Spec == Init /\ [][Next]_vars

\* The thread keeps running and its calls return; nobody has to send signals.
FairSpec == Spec /\ WF_vars(Step)

--------------------------------------------------------------------------------
(* Properties. *)

Points ==
  {"connect", "main", "main_check", "shutdown", "exited", "failed",
   "load", "next", "track_done", "reread",
   "open", "returned", "drop_skip", "drop_query", "take_skip", "take_query", "close",
   "fread", "check", "send", "poll", "reconnect", "recover"}

Handles == [program : BOOLEAN, list : Seq(Songs), index : Nat]

ControlOK ==
  /\ pc \in Points
  /\ cfg \in Configs
  /\ ret \in {"DONE", "CONT", "SKIP", "UPDMDATA", "SERVERR"}
  /\ retval \in BOOLEAN
  /\ resource_errors \in 0..(MaxErrors + 1)

FlagsOK ==
  /\ quit \in BOOLEAN /\ rereadPlaylist \in BOOLEAN
  /\ skipTrack \in BOOLEAN /\ queryMetadata \in BOOLEAN

PlaylistOK ==
  /\ playlist \in Handles \cup {NoPlaylist}
  /\ lastSong \in Songs \cup {NoSong}
  /\ diskList \in Lists /\ diskEdits \in 0..MaxEdits

StreamOK ==
  /\ filep \in {"none", "file", "pipe", "stdin"}
  /\ input \in 0..MaxBlocks /\ stdinEOF \in BOOLEAN
  /\ readError \in {"none", "other", "eintr"}
  /\ connected \in BOOLEAN /\ tries \in 0..(UIntRange - 1)

\* The type invariant.
TypeOK == ControlOK /\ FlagsOK /\ PlaylistOK /\ StreamOK

\* playlist_get_next() reads list[index] unchecked.  Over every order of walks,
\* wraps and rereads, streamPlaylist() calls it only with an index that is at
\* most the number of entries, where the NULL behind them still is.
CursorInBounds ==
  pc = "next" => playlist.index <= NumItems(playlist)

\* Once more than MaxErrors resources in a row could not be opened, streamFile()
\* and its callers wind down and no resource is tried again.
GiveUpIsFinal ==
  resource_errors > MaxErrors =>
    pc \in {"track_done", "main_check", "shutdown", "exited"}

\* A HUP that finds the playlist file as it was does not lose the place in it,
\* unless an entry occurs twice: then its first occurrence is taken for the place.
RereadKeepsPlace ==
  [][ /\ pc = "reread" /\ pc' = "next" /\ ~cfg.shuffle
      /\ playlist'.list = playlist.list
      /\ IsInjective(playlist.list)
      => playlist'.index = playlist.index ]_vars

\* When the reread playlist does not have the last song any more, streaming
\* "restarts from the beginning of the list" (doc/ezstream.1.in.in:104).
RestartsFromBeginning ==
  [][ /\ pc = "reread" /\ pc' = "next" /\ ~cfg.shuffle
      /\ \A k \in DOMAIN playlist'.list : playlist'.list[k] # lastSong
      => playlist'.index = 0 ]_vars

\* The order of play that a user sees.
Order == INSTANCE PlayOrder WITH
  kind <- CASE cfg.intake = "playlist" -> "list"
            [] cfg.intake = "program" -> "program"
            [] OTHER -> "single",
  shuffle <- cfg.shuffle,
  source <- filep,
  phase <- CASE pc = "connect" -> "off"
             [] Stopped -> "over"
             [] pc \in {"main", "main_check", "shutdown",
                        "load", "next", "track_done", "reread"} -> "between"
             [] OTHER -> "playing",
  list <- IF playlist = NoPlaylist THEN NoPlaylist ELSE playlist.list,
  pos <- IF playlist = NoPlaylist THEN 0
         ELSE IF AtEntry(playlist) THEN playlist.index ELSE NumItems(playlist),
  song <- lastSong,
  NoList <- NoPlaylist

\* streamPlaylist() and streamFile() play in that order: a list is started over
\* only when its last entry was begun; and what filep has is closed before the
\* next entry is begun and before the program leaves, on every way out of the loop.
InOrder == Order!Spec

\* INT or TERM ends the program, whatever it is doing: reconnecting without a
\* limit, opening one bad resource after the other or rereading its playlist.
QuitExits == quit ~> Stopped

\* A HUP is acted upon (doc/ezstream.1.in.in:99), unless the program ends first:
\* a track ends at last, and no entry that fails hides the flag for ever.
HupServed ==
  (rereadPlaylist /\ cfg.intake = "playlist" /\ cfg.attempts > 0)
    ~> (~rereadPlaylist \/ Stopped)

Listed(s) ==
  /\ pc = "next" /\ "HUP" \notin cfg.signals /\ cfg.attempts > 0
  /\ \E k \in DOMAIN playlist.list : playlist.list[k] = s

\* Every entry of a playlist that is not reread gets its turn, whichever of them
\* fail to open, break the connection or are skipped.
EveryEntryPlayed ==
  \A s \in Songs : Listed(s) ~> (lastSong = s \/ Stopped)
================================================================================
