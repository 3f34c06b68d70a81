--------------------------------- MODULE Resource ---------------------------------
(***************************************************************************)
(* One track (src/src/ezstream.c): openResource() with the metadata, the    *)
(* command that decodes and encodes, and the redirection of stderr, and     *)
(* streamFile() around it, which tells the server of the track and closes    *)
(* it.  Blocks of data, signals and reconnecting are in Ezstream.tla.        *)
(*                                                                          *)
(* The metadata program is asked four times; the song it speaks of may       *)
(* change at any time, as it is another program that plays.                  *)
(***************************************************************************)
EXTENDS Launch, Metadata

CONSTANTS
  Tracks,     \* entries of the playlist
  Tags,       \* what TagLib finds in the files it can read
  Songs       \* what the metadata program answers, song by song

VARIABLES
  at,         \* where streamFile() is
  name,       \* the track, or NULL
  isStdin, popenFlag,
  filep,      \* what the track is read from, or "none"
  open,       \* the command or the file that is open
  md,         \* the metadata handle, or NULL
  answers,    \* of the metadata program, so far
  why,        \* it is asked to "open" a track, or to "refresh"
  cmd,        \* the command line, or NULL
  saved,      \* a copy of the descriptor of stderr is open
  err,        \* where stderr goes to, and where it went for the last command
  child,
  song, seen, \* what is played now; and what was since the program was asked
  told        \* the metadata that the server has
resourceVars ==
  <<at, name, isStdin, popenFlag, filep, open, md, answers, why, cmd, saved, err, child,
    song, seen, told>>
mdVars == <<md, answers, why, seen>>
fileVars == <<popenFlag, filep, open>>
errVars == <<saved, err, child>>

ResourceInit ==
  /\ at = "idle" /\ name = NULL /\ isStdin = FALSE /\ popenFlag = FALSE
  /\ filep = "none" /\ open = "none" /\ md = NULL /\ answers = << >> /\ why = "open"
  /\ cmd = NULL /\ saved = FALSE /\ err = "tty" /\ child = NULL
  /\ song \in DOMAIN Songs /\ seen = {} /\ told = NULL

Meta == cfg.metadata[1]
Streaming == pc = "stream" /\ UNCHANGED launchVars

\* At any time; it only matters while the program is asked.
NextSong ==
  /\ Streaming /\ at = "ask"
  /\ song' \in DOMAIN Songs \ {song}
  /\ UNCHANGED <<at, name, isStdin, cmd, told, mdVars, fileVars, errVars>>

--------------------------------------------------------------------------------
(* openResource() *)

\* From the last dot of the path, whatever directory it is in; NULL if empty.  It
\* fits into its buffer here.
Extension(filename) ==
  LET dot == LastOf(".", Text[filename])
  IN IF dot = 0 THEN NULL ELSE Named(SubSeq(Text[filename], dot, Len(Text[filename])))

Ask(reason) == why' = reason /\ answers' = << >> /\ seen' = {}
NothingAsked == Ask("open")

\* A file without an extension is not opened, and nothing else happens.
StreamFile ==
  /\ Streaming /\ at = "idle"
  /\ name' \in (IF PlaylistMode THEN Tracks ELSE {Intake.filename})
  /\ isStdin' = (Intake.type = "stdin" \/ name' = "stdin")
  /\ ~isStdin' => Extension(name') # NULL
  /\ at' = CASE isStdin' /\ Meta.program = NULL -> "opened"
             [] Meta.program # NULL -> "ask"
             [] OTHER -> "parse"
  /\ filep' = IF at' = "opened" THEN "stdin" ELSE "none"
  /\ Ask("open")
  /\ UNCHANGED <<popenFlag, open, md, cmd, song, told, errVars>>

\* streamFile() returns, and its variables are gone.
Return ==
  /\ at' = "idle" /\ name' = NULL /\ isStdin' = FALSE /\ popenFlag' = FALSE
  /\ NothingAsked

\* The resource is not opened: streamFile() frees what was found out so far.
NotOpened ==
  /\ Return /\ md' = NULL
  /\ UNCHANGED <<filep, open, cmd, song, told, errVars>>

\* One more answer; the fourth makes the metadata.
Answer ==
  /\ Streaming /\ at = "ask"
  /\ seen' = seen \cup {song}
  /\ LET all == Append(answers, Songs[song][Questions[Len(answers) + 1]])
     IN IF Len(all) < 4 THEN answers' = all /\ UNCHANGED <<at, md>>
        ELSE /\ answers' = << >>
             /\ md' = ProgramOutput(Text[Meta.program], all)
             /\ at' = IF why = "open" /\ ~isStdin THEN "build" ELSE "tell"
  /\ UNCHANGED <<name, isStdin, why, cmd, song, told, fileVars, errVars>>

\* It may not be run, or one of its runs fails.
AskFails ==
  /\ Streaming /\ at = "ask" /\ why = "open"
  /\ NotOpened

RefreshFails ==
  /\ Streaming /\ at = "ask" /\ why = "refresh"
  /\ at' = "close" /\ md' = NULL
  /\ UNCHANGED <<name, isStdin, answers, why, cmd, song, seen, told, fileVars, errVars>>

\* An error when an answer is read ends the process.
AnswerUnreadable ==
  /\ pc = "stream" /\ at = "ask"
  /\ Exit(1)
  /\ UNCHANGED <<start, migrated, file, args, prog, cfg, connected, resourceVars>>

Parse ==
  /\ Streaming /\ at = "parse"
  /\ md' = ParsedFile(Text[name], IF name \in DOMAIN Tags THEN Tags[name] ELSE NULL)
  /\ at' = "build"
  /\ UNCHANGED <<name, isStdin, answers, why, cmd, song, seen, told, fileVars, errVars>>

ParseFails == Streaming /\ at = "parse" /\ NotOpened

\* What @M@ stands for: nothing if a command has the title on its own.
Info(dec, enc) ==
  IF Meta.program # NULL
  THEN ShellQuote(IF Meta.format_str # NULL THEN StrFormat(md, Text[Meta.format_str])
                  ELSE OrEmpty(md.songinfo))
  ELSE IF Has(dec, Title) \/ Has(enc, Title) THEN << >>
  ELSE ShellQuote(OrEmpty(md.songinfo))

Pipe == <<" ", "|", " ">>

Dict(dec, enc) ==
  (Artist :> ShellQuote(OrEmpty(md.artist))) @@ (Album :> ShellQuote(OrEmpty(md.album)))
    @@ (Title :> ShellQuote(OrEmpty(md.title))) @@ (Track :> ShellQuote(Text[name]))
    @@ (Metadata :> Info(dec, enc))

\* _build_reencode_cmd() with the programs of decoder and encoder.
ReencodeCmd(dec, enc) ==
  ExpandWords(Text[dec], Dict(dec, enc)) \o Pipe \o ExpandWords(Text[enc], Dict(dec, enc))

DecoderAt == FindExt(cfg.decoder, Extension(name))
EncoderAt == Find(cfg.encoder, Stream.encoder)

Build ==
  /\ Streaming /\ at = "build" /\ Stream.encoder # NULL
  /\ DecoderAt # 0 /\ EncoderAt # 0
  /\ cmd' = ReencodeCmd(cfg.decoder[DecoderAt].program, cfg.encoder[EncoderAt].program)
  /\ at' = IF prog.quiet THEN "dup" ELSE "popen"
  /\ UNCHANGED <<name, isStdin, song, told, mdVars, fileVars, errVars>>

CannotBuild ==
  /\ Streaming /\ at = "build" /\ Stream.encoder # NULL
  /\ DecoderAt = 0 \/ EncoderAt = 0
  /\ NotOpened

Fopen ==
  /\ Streaming /\ at = "build" /\ Stream.encoder = NULL
  /\ filep' = "file" /\ open' = "file" /\ at' = "opened"
  /\ UNCHANGED <<name, isStdin, popenFlag, cmd, song, told, mdVars, errVars>>

FopenFails == Streaming /\ at = "build" /\ Stream.encoder = NULL /\ NotOpened

\* dup(), then /dev/null over stderr; if either fails the process ends.
DupStderr ==
  /\ Streaming /\ at = "dup" /\ ~saved
  /\ saved' = TRUE
  /\ UNCHANGED <<at, name, isStdin, cmd, err, child, song, told, mdVars, fileVars>>

QuietStderr ==
  /\ Streaming /\ at = "dup" /\ saved
  /\ err' = "null" /\ at' = "popen"
  /\ UNCHANGED <<name, isStdin, cmd, saved, child, song, told, mdVars, fileVars>>

QuietFails ==
  /\ pc = "stream" /\ at = "dup"
  /\ Exit(1)
  /\ UNCHANGED <<start, migrated, file, args, prog, cfg, connected, resourceVars>>

Popen ==
  /\ Streaming /\ at = "popen"
  /\ \/ filep' = "pipe" /\ open' = "pipe" /\ popenFlag' = TRUE
     \/ filep' = "none" /\ UNCHANGED <<open, popenFlag>>
  /\ child' = err /\ cmd' = NULL /\ at' = "restore"
  /\ UNCHANGED <<name, isStdin, saved, err, song, told, mdVars>>

\* Mutant: stderr is only restored for a command that was started.
RestoresStderr_Started == prog.quiet /\ filep # "none"

RestoresStderr == prog.quiet

Restore ==
  /\ Streaming /\ at = "restore"
  /\ err' = IF RestoresStderr THEN "tty" ELSE err
  /\ saved' = FALSE
  /\ IF filep = "none" THEN Return /\ md' = NULL
     ELSE at' = "opened" /\ UNCHANGED <<name, isStdin, popenFlag, mdVars>>
  /\ UNCHANGED <<filep, open, cmd, child, song, told>>

--------------------------------------------------------------------------------
(* streamFile() *)

Format == IF Meta.format_str = NULL THEN NULL ELSE Text[Meta.format_str]

\* stream_set_metadata(); if it fails the server keeps what it has.
Tell == told' = IF Meta.no_updates THEN told ELSE Announced(md, Format)

\* The standard input is told of before it is opened.
TellStdin ==
  /\ Streaming /\ at = "tell" /\ why = "open"
  /\ Tell
  /\ filep' = "stdin" /\ at' = "opened"
  /\ UNCHANGED <<name, isStdin, popenFlag, open, cmd, song, mdVars, errVars>>

TellStdinFails ==
  /\ Streaming /\ at = "tell" /\ why = "open" /\ ~Meta.no_updates
  /\ NotOpened

\* MP3 streams are told of every track, with success or not.
Opened ==
  /\ Streaming /\ at = "opened"
  /\ \/ md # NULL /\ Stream.format = "mp3" /\ Tell
     \/ UNCHANGED told
  /\ md' = NULL /\ at' = "streaming" /\ NothingAsked
  /\ UNCHANGED <<name, isStdin, cmd, song, fileVars, errVars>>

\* A signal or the refresh interval.
Query ==
  /\ Streaming /\ at = "streaming"
  /\ ~Meta.no_updates /\ Meta.program # NULL
  /\ at' = "ask" /\ Ask("refresh")
  /\ UNCHANGED <<name, isStdin, md, cmd, song, told, fileVars, errVars>>

TellRefresh ==
  /\ Streaming /\ at = "tell" /\ why = "refresh"
  /\ Tell
  /\ md' = NULL /\ at' = "streaming" /\ NothingAsked
  /\ UNCHANGED <<name, isStdin, cmd, song, fileVars, errVars>>

TellRefreshFails ==
  /\ Streaming /\ at = "tell" /\ why = "refresh"
  /\ md' = NULL /\ at' = "close"
  /\ UNCHANGED <<name, isStdin, answers, why, cmd, song, seen, told, fileVars, errVars>>

TrackEnds ==
  /\ Streaming /\ at = "streaming"
  /\ at' = "close"
  /\ UNCHANGED <<name, isStdin, cmd, song, told, mdVars, fileVars, errVars>>

\* Mutant: a command is left for what a file is.
Closes_File == IF isStdin THEN "none" ELSE "file"

\* Which of pclose() and fclose() is called.
Closes == IF popenFlag THEN "pipe" ELSE IF ~isStdin THEN "file" ELSE "none"

Close ==
  /\ Streaming /\ at = "close"
  /\ open' = IF Closes = open THEN "none" ELSE open
  /\ filep' = "none" /\ Return
  /\ UNCHANGED <<md, cmd, song, told, errVars>>

\* main() has streamed enough.
Leave ==
  /\ pc = "stream" /\ at = "idle"
  /\ Exit(0)
  /\ UNCHANGED <<start, migrated, file, args, prog, cfg, connected, resourceVars>>

ResourceNext ==
  \/ NextSong \/ StreamFile
  \/ Answer \/ AskFails \/ RefreshFails \/ AnswerUnreadable \/ Parse \/ ParseFails
  \/ Build \/ CannotBuild \/ Fopen \/ FopenFails
  \/ DupStderr \/ QuietStderr \/ QuietFails \/ Popen \/ Restore
  \/ TellStdin \/ TellStdinFails \/ Opened \/ Query \/ TellRefresh \/ TellRefreshFails
  \/ TrackEnds \/ Close \/ Leave
================================================================================
