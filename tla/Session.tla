--------------------------------- MODULE Session ---------------------------------
(***************************************************************************)
(* One ezstream process, from the command line and the configuration file   *)
(* (or the legacy file it was migrated from) to the tracks it opens: Launch *)
(* and Resource together, and what is to hold of both.                       *)
(***************************************************************************)
EXTENDS Resource

vars == <<launchVars, resourceVars>>

Init == LaunchInit /\ ResourceInit

Ended == pc = "exited" /\ UNCHANGED vars

Next ==
  \/ LaunchNext /\ UNCHANGED resourceVars
  \/ ResourceNext
  \/ Ended

Spec == Init /\ [][Next]_vars

--------------------------------------------------------------------------------
(* What a file says, read without reading it element by element. *)

\* Where a block gives an element a value, and the last that it gives; an empty one
\* is none.
Giving(block, e) == {i \in DOMAIN block : block[i][1] = e /\ block[i][2] # NoValue}
LastValue(block, e) ==
  IF Giving(block, e) = {} THEN NULL ELSE block[Max(Giving(block, e))][2]

NameOf(block) == IF Giving(block, "name") = {} THEN Default ELSE LastValue(block, "name")

\* A block without a name goes into the entry of the block behind it: an entry is the
\* last block of its name, and the blocks without a name directly before that.
Begins(blocks, last) ==
  Max({1} \cup {i \in 2..last : NameOf(blocks[i - 1]) # Default})
ValueAt(blocks, last, e) ==
  LET giving == {i \in Begins(blocks, last)..last : Giving(blocks[i], e) # {}}
  IN IF giving = {} THEN NULL ELSE LastValue(blocks[Max(giving)], e)

LastOfName(blocks, n) == Max({i \in DOMAIN blocks : NameOf(blocks[i]) = n})

\* What the file says of the stream, and of the server that it names.
OfStream(e) == ValueAt(file.stream, LastOfName(file.stream, Default), e)
OfServer(e) ==
  ValueAt(file.server, LastOfName(file.server, OrDefault(OfStream("server"))), e)

Given0(e) == LastValue(start.legacy.elements, e)
EncDec0(i, e) == LastValue(start.legacy.encdecs[i], e)

Ready == pc = "connect"

--------------------------------------------------------------------------------
(* Properties. *)

\* The type invariant; nothing is known of a track, and there is no command, where
\* none is to be.
TypeOK ==
  /\ pc \in {"migrate", "cmdline", "reload", "configure", "connect", "stream", "exited"}
  /\ start \in Starts
  /\ DOMAIN cfg = FileKinds /\ DOMAIN handle = HandleFields
  /\ connected \in BOOLEAN /\ status \in {NULL, 0, 1, 2}
  /\ (status # NULL) = (pc = "exited")
  /\ at \in {"idle", "ask", "parse", "build", "dup", "popen", "restore", "tell", "opened",
             "streaming", "close"}
  /\ isStdin \in BOOLEAN /\ popenFlag \in BOOLEAN /\ saved \in BOOLEAN
  /\ filep \in {"none", "stdin", "file", "pipe"} /\ open \in {"none", "file", "pipe"}
  /\ why \in {"open", "refresh"} /\ Len(answers) <= 4
  /\ err \in {"tty", "null"} /\ child \in {NULL, "tty", "null"}
  /\ err = "null" => saved
  /\ song \in DOMAIN Songs /\ seen \subseteq DOMAIN Songs
  /\ at \in {"idle", "streaming", "close"} => md = NULL
  /\ at \notin {"dup", "popen"} => cmd = NULL

\* Whichever of <protocol> and <tls> comes first or last in a file, a process that
\* is asked for https or required TLS never gets to connect without it, also
\* where libshout has no TLS (_stream_cfg_tls).
NeverPlaintext ==
  Ready /\ (OfServer("protocol") = "https" \/ OfServer("tls") = "required")
    => handle.tls \in {"rfc2818", "auto_no_plain"}

\* What libshout was told is what the file says of the stream and of the server it
\* names, with the documented defaults: through the lists, the setters, the
\* lookups by name and the getters (stream_configure).
ConfiguredAsWritten ==
  Ready =>
    /\ handle.host = OfServer("hostname")
    /\ handle.password = OfServer("password")
    /\ handle.port = IF OfServer("port") = NULL THEN 8000 ELSE Numerals[OfServer("port")]
    /\ handle.user = IF OfServer("user") = NULL THEN "source" ELSE OfServer("user")
    /\ handle.mount = OfStream("mountpoint")
    /\ handle.format = OfStream("format")
    /\ handle.public = (OfStream("public") \in {"true", "yes", "1"})
    /\ handle.name = OfStream("stream_name")
    /\ handle.description = OfStream("stream_description")
    /\ handle.bitrate = OfStream("stream_bitrate")
    /\ "tls" \in start.libshout => handle.ca_file = OfServer("ca_file")

\* The options that ask for something else than to stream, those that cannot be
\* followed, and whether one of a set is the first of all these.
Asking == {i \in DOMAIN start.args : start.args[i][1] \in {"h", "V"}}
Bad ==
  {i \in DOMAIN start.args :
     \/ start.args[i][1] \notin {"c", "h", "p", "q", "r", "s", "V", "v"}
     \/ /\ start.args[i][1] \in {"c", "p"}
        /\ start.args[i][2] \in {NoValue} \cup DOMAIN Truncated}
First(options) == \E i \in options : \A j \in 1..(i - 1) : j \notin Asking \cup Bad
Among(o, n) == \E i \in 1..n : start.args[i][1] = o
GivenOption(o) == Among(o, Len(start.args))

Begun == start.legacy = NULL \/ migrated # NULL

\* What the exit status tells a caller.  2: the command line cannot be followed; the
\* first option that ends the process decides.  0: help, the version or a shuffled
\* list was asked for, or the process had connected; from then on it is 0 whatever
\* fails, a list that cannot be read and a server that is gone among it, unless the
\* process ends inside a track, which is 1 as all that fails before connecting is
\* (main, cmdline_parse).
ExitStatus ==
  LET usage == First(Bad) \/ (~First(Asking) /\ ~GivenOption("c") /\ ~GivenOption("s"))
  IN pc = "exited" =>
       /\ (status = 2) = (Begun /\ usage)
       /\ status = 0 => connected \/ First(Asking) \/ GivenOption("s")
       /\ Begun /\ First(Asking) => status = 0
       /\ connected => (status = 0) = (at = "idle")

\* Nothing that ezstream-cfgmigrate printed has markup in it: what has is read as
\* another value, or spoils the file.
PrintedPlainly == Unmarked(Printed(migrated))

\* The configuration that ezstream-cfgmigrate prints is read again as the one it
\* has found, unless a value of it has markup or a decoder has lost its last extension
\* to a later one (cfgfile_xml_print, cfg_decoder_add_match).
MigratedIsRead ==
  pc = "reload" /\ migrated # NULL /\ PrintedPlainly =>
    LET read == ReadFile(file)
        usable == \A i \in DOMAIN migrated.decoder : migrated.decoder[i].file_ext # << >>
        same(old, new) ==
          /\ new = [old EXCEPT !.server = new.server]
          /\ Len(new.server) = Len(old.server)
          /\ \A i \in DOMAIN new.server :
               /\ GetPort(new.server[i]) = GetPort(old.server[i])
               /\ GetUser(new.server[i]) = GetUser(old.server[i])
               /\ GetTls(new.server[i]) = GetTls(old.server[i])
               /\ \A e \in {"hostname", "password", "reconnect_attempts"} :
                    new.server[i][e] = old.server[i][e]
    IN /\ file.state = "ok" /\ read.ok = usable
       /\ usable => same(migrated, read.cfg)

\* A migrated configuration streams what the legacy one did, to where it did and as
\* whom, but for values that no buffer holds, and where nothing that was printed has
\* markup (ezstream-cfgmigrate).
MigratedStreams ==
  Ready /\ migrated # NULL /\ PrintedPlainly =>
    LET url == UrlParts(Given0("url"))
    IN /\ handle.mount = url.mount
       /\ url.host \notin DOMAIN Truncated => handle.host = url.host
       /\ handle.port = IF IsNumber(url.port, 1, 65535) THEN Numerals[url.port] ELSE 8000
       /\ Given0("sourcepassword") \notin DOMAIN Truncated
            => handle.password = Given0("sourcepassword")
       /\ Given0("sourceuser") \notin DOMAIN Truncated
            => handle.user = IF Given0("sourceuser") = NULL THEN "source"
                             ELSE Given0("sourceuser")
       /\ handle.public = (Given0("svrinfopublic") # NULL /\ Numerals[Given0("svrinfopublic")] = 1)
       /\ Intake.filename = IF Given0("filename") = "stdin" THEN NULL ELSE Given0("filename")

\* Every <encdec> block has a format and an extension of its own; no format is called
\* default.
EncDecsDistinct ==
  \A i, j \in DOMAIN start.legacy.encdecs :
    /\ EncDec0(i, "format") \notin {NULL, Default}
    /\ \/ EncDec0(i, "match") = EncDec0(j, "match")
       \/ NewFormat(EncDec0(i, "format")) = NewFormat(EncDec0(j, "format"))
       => i = j

\* Every extension is decoded with the command it was decoded with, where each
\* <encdec> block is for a format and an extension of its own and nothing that was
\* printed has markup (ezstream-cfgmigrate).
MigratedDecodes ==
  Ready /\ migrated # NULL /\ PrintedPlainly /\ EncDecsDistinct =>
    \A i \in DOMAIN start.legacy.encdecs :
      EncDec0(i, "decode") # NULL /\ EncDec0(i, "match") # NULL =>
        cfg.decoder[FindExt(cfg.decoder, EncDec0(i, "match"))].program = EncDec0(i, "decode")

\* What a format string and the commands of a track mean, where a value is what a
\* shell is to read for it.
FormatMeans ==
  Substituted(Format,
    (Artist :> OrEmpty(md.artist)) @@ (Album :> OrEmpty(md.album))
      @@ (Title :> OrEmpty(md.title)) @@ (Track :> md.filename)
      @@ (String :> OrEmpty(md.songinfo)))

Value(text) == Escaped(Kept(OrEmpty(text)))

DecoderProgram == cfg.decoder[DecoderAt].program
EncoderProgram == cfg.encoder[EncoderAt].program
TitleAsked == Has(DecoderProgram, Title) \/ Has(EncoderProgram, Title)

CommandMeans(info) ==
  ShellWords(Substituted(Text[DecoderProgram] \o Pipe \o Text[EncoderProgram],
    (Artist :> Value(md.artist)) @@ (Album :> Value(md.album)) @@ (Title :> Value(md.title))
      @@ (Track :> Value(Text[name])) @@ (Metadata :> info)))

Commanded == at \in {"dup", "popen"}

\* What is known of a track is there when its command is made and the server told, and
\* there is a command when one is run.  The shell reads it as its template with the
\* values in place: whatever the characters of the names and titles, no value adds a
\* word, ends one, or stands for another value; one that is too long loses its end only.
\* For @M@ it is the string that was found or generated, which is not always what the
\* manual says it is (util_expand_words, util_shellquote, _build_reencode_cmd).
CommandReadsBack ==
  /\ at \in {"build", "dup", "popen", "tell"} => md # NULL
  /\ Commanded =>
       LET info == CASE Meta.program # NULL /\ Format # NULL -> Value(FormatMeans)
                     [] Meta.program = NULL /\ TitleAsked -> << >>
                     [] OTHER -> Value(md.songinfo)
           meant == CommandMeans(info)
       IN cmd # NULL /\ meant.complete /\ ShellWords(cmd) = meant

\* "If neither artist nor title are available, the name of the media file - without its
\* file extension - is used" (doc/ezstream.1.in.in:801) for @M@.
UntaggedIsNamed ==
  Commanded /\ Meta.program = NULL /\ ~TitleAsked /\ md.artist = NULL /\ md.title = NULL =>
    ShellWords(cmd) = CommandMeans(Value(NameFromFilename(Text[name])))

\* -q, and -r with it, silence the commands, and nothing else does: the options are
\* not lost when the configuration is read (openResource, cmdline_parse).
QuietCommands ==
  child # NULL =>
    child = IF GivenOption("q") \/ GivenOption("r") THEN "null" ELSE "tty"

\* Between two tracks nothing is left of the one before, whatever failed on the
\* way: no command or file is open, no descriptor, no metadata, and stderr is
\* where it was (openResource, streamFile).
AtRest ==
  pc = "stream" /\ at = "idle" =>
    /\ open = "none" /\ filep = "none"
    /\ err = "tty" /\ ~saved
    /\ md = NULL /\ cmd = NULL

\* May the server be told this?  Each answer of the metadata program is of any song
\* since it was asked; of a file there are its tags or its name.
MayTell(this) ==
  LET announced(artist, album, title, info, filename, fallback) ==
        IF Format # NULL
        THEN [song |-> Substituted(Format,
                (Artist :> artist) @@ (Album :> album) @@ (Title :> title)
                @@ (Track :> filename) @@ (String :> info))]
        ELSE IF artist # << >> /\ title # << >> THEN [artist |-> artist, title |-> title]
        ELSE [song |-> IF info # << >> THEN info ELSE fallback]
      base == NameFromFilename(Text[name])
      tags == Tags[name]
  IN CASE Meta.program # NULL ->
            \E of \in [1..4 -> seen] :
              this = announced(Songs[of[1]].artist, Songs[of[2]].album, Songs[of[3]].title,
                               Songs[of[4]].songinfo, Text[Meta.program], Unknown)
       [] Meta.program = NULL /\ name \notin DOMAIN Tags ->
            this = announced(<< >>, << >>, << >>, base, Text[name], base)
       [] OTHER ->
            this = announced(tags.artist, tags.album, tags.title,
                     SongInfo(OrNull(tags.artist), OrNull(tags.album), OrNull(tags.title)),
                     Text[name], base)

\* The server is told of the song that is played, and of a track that was opened:
\* never of the one before, of a failed one, or of nothing when a new answer was
\* got (stream_set_metadata and where it is called).
ToldIsOfTheSong ==
  [][ \/ told' # told
      \/ at = "tell" /\ at' \in {"opened", "streaming"} /\ ~Meta.no_updates
      => MayTell(told') /\ filep' # "none" /\ ~Meta.no_updates ]_vars
================================================================================
