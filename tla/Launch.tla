--------------------------------- MODULE Launch ---------------------------------
(***************************************************************************)
(* How an ezstream process comes to stream: its command line                *)
(* (src/src/cmdline.c), main() (src/src/ezstream.c), and the settings of    *)
(* the libshout handle (src/src/stream.c).  The configuration file is one   *)
(* that was written by hand, or what ezstream-cfgmigrate printed for a      *)
(* legacy file.                                                             *)
(***************************************************************************)
EXTENDS XmlFile, Legacy

CONSTANTS
  Starts,      \* how a process may be started: legacy file, file, options, libshout
  Unreadable   \* the paths of files that cannot be read

IsSequence(s) == s \in Seq({s[i] : i \in DOMAIN s})

\* A command line is a list of options; those that take a file name have one.  A file
\* is lists of blocks, and a block a list of elements, as a legacy file is.
ASSUME LaunchAssumption ==
  \A s \in Starts :
    /\ IsSequence(s.args)
    /\ s.legacy # NULL =>
         /\ IsSequence(s.legacy.elements) /\ IsSequence(s.legacy.encdecs)
         /\ Len(s.legacy.encdecs) <= MAX_FORMAT_ENCDEC
         /\ \A i \in DOMAIN s.legacy.encdecs : IsSequence(s.legacy.encdecs[i])
    /\ \A i \in DOMAIN s.args : s.args[i][1] \in {"c", "s"} => s.args[i][2] # NULL
    /\ \A k \in FileKinds :
         IsSequence(s.file[k]) /\ \A i \in DOMAIN s.file[k] : IsSequence(s.file[k][i])

\* An exit status is not NULL.
ASSUME StatusAssumption == NULL \notin {0, 1, 2}

VARIABLES
  pc,         \* what the process is doing
  start,      \* how it was started
  migrated,   \* the settings that ezstream-cfgmigrate found, or NULL
  file,       \* the configuration file
  args,       \* the options that are still to be looked at
  prog,       \* struct cfg_program
  cfg,        \* the configuration in force
  handle,     \* what libshout was told
  connected,  \* the process was connected to the server
  status      \* exit status, or NULL
launchVars == <<pc, start, migrated, file, args, prog, cfg, handle, connected, status>>

HandleFields ==
  {"protocol", "host", "port", "user", "password", "tls", "ca_dir", "ca_file",
   "client_cert", "ciphers", "mount", "format", "public", "name", "url", "genre",
   "description", "quality", "bitrate", "samplerate", "channels"}

NewHandle == [f \in HandleFields |-> NULL]

LaunchInit ==
  /\ start \in Starts
  /\ pc = IF start.legacy # NULL THEN "migrate" ELSE "cmdline"
  /\ file = start.file /\ args = start.args
  /\ migrated = NULL
  /\ prog = [config_file |-> NULL, pid_file |-> NULL, shuffle_file |-> NULL,
             quiet |-> FALSE, rtstatus |-> FALSE, verbosity |-> 0]
  /\ cfg = EmptyCfg /\ handle = NewHandle /\ connected = FALSE /\ status = NULL

\* ez_shutdown(), and exit() with a status.
Exit(n) == pc' = "exited" /\ status' = n /\ handle' = NewHandle

--------------------------------------------------------------------------------
(* ezstream-cfgmigrate *)

\* The file that cfgfile_xml_print() makes of a configuration, as it is read.
PrintedFile(c) ==
  [part \in FileKinds \cup {"state"} |->
     IF part # "state" THEN Parsed(Printed(c))[part]
     ELSE IF WellFormed(Printed(c)) THEN "ok" ELSE "malformed"]

Migrate ==
  LET new == Migrated(ParseConfig(start.legacy))
  IN /\ pc = "migrate" /\ new # NULL
     /\ pc' = "cmdline"
     /\ migrated' = new
     /\ file' = PrintedFile(new)
     /\ UNCHANGED <<start, args, prog, cfg, handle, connected, status>>

MigrateFails ==
  /\ pc = "migrate" /\ Migrated(ParseConfig(start.legacy)) = NULL
  /\ Exit(1)
  /\ UNCHANGED <<start, migrated, file, args, prog, cfg, connected>>

--------------------------------------------------------------------------------
(* cmdline_parse() *)

\* Mutant: a file name that was not accepted does not stop anything.
OptionRefused_Long(opt, arg) == opt \notin {"c", "h", "p", "q", "r", "s", "V", "v"}

OptionRefused(opt, arg) ==
  \/ opt \in {"c", "p"} /\ ~FitsBuffer(arg)
  \/ opt \notin {"c", "h", "p", "q", "r", "s", "V", "v"}

\* Mutant: -r does not go on to what -q does.
OptionSets_Break(p, opt, arg) ==
  CASE opt = "c" -> [p EXCEPT !.config_file = arg]
    [] opt = "p" -> [p EXCEPT !.pid_file = arg]
    [] opt = "r" -> [p EXCEPT !.rtstatus = TRUE]
    [] opt = "q" -> [p EXCEPT !.quiet = TRUE]
    [] opt = "s" -> [p EXCEPT !.shuffle_file = arg]
    [] opt = "v" -> [p EXCEPT !.verbosity = @ + 1]

OptionSets(p, opt, arg) ==
  CASE opt = "c" -> [p EXCEPT !.config_file = arg]
    [] opt = "p" -> [p EXCEPT !.pid_file = arg]
    [] opt = "r" -> [p EXCEPT !.rtstatus = TRUE, !.quiet = TRUE]
    [] opt = "q" -> [p EXCEPT !.quiet = TRUE]
    [] opt = "s" -> [p EXCEPT !.shuffle_file = arg]
    [] opt = "v" -> [p EXCEPT !.verbosity = @ + 1]

ParseOption ==
  /\ pc = "cmdline" /\ args # << >>
  /\ LET opt == Head(args)[1]
         arg == Head(args)[2]
     IN /\ opt \notin {"h", "V"} /\ ~OptionRefused(opt, arg)
        /\ prog' = OptionSets(prog, opt, arg)
  /\ args' = Tail(args)
  /\ UNCHANGED <<pc, start, migrated, file, cfg, handle, connected, status>>

\* The rest of the command line is not looked at.
HelpOrVersion ==
  /\ pc = "cmdline" /\ args # << >> /\ Head(args)[1] \in {"h", "V"}
  /\ Exit(0)
  /\ UNCHANGED <<start, migrated, file, args, prog, cfg, connected>>

BadOption ==
  /\ pc = "cmdline" /\ args # << >> /\ OptionRefused(Head(args)[1], Head(args)[2])
  /\ Exit(2)
  /\ UNCHANGED <<start, migrated, file, args, prog, cfg, connected>>

\* -s: the playlist is shuffled and printed, or it cannot be read.
ShuffleFile ==
  /\ pc = "cmdline" /\ args = << >> /\ prog.shuffle_file # NULL
  /\ \E n \in {0, 1} : Exit(n)
  /\ UNCHANGED <<start, migrated, file, args, prog, cfg, connected>>

NoConfigFile ==
  /\ pc = "cmdline" /\ args = << >> /\ prog.shuffle_file = NULL
  /\ prog.config_file = NULL
  /\ Exit(2)
  /\ UNCHANGED <<start, migrated, file, args, prog, cfg, connected>>

CommandLineDone ==
  /\ pc = "cmdline" /\ args = << >> /\ prog.shuffle_file = NULL
  /\ prog.config_file # NULL
  /\ pc' = "reload"
  /\ UNCHANGED <<start, migrated, file, args, prog, cfg, handle, connected, status>>

--------------------------------------------------------------------------------
(* cfg_file_reload(), as main() calls it *)

\* Missing, world writable, not XML, empty, not of ezstream; or a refused element.
FileOk == file.state = "ok" /\ ReadFile(file).ok

Reload ==
  /\ pc = "reload" /\ FileOk
  /\ cfg' = ReadFile(file).cfg
  /\ pc' = "configure"
  /\ UNCHANGED <<start, migrated, file, args, prog, handle, connected, status>>

ReloadFails ==
  /\ pc = "reload" /\ ~FileOk
  /\ Exit(1)
  /\ UNCHANGED <<start, migrated, file, args, prog, cfg, connected>>

--------------------------------------------------------------------------------
(* stream_configure() *)

OrDefault(name) == IF name = NULL THEN Default ELSE name

Stream == cfg.stream[Find(cfg.stream, Default)]

\* stream_get_cfg_intake() adds an entry for an intake that is not there.
Intakes == Got("intake", cfg.intake, OrDefault(Stream.intake))
Intake == Intakes[Find(Intakes, OrDefault(Stream.intake))]

ServerAt == Find(cfg.server, OrDefault(Stream.server))

\* Mutant: the user of the file is not used.
ServerHandle_NoUser(s) ==
  [protocol |-> IF s.protocol = "https" THEN "http" ELSE s.protocol,
   host |-> s.hostname, port |-> GetPort(s), user |-> "source", password |-> s.password]

ServerHandle(s) ==
  [protocol |-> IF s.protocol = "https" THEN "http" ELSE s.protocol,
   host |-> s.hostname, port |-> GetPort(s), user |-> GetUser(s), password |-> s.password]

TlsMode(s) ==
  CASE GetTls(s) = "none" -> "disabled"
    [] GetTls(s) = "may" -> "auto"
    [] GetTls(s) = "required" ->
         IF s.protocol = "https" THEN "rfc2818" ELSE "auto_no_plain"

\* A libshout without TLS is told nothing of it.
TlsHandle(s) ==
  [tls |-> TlsMode(s), ca_dir |-> s.ca_dir, ca_file |-> s.ca_file,
   client_cert |-> s.client_cert, ciphers |-> s.tls_cipher_suite]

TlsAccepted(s) ==
  IF "tls" \in start.libshout
  THEN {s.ca_dir, s.ca_file, s.client_cert} \cap Unreadable = {}
  ELSE GetTls(s) # "required"

StreamHandle(s) ==
  [mount |-> s.mountpoint, format |-> s.format, public |-> s.public,
   name |-> s.stream_name, url |-> s.stream_url, genre |-> s.stream_genre,
   description |-> s.stream_description, quality |-> s.stream_quality,
   bitrate |-> s.stream_bitrate, samplerate |-> s.stream_samplerate,
   channels |-> s.stream_channels]

\* libshout takes no mountpoint for none.
StreamAccepted(s) ==
  s.mountpoint # NULL /\ (s.format = "matroska" => "matroska" \in start.libshout)

Configurable ==
  /\ Find(cfg.stream, Default) # 0
  /\ ServerAt # 0
  /\ cfg.server[ServerAt].protocol = "roaraudio" => "roaraudio" \in start.libshout
  /\ TlsAccepted(cfg.server[ServerAt])
  /\ StreamAccepted(Stream)
  /\ IntakeValid(Intake)

ConfiguredHandle ==
  LET server == ServerHandle(cfg.server[ServerAt])
      stream == StreamHandle(Stream)
      tls == TlsHandle(cfg.server[ServerAt])
  IN [f \in HandleFields |->
        CASE f \in DOMAIN server -> server[f]
          [] f \in DOMAIN stream -> stream[f]
          [] "tls" \in start.libshout /\ f \in DOMAIN tls -> tls[f]
          [] OTHER -> NULL]

Configure ==
  /\ pc = "configure" /\ Configurable
  /\ handle' = ConfiguredHandle
  /\ cfg' = [cfg EXCEPT !.intake = Intakes]
  /\ pc' = "connect"
  /\ UNCHANGED <<start, migrated, file, args, prog, connected, status>>

\* The handle is a new one again, and thrown away; so if libshout has no memory.
ConfigureFails ==
  /\ pc = "configure"
  /\ Exit(1)
  /\ UNCHANGED <<start, migrated, file, args, prog, cfg, connected>>

--------------------------------------------------------------------------------
(* main(): a PID file that cannot be written is only warned about. *)

Connect ==
  /\ pc = "connect"
  /\ pc' = "stream" /\ connected' = TRUE
  /\ UNCHANGED <<start, migrated, file, args, prog, cfg, handle, status>>

ConnectFails ==
  /\ pc = "connect"
  /\ Exit(1)
  /\ UNCHANGED <<start, migrated, file, args, prog, cfg, connected>>

EndsWith(name, text) == IsSuffix(text, Text[name])

PlaylistMode ==
  \/ Intake.type \in {"program", "playlist"}
  \/ /\ Intake.type = "autodetect"
     /\ \/ EndsWith(Intake.filename, <<".", "m", "3", "u">>)
        \/ EndsWith(Intake.filename, <<".", "t", "x", "t">>)

LaunchNext ==
  \/ Migrate \/ MigrateFails
  \/ ParseOption \/ HelpOrVersion \/ BadOption \/ ShuffleFile \/ NoConfigFile
  \/ CommandLineDone
  \/ Reload \/ ReloadFails \/ Configure \/ ConfigureFails \/ Connect \/ ConnectFails
================================================================================
