# A model of ezstream

ezstream is a command-line source client for Icecast servers.  It connects to one server, takes
its input from a file, a playlist, a playlist program or the standard input, optionally decodes and
encodes it with external programs, and sends it until the input ends or a signal stops it.  It is a
single-threaded C program of about 6000 lines; what makes it hard is that four signals may arrive at
any point, that everything it calls may fail, and that it runs for months.

This directory has TLA+ modules that model its logic, TLC configurations that check them, and proofs
for TLAPS.  `tlc -config X.cfg M` checks a run, `tlapm M.tla` the proofs of a module; all paths of
code below are relative to the repository (`src/ezstream.c` is the C file).

## The system

| Component | State | Operations | Interaction | What makes it correct |
|---|---|---|---|---|
| Streaming loop and signals (`src/ezstream.c`) | four `sig_atomic_t` flags, `resource_errors`, `playlistMode`, the open input, the playlist handle, the name of the last song | `main`, `streamPlaylist`, `streamFile`, `openResource`, `sendStream`, `reconnect`, `setMetadata`, `sig_handler` | calls every other component; the flags are set by the handler at any instruction | quits promptly; serves every HUP; plays every entry in order; gives up at its limits and for no other reason; closes what it opens |
| Playlist (`src/playlist.c`) | an array of strings with a count, a capacity, an index, a NULL at its end; or a program | read, program, free, get_next, skip_next, get_position, goto_entry, rewind, reread, shuffle | called by the streaming loop; reads a file or runs a program | never reads behind its NULL; is the list the file has; survives a failed reread; shuffles without losing an entry |
| Stream (`src/stream.c`) | a libshout handle, its settings | configure, connect, disconnect, send, sync, set_metadata | called by the streaming loop; reads the configuration | settings are those of the configuration, TLS above all; the server is told of the song that is played; a failed send disconnects |
| Configuration store (`src/cfg*.c`) | the configuration in force, the saved one; lists of named servers, streams, intakes, decoders, encoders | init, reload (save, load, restore or commit), list get/find, setters, validators | filled by the XML parser, read by all | names are unique; one decoder per extension; a refused file changes nothing |
| XML file (`src/cfgfile_xml.c`) | none of its own | parse, print | fills the store | what it accepts is complete; what it prints it reads again, unless a value has markup |
| Metadata (`src/mdata.c`) | artist, album, title, song info, length, source | parse_file, run_program, refresh, strformat | runs the metadata program, once per field; used by the streaming loop | what is told is of one file, or of songs since the program was asked; nothing is kept of a failure |
| Utilities (`src/util.c`) | path, handle and owner of the pid file | write_pid_file and its exit handler, expand_words, shellquote, strrcmp, character sets | pid file shared with other instances; text helpers for the loop | the lock is exclusive; no wrong pid is left behind |
| Command line (`src/cmdline.c`) | `struct cfg_program` | parse, an option at a time | called by `main`; writes into the store; `-s` shuffles a playlist and ends | the first option that ends the program decides; options survive the configuration file |
| Migration (`src/ezconfig0.c`, `src/ezstream-cfgmigrate.c`) | the settings of version 0.x | parse a legacy file, translate, print | uses the setters and the printer; ezstream reads the output | streams to where the old file did, with the commands it had |
| Logging, allocation (`src/log.c`, `xalloc.c`) | the output level | print; allocate or exit | called by all | |
| `ezstream-file.sh`, `compat/` | | wrapper script, libc replacements | | |

The hard behaviours: signals between any two steps, and several pending at once, tested one after the
other; a connection that is lost inside a track and comes back, or does not, while a signal is
pending; a playlist file that is edited while its list is walked; loops that must end on `quit` although
they have limits of their own; rereads that fail half-way; instances that share a pid file; blocks of
a configuration file that all start from the entry called `default`; settings that go through a list, a setter, a default, a getter and
perhaps a printed file before they reach libshout; text that is expanded, quoted, expanded again and then read by a shell; a redirected stderr, a metadata
handle and a command that must all be gone when opening a track fails half-way; a metadata program that is asked four times while the song changes.  `PROJECT.json` lists them as
hazards, each at the line where it bites with the properties that guard it.

## Modules

| Module | Models | Lines of code |
|---|---|---|
| `PlaylistOps` | the operations on a playlist handle, as operators on a record `[program, list, index]`; used by the four below | `playlist.c` |
| `PlaylistCursor` | what `playlist.h` promises: a list and a cursor; one step per call | `playlist.h` |
| `Playlist`, `PlaylistProofs` | the array: slots, capacity, doubling, NULL at the end, a line and a swap at a time; refines `PlaylistCursor`, which is proved | `playlist.c` 41-436 |
| `Ezstream` | the program from its first connection to its exit, and the signal handler | `ezstream.c` 49-91, 215-836 |
| `PlayOrder` | the order of play that a user sees; `Ezstream` refines it | |
| `EzstreamHistory` | `Ezstream` with history variables for properties over several steps | |
| `EzstreamProofs`, `EzstreamHistoryProofs` | proofs about the three | |
| `PidFile`, `PidFileProofs` | `util_write_pid_file()` and its exit handler in several instances at once | `util.c` 134-214 |
| `CfgFile`, `CfgFileProofs` | `cfg_file_reload()` and what the parser does to the lists | `cfg.c` 45-134, `cfgfile_xml.c` 51-536, `cfg_server.c`, `cfg_decoder.c` |
| `ShellText` | texts with placeholders, expansion, quoting; and how a shell reads a command | `util.c` 253-376 |
| `Metadata` | what is known of a track, and what is made of it for the server | `mdata.c`, `stream.c` |
| `Settings` | the elements of every kind of entry, setters, validation, lists | `cfg.c`, `cfg_server.c`, `cfg_stream.c`, `cfg_intake.c`, `cfg_decoder.c`, `cfg_encoder.c` |
| `XmlFile` | what a file with given values is read as, and what a configuration is printed as | `cfgfile_xml.c` |
| `Legacy` | the file of version 0.x and what it becomes | `ezconfig0.c`, `ezstream-cfgmigrate.c` |
| `Launch` | from the command line to the connection | `cmdline.c`, `ezstream.c` `main`, `stream.c` `stream_configure` |
| `Resource` | one track: metadata, command, redirection, what the server is told | `ezstream.c` `openResource`, `streamFile` |
| `Session`, `SessionProofs` | `Launch` and `Resource` as one process, its properties and proofs about its control | |
| `FoldLaws` | what a fold over a sequence is, element by element, for any operation; taken by `INSTANCE` | |
| `ValueProofs` | proofs about the values of `Session`: from the file to libshout, and into the shell | |
| `MC*` | sets of values for TLC | |

Definitions that begin with the name of another and an underscore, under a comment *Mutant*, are wrong
variants of it.  No specification uses them: putting one in the place of the original makes a run fail, which shows
that its property can.

### Playlist

`Playlist` keeps one handle at the level of its memory: `list` is an array of slots of which some hold
garbage after a reallocation, some NULL.  `playlist_read()` and `playlist_shuffle()` take a step per line
and per swap, so that a failure may strike between any two.  A line is a song or one of the lines the parser
drops.  `playlist_get_next()` on a program runs it, with any song or a failure as the result.  Its refinement
`IsCursor` says that in spite of all this a caller sees a list with a cursor, the same one the streaming loop is
modelled with: `Ezstream` uses the operators of `PlaylistOps` in one step each, which the refinement justifies.
`PlaylistAssumption` says of the constants that a NULL slot, garbage, a dropped line and an entry are told apart, and that NULL is not a handle:
what the types of C say by themselves.

### Ezstream

`pc` names points of the program: those of `main` (`connect`, `main`, `main_check`, `shutdown`), `streamPlaylist`
(`load`, `next`, `track_done`, `reread`), `streamFile` (`open`, `returned`, `drop_skip`, `drop_query`, `take_skip`,
`take_query`, `close`), `sendStream` (`fread`, `check`, `send`, `poll`) and `reconnect` (`reconnect`, `recover`).
`ret` and `retval` are the results that C returns from one to the other.  An action takes the program from one point to
the next; on the way it looks at each flag at most once, and flags are only ever set by the handler, so a signal
between two points stands for every arrival on the way.  `streamFile()` tests `skipTrack`, `rereadPlaylist` and `queryMetadata` in several `if`s in
a row, so each of these is a point of its own.

What is called may fail each time: opening, reading, connecting, sending, metadata.  A resource is a
number of buffers.  `readError` is `ferror()` of the stream together with what `errno` may be.  `fread()` may fill its buffer in part before its `read()` fails or is
interrupted; the buffer is then sent and the error found behind the loop, whatever made the loop end: if `errno` is EINTR by then, lines 518-521 of `ezstream.c` replace
the result by STREAM_CONT (`SendReturns`), a STREAM_SKIP or STREAM_UPDMDATA whose flag is already clear among them.  Without SA_RESTART (`Restart = FALSE`) the interrupted
`read()` itself leaves EINTR; with it, or for an error of the file, a handler may do so later, when it interrupts a call that sleeps.  `cfg` has the settings the control flow depends on; all of them are explored.  The playlist file is
`diskList`, edited by `EditPlaylist` at any time.

Abstractions: the file is read in one step (`Playlist` takes it line by line); `rereadPlaylist_notify` gates a line of the log
only and is left out; time
is not measured, so `metadata_refresh_interval` may fire after any buffer; the sleep in `reconnect()` ends
at once.  Server-side settings and the text of metadata are not in this module.

`PlayOrder` is the order of play without the program's points: its `source` is what is open, which `Ezstream` maps to `filep` and not to a place in the code.  It goes from
nothing to something only inside an entry, and an entry is over only when it is nothing again, so the refinement `InOrder` says that each resource is closed before the next is opened and before the program leaves.

### PidFile

Instances with one path and the files (inodes) that have been at it.  Each call into the kernel is a step:
`fopen`, `fprintf`/`fflush`, `flock`, `atexit`, `unlink`, `fclose`.  A lock belongs to an open file; a program run by
`popen()` inherits it and may outlive its instance (`child`).  `Kill` is any death without exit handlers.
`main()` calls `util_write_pid_file()` once; what a second call would do in one process is not modelled.

### CfgFile

A file is read element by element, and since each element may be any the parser knows, every file is a
behaviour.  One kind of entry (`server`) stands for servers, streams, intakes and encoders, whose list code is the same; `decoder` has
extensions besides.  Of an element's value only the block it came from is kept, which is what tells a leftover of an earlier block or load
from a fresh value.  `ElementRefused` covers every check of a value, the placeholders of a
command line among them.  The `<metadata>` element has no list and is left out here; it and the values themselves are in `Settings` and `XmlFile`.

### Session

`Session` is a process from its command line to its last track.  `CfgFile` asks what *any* sequence of blocks and reloads does to the lists;
`Ezstream` what any sequence of signals and failures does to the loop; `Session` follows the *values* from the file, through the
program, to libshout, to the metadata and to the shell.  It is made of seven modules, of which five have no state:

- `ShellText`: a text is a sequence of characters.  `ExpandWords` is `util_expand_words()`, which goes from the last character of
  the template to the first and looks for a placeholder at the start of what it has so far; `ShellQuote` is `util_shellquote()` with its limit.
  `ShellWords`, `Escaped`, `Kept` and `Substituted` are the reference: how `sh` splits a command, a value with every character
  escaped, the longest beginning that may be kept, and substitution from left to right.
- `Metadata`: `struct mdata` as a record, `mdata_parse_file()` of what TagLib finds, `mdata_run_program()` of four answers,
  `mdata_strformat()`, and the choice `stream_set_metadata()` makes.
- `Settings`: `Setter` gives each element of each kind the class of its setter, and `Accepts`, `Converted` and `Set` say what each class
  accepts and stores; a refused value that is too long leaves its beginning in the buffer, as `strlcpy()` does.
- `XmlFile`: a file is a sequence of blocks per kind, a block a sequence of elements.  `ReadFile` folds the setters over it, from
  the entry called `default` on, with validation at the end of each block.  `Printed` is the converse for each kind.  It puts values down as they are, as the code does;
  `Parsed` is what libxml2 makes of them: a value of `Markup` spoils the file, unless it is one of those that leave it well-formed (an entity, a comment) and are read as another value, `ReadAs`.
- `Legacy`: `ParseConfig` (duplicates, checks, and the empty configuration that an error leaves), `UrlParts`, and each setting that
  `_parse_ezconfig0()` makes, in its order; `AddEncoder` and `AddDecoder` for each `<encdec>` block, of which there are at most the 15 the code's
  array has room for (`MAX_FORMAT_ENCDEC`).
- `Launch` (`pc`, `args`, `prog`, `file`, `cfg`, `handle`, `status`): the migration if the process starts from a legacy file, `cmdline_parse()` an option at a
  time, `cfg_file_reload()`, `stream_configure()`, the first connection; each with its failures and exit statuses.
- `Resource` (`at`, `name`, `filep`, `open`, `md`, `answers`, `cmd`, `saved`, `err`, `told`): `openResource()` with every early return, a run of the metadata program per
  step with `NextSong` between, the command, the redirection of stderr around `popen()`, and the metadata in `streamFile()`.  `filep` is the variable of C
  and `open` what really is open; `child` is where the stderr of the last command went.

Abstractions: values are strings of which `Text` gives the characters where the code looks into them; `Truncated` has those that no fixed
buffer holds; texts are taken as converted to the right character set; `"http://"` is one character, as only its
presence is tested; case is folded where the code compares without it.  Buffers, signals and reconnecting are `Ezstream`'s: here a track ends, or is queried, at any time.
How libshout was built (`tls`, `roaraudio`, `matroska`) is part of `Starts`.

## Runs

| Run | Shows | States |
|---|---|---|
| `playlist` | `Terminated`: there is always a slot for the NULL and it is there, through two reallocations; `ReadKeepsFile`: dropped lines cost no entry; `IsCursor`: the array is the promised cursor | 0.9 M |
| `ezstream_walk` | all intakes, all signals, reads interrupted at once or half-way, an edit: `CursorInBounds` (an unchecked array read), `GiveUpIsFinal`, `InOrder` (refinement of `PlayOrder`), `RereadKeepsPlace` | 2.6 M |
| `ezstream_live` | `QuitExits`, `HupServed`, `EveryEntryPlayed` under fairness | 0.45 M |
| `ezstream_history` | signals by pairs and all together, without SA_RESTART: `StopsPromptly` (after TERM one more resource, one more buffer, two more attempts), `NoHupLost`, `HupWaitsForOneTrack`, `SkipEndsTrackAlone`, `QueryRunsProgramAlone`, `AttemptsBoundedAlone`, `EndsForAReason` | 3.2 M |
| `pid_file` | three instances: `LockIsOwn`, `RestingFileIsRight` | 13 k |
| `cfg_file` | three blocks in one to three loads: `NamesDistinct`, `OneDecoderPerExt`, `AcceptedIsComplete`, `PreviousKept` | 0.43 M |
| `session` | 580 ways to start a process: `NeverPlaintext` (TLS that is asked for is never lost), `ConfiguredAsWritten` (libshout is told what the file says), `ExitStatus`, `MigratedIsRead`, `MigratedStreams` and `MigratedDecodes` (what the converter prints without markup is read as what it found, streams as the old file did, and decodes each extension by the program it had), `CommandReadsBack` (a shell reads the command as its template with the values in place, whatever the values), `QuietCommands`, `AtRest` (nothing is left of a track, wherever it failed), `ToldIsOfTheSong` | 0.15 M |
| `reread_restart` | *violated*: when the last song is gone from the file, playing resumes at the second entry, not at the first as the manual says | |
| `skip_lost` | *violated*: a skip that was taken is forgotten when HUP and USR2 are pending (`SkipEndsTrackRead`, no read cut short) | |
| `pid_file_locked` | *violated*: an instance that fails after opening the file of another removes it.  In TLC's shortest trace it fails to write its pid; a refused lock takes the same exit | |
| `cfg_default` | *violated*: a named block after one without a name takes over and renames its entry | |
| `untagged_name` | *violated*: `@M@` of a readable file without tags is empty, where the manual says that the file's name takes its place | |

The properties that end in `Alone` hold as long as the signals they exclude are not sent and no read is cut short (`cutShort`: a read failed half-way and no track has ended
with a connection since); what happens otherwise is in the run `skip_lost` and under the known behaviours below.  `AcceptedIsComplete` and `UnnamedIsDefault` in the same way bracket the
handling of `default`: what is accepted is complete, but two blocks may have become one.  `ExitStatus` says what the code decides on: before a connection, 0 for `-h` and `-V` and a shuffle that went well, 1 or 2 for what was refused or failed;
once connected, 0 for every way out through the end of `main()`, a stream that gave up included, and 1 where the program exits inside a track.  `CommandReadsBack` compares with what the code
takes for `@M@`; `UntaggedIsNamed` compares that with the manual.

### Bounds, and why they are enough

- `MaxErrors = 1` for the code's 100: the counter is compared with `>` and reset to 0, so 0, 1 and the step over the
  limit are all the cases.  `UIntRange = 4` lets the unsigned counter of `reconnect()` wrap; limits of 2 and none are below it.
- `MaxBlocks` of 1 or 2 buffers: an empty resource, one that ends after its first buffer, and with 2 a signal
  between two buffers.  `MaxEdits = 1`: a reread sees the same or another list; a second edit repeats the first.
- Playlists: empty, one entry, two, an entry that occurs twice, one without the last song, and one with `stdin` in it.
- `ezstream_live` leaves out edits and the empty list and takes one buffer, since liveness is about loops and not about data.
- `Playlist`: `MaxItems = 4`, files of up to four lines: capacities 2, 4 and 8, thus two reallocations, the second of them for the NULL alone.  `RandMax = 5`
  makes each range of a shuffle divide the numbers evenly or not.  The proofs have no bound on either.
- `session`: `QuoteMax = 16` for the code's 8191 (`SHELLQUOTE_OUTLEN_MAX`), so that titles with several quotation marks meet the limit at each
  of the distances from it that the code tells apart (1 to 4 bytes).  `Starts` varies one thing at a time around a file that works: each protocol with each TLS setting in both orders,
  with and without a libshout that knows TLS; blocks that have no name before one that does, and two blocks of one name; servers, streams and intakes found by name or missing; every option, with those that end the program before and
  after it; decoder and encoder templates with each placeholder; metadata by file, by program, by format; legacy files with each element, each form of URL and pairs
  of `<encdec>` blocks that share a format or an extension.  The tracks have quotation marks, blanks, a pipe, a dot in the directory and none in the name; the songs of the metadata program
  have a title that is a placeholder's text, an empty one and one that is too long.  The values do not combine further: the elements are set one by one and never read each other, but for the pairs named here.
- `PidFile`: three instances, so that one can overtake two that fight; four files, so that `Open` can always create one (the path and an
  open file per instance).  `CfgFile`: three blocks, the fewest that can create, rename into and clash with two others.

Deadlock is checked except in `PidFile`, where instances end.
In `Session` a process that has exited stays so (`Ended`); in `Ezstream` the only states without a step of the program are those where the process is gone (`Gone`).

### Fairness

`FairSpec` has weak fairness of the program's own steps as one action: the program is a single thread that the
kernel keeps running, and each call it makes returns.  There is none on signals, edits, success of any
call or choice of an outcome, so the liveness properties hold if every resource fails and every send breaks.  A read that blocks for
ever is outside of it: see below.  `HupServed` and `EveryEntryPlayed` ask for a limit on reconnecting, as without one the program may rightly
try for ever; `QuitExits` does not.

## Proofs

`EzstreamProofs` (for every set of configurations, playlist contents, songs and bounds, under `EzstreamAssumption`, which
says that the constants have their types, that NULL is not a song, a list or a handle, and that a configured limit fits an unsigned int):

- `TypeCorrect`: `Spec => []TypeOK`.
- `CursorStaysInBounds`: `Spec => []CursorInBounds`.
- `GivingUpIsFinal`: `Spec => []GiveUpIsFinal`.

None of them is inductive.  The invariant is `IInv == TypeOK /\ WindingDown /\ WalksInPlaylistMode /\ WalkBounded`.  `WalkBounded` says
at which points a handle exists and that its index is inside the list, that a playlist program's handle has an
empty list, and that the handle may be one past the end only where the code is about to leave or rewind it; its preservation rests
on lemmas for each operation of the handle (`GetNextBounded`, `ShuffledBounded`, `ResumedBounded`, ...), of which the one
for `playlist_goto_entry()` needs that a first occurrence exists (well-foundedness of `<`).  `WindingDown` ties `resource_errors`
to `retval` and the points on the way out, `WalksInPlaylistMode` keeps single files out of `streamPlaylist()`.

About the order of play, in the same module and under the same assumption:

- `PlaysInOrder`: `Spec => InOrder`, the refinement of `PlayOrder`.
- `PlaceIsKept`: `Spec => RereadKeepsPlace`.

`OrderInv` adds to `IInv` that a resource is open exactly at the points of `sendStream()` and up to `close` (`OpenWhileStreaming`), and three facts more: `Kinds` (a handle is a program's exactly when the intake is one, and no program is reread), `Walked` (where `main()` goes on
to another walk, the last one ended at the end of the list: `streamPlaylist()` returns 1 early only when `quit` is set, and then `main()` leaves) and `AtSong` (from
the moment a song is taken to the test for a HUP behind it, it is the entry before the index).  Most steps are `Inner`, so the order does not see them (`InnerUnseen`); each of the others is an action of `PlayOrder`
(`MainInOrder`, `TrackEndInOrder`, `PlaylistInOrder`).  `Walked` is what makes a rewind a `StartOver`, and `AtSong` with `OnlyPlace` what makes a reread go on at its place.

`EzstreamHistoryProofs` (under the same assumption; `IInv` carries over since the history restricts nothing):

- `StopsAtOnce` (`StopsPromptly`).  `WaysOut` gives, for a step taken while `quit` is set, where it may lead from each point;
  `LateInv` ties the three counters to the points that are left on that way.
- `HupsAreKept` (`NoHupLost`).  Wherever a list is walked (`Walking`), the HUP is pending or the list is younger; the flag is reset only where the file
  is read next, for which `KindInv` (a handle is a program's when the intake is one) excludes that the test for a playlist program hides it.
- `HupsAreServedNext` (`HupWaitsForOneTrack`).  From a track that saw a HUP, every way to the next resets the flag (`TrackWay`).
- `SkipsAreServed`, `QueriesAreServed` (`SkipEndsTrackAlone`, `QueryRunsProgramAlone`).  `SkipInv` and `QueryInv` say in which value of `ret`, or in which
  flag, a request is at each test of `streamFile()`, where no read is cut short: `SendReturns` may replace `ret` otherwise, and `CutInv` says that an error of the stream is one of the cases `cutShort` covers; `QuietInv` that a signal which is never sent has no flag set.
- `AttemptsAreBounded` (`AttemptsBoundedAlone`).  The connection is there, is being restored or the program is leaving (`LostOrLeaving`), so
  each call of `reconnect()` starts from a success and its counter is at least the number of failures; this too where no read is cut short.
- `EndsAreFounded` (`EndsForAReason`).  `FaultInv` follows a result of 0 from where a fault caused it to the end of `main()`.

`PidFileProofs` (for any number of instances and files):

- `TypeCorrect`, `LockStaysOwn` (`LockIsOwn`) and `RestingFileStaysRight` (`RestingFileIsRight`).

The invariant adds `Stages` (what an instance has in its hands at each point), `OneHolder` (a locked file has one instance that holds it
by itself or through its programs) and `Accounted`: without crashes, a file at the path is about to be removed by somebody, is being
written, or names an instance that has locked or is about to lock it.  The last is why removing too many files
is harmless and leaving one would not be.

`CfgFileProofs` (for any kinds, names, elements, extensions and number of blocks):

- `TypeCorrect`, `NamesStayDistinct` (`NamesDistinct`), `ExtsStayApart` (`OneDecoderPerExt`), `AcceptedStaysComplete` (`AcceptedIsComplete`)
  and `PreviousIsKept` (`PreviousKept`).

The first three invariants have to hold of the saved configuration too, since a refused file brings it back (`AllDistinct`,
`AllOneDecoder`).  `AcceptedIsComplete` rests on `CompleteSoFar`: until something is refused, every entry but the one whose block
is being read is complete, and nothing in it is older than the load, because blocks are numbered over all loads (`BlocksCounted`).  `SomeExts`, that a
list of decoders which is not empty has an extension somewhere, is kept because a block that takes one from another decoder has it then.

`PlaylistProofs` (for any entries, files of any length and any range of random numbers, under `PlaylistAssumption`):

- `TypeCorrect`, `StaysTerminated` (`Terminated`), `KeepsFile` (`ReadKeepsFile`) and `ImplementsCursor` (`IsCursor`).

`Sound` says of a handle what its array is: `num` entries, NULL behind them to the end, a capacity of at most `MaxSize` and
more than `num`.  `Reading` ties the handle that is being filled to the number of lines read, so that it cannot outgrow its bound; `Shuffling` says that the handle of a
shuffle is a list with at least one entry from `i` on.  A lemma per helper follows (`Allocated`, `AddSound`, `IndexMoved`, `SwapSound`).  The refinement goes step by step (`StepCursor`): a line that is read is a stutter,
`EndRead` replaces the list, a swap is a permutation (`ExchangePermutes` has the function), and `playlist_goto_entry()` finds
the same place in the array and in the list (`SamePlace`).  `ReadKeepsFile`
needs no more than that: the number of entries among the lines so far (`EntriesIn`) grows by one with an entry and stays otherwise, so a line is put behind all
those before it, and a reallocation copies what is there.

`SessionProofs` (for every set of files, command lines, values, tracks and songs):

- `TypeCorrect` (`TypeOK`), `AtRestAlways` (`AtRest`), `CommandsAreQuiet` (`QuietCommands`) and `ExitStatusIsRight` (`ExitStatus`).

The invariant is `SessionInv == ResourceInv /\ Line`.  `ResourceInv` says at which point of a track a handle, metadata, a command and a copy of stderr exist, that `filep`,
`popenFlag` and what is open agree, and where stderr goes.  `Line` says that as long as options are left, those before
them neither ended the program nor were refused, and that `prog` has what they set: of `-q` and `-r` until the end, which is what `QuietCommands` needs, and of `-c` and `-s`,
which decide the status.  It also says that a process which has not come to its tracks is not connected, so that what `ExitStatus` says of a connected process is about the way out of a track only.
`TypeCorrect` needs besides that a status is not NULL (`StatusAssumption`); that nothing is known of a track between tracks comes from `ResourceInv`,
and the number of answers is bounded by the place (`Answered`).

`ValueProofs` (for every set of files, legacy files, command lines and values; under `SettingsAssumption`, that neither a NULL pointer nor the empty value is a switch, number, protocol,
format or TLS setting; `LaunchAssumption`, that files, legacy files, their blocks and command lines are sequences, that a legacy file has no more `<encdec>` blocks than the code's array
holds, and that an option that takes a file name has one; `XmlAssumption`, that a value which is read as another one has markup; and `ShellTextAssumption`, that the buffer has
room for two quotation marks):

- `ToldAsWritten` (`ConfiguredAsWritten`) and `TlsIsKept` (`NeverPlaintext`).
- `MigratedStreamsOn` (`MigratedStreams`) and `MigratedDecodesOn` (`MigratedDecodes`), both for what is printed without markup (`PrintedPlainly`): what has markup may reach
  ezstream as another value.
- `ValuesAreQuoted` and `ValueIsAWord`: what `ShellQuote` makes of any value is read by the shell, at any place of a command that is outside of quotation marks of the
  command's own, as if each character that is kept were escaped; after a blank, it is exactly one more word.  It never takes more than the buffer.

The code reads a file element by element, block by block, with an entry that may be renamed half-way; the reference (`ValueAt`) does not read at all: it says which blocks
make an entry and where the last value of an element stands.  What joins them is `ListMade`: after the first `k` blocks, each entry of the list is that of one block
and of the unnamed ones directly before it, every name that a block has is there, and once.  A block more either goes on with the entry of the block before, if that had
no name, or begins one (`MadeNext`, `ListNext`).  `ValueInv` has this for servers and streams wherever a configuration is in force, and that
the handle has their values wherever the process is about to connect.  Stating it showed that an entry takes in the unnamed blocks before it, which the reference
had left out: the run `session` now has such files.

A fold is defined by the library as a recursive function over sets of places, chosen by CHOOSE.  `FoldLaws` shows once that such a function exists (well-foundedness of `<`
on the natural numbers, `LessThanWellFounded`), so that the fold is a walk (`FoldsStepwise`), with `Induction` over its steps; for an empty sequence, one element more, and
two sequences behind each other there are laws of their own.  The first argument of the operation is what stays the same in all steps, so that one instance serves every kind of entry.

`MigratedStreamsOn` crosses two programs and three forms of one configuration.  What the legacy parser has of an element is the last value it was given (`ElementsRead`); the
converter hands these to the setters one after another, each of which may refuse, and `SetAllTries` says what has become of an entry after any number of them, so that
`ServerMade`, `StreamMade` and `IntakeMade` know each element of the three entries.  A printed block says what its entry has, and leaves out what it has not
(`ServerIsSaid`, `StreamIsSaid`, `IntakeIsSaid`); a file with one block of a kind and without a name is read as that block says (`OneBlockSays`), whatever else is in the file
(the decoders and encoders, of which there is any number).  `MigrationInv` keeps all along that the file ezstream starts with is what the converter printed, and which intake
is in force; `PlainIsRead` is where the hypothesis on markup enters: such a file
is read element by element as it was printed.  `ConfiguredAsWritten` then carries the values to the handle.  The proof needs one more assumption than the others, that the empty value is no number or
switch, because an element that is printed without a value is read as if it were not there.

`MigratedDecodesOn` needs the two walks over the decoders to end alike.  `DecodersOf` says what the first `k` blocks have come to: an entry for each block that has a
command and an extension, and no two with a name or an extension in common (`NextIsNew`), so that the next block finds none of its own and its entry is put behind them
(`DecoderAdded`, or taken away again if it has no extension).  Reading the printed blocks builds the same list once more, an entry at a time (`DecoderIsRead`, `ReadSoFar`), and the
extension is found where its block put it (`ExtFound`).  The proof is where it came out that a format may not be called `default`: its entry would be the one the next block starts from.

For quoting, `QuotedTo` says what has come of the first `k` characters: as many as fit, `m` of them, have been put, in
`QuotedSize(v, m) - 1` bytes, and a shell that reads them is within quotation marks with these `m` characters in its word; if `m` is less than `k`, the next one did not fit.
`KeptIs` ties `m` to the reference `Kept`, and `ReadIsShell` says what a shell may be at any place of a command, which makes the theorems independent of what stands before the value.

Model-checked only: all liveness (and what would need ENABLED); and, of `Session`, the two properties about texts that are put together, `CommandReadsBack` (whatever the template; the
theorems above are about a value in it, and that there is metadata and a command where it says so would need NULL to be told apart from every record and sequence) and `ToldIsOfTheSong`, and `MigratedIsRead`, which is about every value of every entry of a printed file, encoders and decoders that took extensions from each other among them.

## Known behaviours that no run is about

- Without SA_RESTART, a `fread()` that a handler interrupts half-way leaves an error on the stream, and a STREAM_SKIP or STREAM_UPDMDATA that `sendStream()` has taken from its
  flag is replaced by STREAM_CONT: a lone USR1 or USR2 has no effect (`src/ezstream.c:518`).  With it, this needs a read error and then an interrupted wait.
- A pending USR1, or USR2 with HUP, replaces the result of a `reconnect()` that gave up (`src/ezstream.c:586`); the stream goes on unconnected and its next buffer starts another
  round of attempts.  `AttemptsBoundedAlone` leaves these signals out.
- A process that has connected exits with 0 whatever ends its stream, a server that is gone and a playlist that cannot be read among it (`ExitStatus`).
- An accepted decoder may have lost its only extension to a later block, although `file_ext` is mandatory (`AcceptedIsComplete` says that an accepted list has one
  somewhere); what `ezstream-cfgmigrate` prints of it is then refused (`MigratedIsRead` says exactly when).
- A USR1 that arrives while the last buffer of a track is sent skips the track after it.
- At the end of the standard input, without `stream_once`, the program opens it again without a pause.
- With SA_RESTART a blocked read is resumed after a handler: `quit` is seen when data arrives.
- With an empty playlist no track ends, so HUP is not served and the program loops until it is told to quit.
- `playlist_shuffle()` lets one number too many through its bound, a small bias.
- A reconnect without limit ends when its unsigned counter wraps to 0, after 2^32 attempts.
- `normalize_strings` is parsed and printed but nothing hands it to `mdata_set_normalize_strings()`; `mdata_refresh()` has no caller.
- `@M@` of a file with tags has the album behind artist and title, where the manual (`doc/ezstream.1.in.in:793`) has Artist - Title.
- In a `format_str` the end of a value may form a placeholder with the text to its left (`@@a@` and an artist `t@`), since expansion goes backwards through what is
  already replaced.  In commands this cannot happen, as values are quoted; `CommandReadsBack` and a song of `session` are about that.
- A `@t@` in either of decoder and encoder empties the `@M@` of both.
- The four runs of the metadata program may be answered for different songs: `ToldIsOfTheSong` allows each field to be of any song since the
  program was asked.
- The extension of a track is what follows the last dot of its whole path, a dot in a directory included.
- An encoder that does not exist is only noticed when a track is opened, and then counts as a failed resource.
- A legacy file with an error leaves an empty configuration, and `parseConfig()` still returns 0, so that `ezstream-cfgmigrate` complains of a missing `<url>` instead.
- `ezstream-cfgmigrate` prints values as they are: one with `&` or `<` makes a file that is refused, or, where the markup is well-formed, a file that is
  read as another value: of a password `a&amp;b` (written `a&amp;amp;b` in XML) ezstream connects with `a&b`.  Two `<encdec>` blocks of one format end up
  with the decoder program of the later one; one without a format, or with a format that is called `default`, fills the entry
  called `default`, which the next block takes over: its extension is then decoded by the program of that block (`EncDecsDistinct` leaves this out, and a file of `session` has it).  An interval of 0 is not carried over.  `<reencode>` without
  `<format>` hands NULL to `strcasecmp()`, and more than `MAX_FORMAT_ENCDEC` blocks are written behind an array of that size (`src/ezconfig0.c:593`).
- Calls with an effect stand inside `assert()` in `src/cmdline.c`; with `NDEBUG` the program type stays at its default.

## Not modelled, and why

- Logging and allocation (allocate or exit) have no behaviour over time; the compat functions are libc's.
- `ezstream-file.sh` fills in a template and runs ezstream.
- The status line of `-r`, which is output only, and the length of a track, which is only shown.
- Character sets are iconv's and `util_utf82char()` only chooses between them; texts are taken as converted.
- `mdata_refresh()` and the normalization of strings, which the program never calls for.
- Of the migration, what is undefined in C: more blocks than its array has, and reencoding without a format.
- XML itself is libxml2's, tags are TagLib's, and what the server does beyond accepting or failing is libshout's.
- The sleep and the clock: the refresh interval of the metadata may fire after any buffer.

## Plan

1. Done: the playlist, the streaming loop with its signals and history, the pid file, the configuration lists; proofs of the safety
   invariants of `Ezstream`, `EzstreamHistory`, `PidFile` and `CfgFile`.
2. Done: `Metadata`, `ShellText`, `Settings`, `XmlFile`, `Legacy`, `Launch` and `Resource`, composed in `Session`; proofs of its properties
   that do not depend on texts.
3. Done: proofs about the array of `Playlist` and of its refinement `IsCursor`.
4. Done: proofs of the refinement `InOrder` and of `RereadKeepsPlace`.
5. Done: laws of folds; with them, proofs of what is read from files of any length, and of quoting.
6. Done: a proof that what is migrated streams as before (`MigratedStreams`).
7. Done: a proof that what is migrated decodes as before (`MigratedDecodes`), and of the types of `Session`.
8. Left: a proof that all of a printed file is read again (`MigratedIsRead`), and of the expansion of a template of any length.
