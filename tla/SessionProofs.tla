----------------------------- MODULE SessionProofs -----------------------------
(***************************************************************************)
(* Proofs about Session, for any configuration files, legacy files, command *)
(* lines, tracks, tags and songs: the types of its variables, what a track   *)
(* leaves behind, what becomes of the options, and the exit status.          *)
(***************************************************************************)
EXTENDS Session, TLAPS

Nothing == filep = "none" /\ open = "none" /\ popenFlag = FALSE
Something ==
  \/ filep = "stdin" /\ open = "none" /\ popenFlag = FALSE /\ isStdin = TRUE
  \/ filep = "file" /\ open = "file" /\ popenFlag = FALSE /\ isStdin = FALSE
  \/ filep = "pipe" /\ open = "pipe" /\ popenFlag = TRUE /\ isStdin = FALSE

\* What is open at each place, and how it will be closed.
Handles ==
  /\ at \in {"idle", "parse", "build", "dup", "popen"} => Nothing
  /\ at \in {"opened", "streaming", "close"} => Something
  /\ at \in {"ask", "tell"} => \/ why = "open" /\ Nothing
                               \/ why = "refresh" /\ Something
  /\ at = "restore" => Nothing \/ (Something /\ filep = "pipe")
  /\ at \in {"parse", "build", "dup", "popen", "restore"} => isStdin = FALSE
  /\ at = "tell" /\ why = "open" => isStdin = TRUE

\* Where nothing is known of a track, and where there is no command.
Known ==
  /\ at \in {"idle", "streaming", "close"} => md = NULL
  /\ at \notin {"dup", "popen"} => cmd = NULL

\* Where stderr goes to at each place.
Stderr ==
  /\ at \notin {"dup", "popen", "restore"} => err = "tty" /\ saved = FALSE
  /\ at = "dup" => prog.quiet /\ err = "tty"
  /\ at \in {"popen", "restore"} =>
       /\ prog.quiet => err = "null"
       /\ ~prog.quiet => err = "tty" /\ saved = FALSE

\* Tracks are opened by a process that is connected.
Started == pc \notin {"stream", "exited"} => at = "idle" /\ child = NULL

ResourceInv == Handles /\ Known /\ Stderr /\ Started

--------------------------------------------------------------------------------
\* A process starts with nothing open and without a track.
LEMMA InitResourceInv == Init => ResourceInv
BY DEF Init, LaunchInit, ResourceInit, ResourceInv, Handles, Known, Stderr, Started,
       Nothing, Something

\* Before it is connected, and after it has ended, a process opens nothing; its
\* options do not change any more when it is connected.
LEMMA LaunchResourceInv ==
  ResourceInv /\ LaunchNext /\ UNCHANGED resourceVars => ResourceInv'
BY DEF ResourceInv, Handles, Known, Stderr, Started, Nothing, Something, resourceVars,
       LaunchNext, Migrate, MigrateFails, ParseOption, HelpOrVersion, BadOption, ShuffleFile,
       NoConfigFile, CommandLineDone, Reload, ReloadFails, Configure, ConfigureFails,
       Connect, ConnectFails, Exit

\* Every step of streamFile() keeps what is open, known and redirected in step with
\* its place.
LEMMA StepResourceInv == ResourceInv /\ ResourceNext => ResourceInv'
<1> SUFFICES ASSUME ResourceInv, ResourceNext PROVE ResourceInv'
  OBVIOUS
<1> USE DEF ResourceInv, Handles, Known, Stderr, Started, Nothing, Something, Streaming,
            launchVars, mdVars, fileVars, errVars, resourceVars, Ask, NothingAsked
<1>1. CASE NextSong
  BY <1>1 DEF NextSong
<1>2. CASE StreamFile
  BY <1>2 DEF StreamFile
<1>3. CASE Answer
  BY <1>3 DEF Answer
<1>4. CASE AskFails
  BY <1>4 DEF AskFails, NotOpened, Return
<1>5. CASE RefreshFails
  BY <1>5 DEF RefreshFails
<1>6. CASE AnswerUnreadable
  BY <1>6 DEF AnswerUnreadable, Exit
<1>7. CASE Parse
  BY <1>7 DEF Parse
<1>8. CASE ParseFails
  BY <1>8 DEF ParseFails, NotOpened, Return
<1>9. CASE Build
  BY <1>9 DEF Build
<1>10. CASE CannotBuild
  BY <1>10 DEF CannotBuild, NotOpened, Return
<1>11. CASE Fopen
  BY <1>11 DEF Fopen
<1>12. CASE FopenFails
  BY <1>12 DEF FopenFails, NotOpened, Return
<1>13. CASE DupStderr
  BY <1>13 DEF DupStderr
<1>14. CASE QuietStderr
  BY <1>14 DEF QuietStderr
<1>15. CASE QuietFails
  BY <1>15 DEF QuietFails, Exit
<1>16. CASE Popen
  BY <1>16 DEF Popen
<1>17. CASE Restore
  BY <1>17 DEF Restore, Return, RestoresStderr
<1>18. CASE TellStdin
  BY <1>18 DEF TellStdin, Tell
<1>19. CASE TellStdinFails
  BY <1>19 DEF TellStdinFails, NotOpened, Return
<1>20. CASE Opened
  BY <1>20 DEF Opened, Tell
<1>21. CASE Query
  BY <1>21 DEF Query
<1>22. CASE TellRefresh
  BY <1>22 DEF TellRefresh, Tell
<1>23. CASE TellRefreshFails
  BY <1>23 DEF TellRefreshFails
<1>24. CASE TrackEnds
  BY <1>24 DEF TrackEnds
<1>25. CASE Close
  BY <1>25 DEF Close, Return, Closes
<1>26. CASE Leave
  BY <1>26 DEF Leave, Exit
<1> QED
  BY <1>1, <1>2, <1>3, <1>4, <1>5, <1>6, <1>7, <1>8, <1>9, <1>10, <1>11, <1>12, <1>13, <1>14, <1>15, <1>16, <1>17, <1>18, <1>19, <1>20, <1>21, <1>22, <1>23, <1>24, <1>25, <1>26 DEF ResourceNext

--------------------------------------------------------------------------------
(* The command line, and what becomes of it. *)

\* The first n options have been followed, and have set what they set.
LineRead(n) ==
  /\ args = SubSeq(start.args, n + 1, Len(start.args))
  /\ \A i \in 1..n : i \notin Asking \cup Bad
  /\ prog = [f \in DOMAIN prog |-> prog[f]]
  /\ {"config_file", "pid_file", "shuffle_file", "quiet", "rtstatus", "verbosity"}
       \subseteq DOMAIN prog
  /\ prog.quiet \in BOOLEAN
  /\ prog.quiet <=> Among("q", n) \/ Among("r", n)
  /\ prog.config_file # NULL <=> Among("c", n)
  /\ prog.shuffle_file # NULL <=> Among("s", n)

\* The whole of the line was followed, and it asks to stream.
LineFollowed == LineRead(Len(start.args)) /\ prog.config_file # NULL

\* How far a process is tells what is known of its command line.
Line ==
  /\ start \in Starts
  /\ pc = "migrate" => ~Begun /\ LineRead(0)
  /\ pc = "cmdline" => \E n \in 0..Len(start.args) : LineRead(n)
  /\ pc \notin {"migrate", "cmdline", "exited"} => LineFollowed
  /\ pc \notin {"migrate", "exited"} => Begun
  /\ pc = "stream" => connected
  /\ pc \notin {"stream", "exited"} => connected = FALSE

\* What is left of the line begins with the option that is looked at next.
LEMMA RestOfLine ==
  ASSUME NEW S, NEW s \in Seq(S), NEW n \in 0..Len(s), SubSeq(s, n + 1, Len(s)) # << >>
  PROVE  /\ n + 1 \in 1..Len(s)
         /\ Head(SubSeq(s, n + 1, Len(s))) = s[n + 1]
         /\ Tail(SubSeq(s, n + 1, Len(s))) = SubSeq(s, n + 2, Len(s))
OBVIOUS

\* At the end of the line, its options are all it had.
LEMMA WholeLine ==
  ASSUME NEW S, NEW s \in Seq(S), NEW n \in 0..Len(s), SubSeq(s, n + 1, Len(s)) = << >>
  PROVE  n = Len(s)
OBVIOUS

\* An option is refused if it is not known or its file name is not accepted.
LEMMA RefusedIsBad ==
  ASSUME NEW i \in DOMAIN start.args
  PROVE  OptionRefused(start.args[i][1], start.args[i][2]) <=> i \in Bad
BY DEF OptionRefused, FitsBuffer, Bad

\* One more option is among those that were read.
LEMMA OneMore ==
  ASSUME NEW n \in Nat, NEW o
  PROVE  Among(o, n + 1) <=> Among(o, n) \/ start.args[n + 1][1] = o
<1>1. 1..(n + 1) = (1..n) \cup {n + 1}
  OBVIOUS
<1> QED
  BY <1>1 DEF Among

\* An option that is followed sets what it sets, and is not looked at again.
LEMMA OptionFollowed ==
  ASSUME NEW n \in 0..Len(start.args), start \in Starts, LineRead(n), ParseOption
  PROVE  n + 1 \in 0..Len(start.args) /\ LineRead(n + 1)'
<1> DEFINE S == {start.args[i] : i \in DOMAIN start.args}
           opt == start.args[n + 1][1]
           arg == start.args[n + 1][2]
<1>1. start.args \in Seq(S)
  BY LaunchAssumption DEF IsSequence
<1>2. /\ n + 1 \in 1..Len(start.args)
      /\ Head(args) = start.args[n + 1]
      /\ Tail(args) = SubSeq(start.args, n + 2, Len(start.args))
  BY <1>1, RestOfLine DEF LineRead, ParseOption
<1>3. n + 1 \in DOMAIN start.args /\ (opt \in {"c", "s"} => arg # NULL)
  <2>1. DOMAIN start.args = 1..Len(start.args)
    BY <1>1
  <2> QED
    BY <1>2, <2>1, LaunchAssumption DEF IsSequence
<1>4. opt \notin {"h", "V"} /\ ~OptionRefused(opt, arg) /\ prog' = OptionSets(prog, opt, arg)
  BY <1>2 DEF ParseOption
<1>5. n + 1 \notin Asking \cup Bad
  BY <1>3, <1>4, RefusedIsBad DEF Asking
<1>6. start' = start /\ Asking' = Asking /\ Bad' = Bad /\ args' = Tail(args)
  BY DEF ParseOption, Asking, Bad
<1>7. args' = SubSeq(start'.args, (n + 1) + 1, Len(start'.args))
  BY <1>2, <1>6
<1>8. \A i \in 1..(n + 1) : i \notin (Asking \cup Bad)'
  BY <1>5, <1>6 DEF LineRead
<1>9. \A o : Among(o, n + 1)' <=> Among(o, n) \/ opt = o
  BY <1>6, OneMore DEF Among
<1>10. opt \in {"c", "p", "q", "r", "s", "v"}
  BY <1>4 DEF OptionRefused
<1>11. /\ prog' = [f \in DOMAIN prog' |-> prog'[f]]
       /\ DOMAIN prog' = DOMAIN prog
       /\ prog'.quiet = (IF opt \in {"q", "r"} THEN TRUE ELSE prog.quiet)
       /\ prog'.config_file = (IF opt = "c" THEN arg ELSE prog.config_file)
       /\ prog'.shuffle_file = (IF opt = "s" THEN arg ELSE prog.shuffle_file)
  BY <1>4, <1>10 DEF OptionSets, LineRead
<1>12. /\ Among("q", n + 1)' <=> Among("q", n) \/ opt = "q"
       /\ Among("r", n + 1)' <=> Among("r", n) \/ opt = "r"
       /\ Among("c", n + 1)' <=> Among("c", n) \/ opt = "c"
       /\ Among("s", n + 1)' <=> Among("s", n) \/ opt = "s"
  BY <1>9
<1>13. /\ prog'.quiet \in BOOLEAN
       /\ prog'.quiet <=> Among("q", n + 1)' \/ Among("r", n + 1)'
       /\ prog'.config_file # NULL <=> Among("c", n + 1)'
       /\ prog'.shuffle_file # NULL <=> Among("s", n + 1)'
  BY <1>3, <1>11, <1>12 DEF LineRead
<1>14. {"config_file", "pid_file", "shuffle_file", "quiet", "rtstatus", "verbosity"}
         \subseteq DOMAIN prog'
  BY <1>11 DEF LineRead
<1>15. LineRead(n + 1)'
  BY <1>7, <1>8, <1>11, <1>13, <1>14, Zenon DEF LineRead
<1> QED
  BY <1>2, <1>15
\* The line is followed as far as it was if no option is looked at.
LEMMA LineKept ==
  ASSUME NEW n, LineRead(n), UNCHANGED <<start, args, prog>>
  PROVE  LineRead(n)'
BY DEF LineRead, Among, Asking, Bad

\* An option that ends the process after n others have been followed is the first.
LEMMA EndedBy ==
  ASSUME start \in Starts, NEW n \in 0..Len(start.args), LineRead(n),
         SubSeq(start.args, n + 1, Len(start.args)) # << >>
  PROVE  LET opt == Head(args)[1]
             arg == Head(args)[2]
         IN /\ opt \in {"h", "V"} => First(Asking) /\ ~First(Bad)
            /\ OptionRefused(opt, arg) => First(Bad) /\ ~First(Asking)
<1> DEFINE S == {start.args[i] : i \in DOMAIN start.args}
           opt == Head(args)[1]
           arg == Head(args)[2]
<1>1. start.args \in Seq(S)
  BY LaunchAssumption DEF IsSequence
<1>2. n + 1 \in 1..Len(start.args) /\ Head(args) = start.args[n + 1]
  BY <1>1, RestOfLine DEF LineRead
<1>3. DOMAIN start.args = 1..Len(start.args) /\ Len(start.args) \in Nat
  BY <1>1
<1>4. \A j \in 1..n : j \notin Asking \cup Bad
  BY DEF LineRead
<1>5. Asking \subseteq 1..Len(start.args) /\ Bad \subseteq 1..Len(start.args)
  BY <1>3 DEF Asking, Bad
<1>6. Asking \cap Bad = {}
  BY DEF Asking, Bad
<1>7. \A X, Y \in {Asking, Bad} :
        n + 1 \in X /\ X \cap Y = {} => First(X) /\ ~First(Y)
  <2> SUFFICES ASSUME NEW X \in {Asking, Bad}, NEW Y \in {Asking, Bad}, n + 1 \in X,
                      X \cap Y = {}
               PROVE  First(X) /\ ~First(Y)
    OBVIOUS
  <2>1. First(X)
    BY <1>2, <1>4 DEF First
  <2>2. ASSUME NEW i \in Y, \A j \in 1..(i - 1) : j \notin Asking \cup Bad
        PROVE  FALSE
    <3>1. i \in 1..Len(start.args) /\ i # n + 1
      BY <1>5
    <3>2. CASE i < n + 1
      BY <3>1, <3>2, <1>2, <1>4
    <3>3. CASE i > n + 1
      BY <3>1, <3>3, <1>2, <2>2
    <3> QED
      BY <3>1, <3>2, <3>3, <1>2
  <2> QED
    BY <2>1, <2>2 DEF First
<1>8. opt \in {"h", "V"} => n + 1 \in Asking
  BY <1>2, <1>3 DEF Asking
<1>9. OptionRefused(opt, arg) => n + 1 \in Bad
  BY <1>2, <1>3, RefusedIsBad
<1> QED
  BY <1>6, <1>7, <1>8, <1>9

\* In a line that was followed to its end no option ends the process.
LEMMA NothingEnds ==
  ASSUME start \in Starts, LineRead(Len(start.args))
  PROVE  ~First(Asking) /\ ~First(Bad)
<1> DEFINE S == {start.args[i] : i \in DOMAIN start.args}
<1>1. start.args \in Seq(S)
  BY LaunchAssumption DEF IsSequence
<1>2. DOMAIN start.args = 1..Len(start.args)
  BY <1>1
<1>3. Asking \subseteq 1..Len(start.args) /\ Bad \subseteq 1..Len(start.args)
  BY <1>2 DEF Asking, Bad
<1> QED
  BY <1>3 DEF LineRead, First
\* At the start nothing of the line was looked at.
LEMMA InitLine == Init => Line
<1> SUFFICES ASSUME Init PROVE Line
  OBVIOUS
<1> DEFINE S == {start.args[i] : i \in DOMAIN start.args}
<1>1. start \in Starts /\ args = start.args /\ migrated = NULL
  BY DEF Init, LaunchInit
<1>2. start.args \in Seq(S)
  BY <1>1, LaunchAssumption DEF IsSequence
<1>3. args = SubSeq(start.args, 0 + 1, Len(start.args)) /\ 0 \in 0..Len(start.args)
  BY <1>1, <1>2
<1>4. LineRead(0)
  BY <1>3 DEF Init, LaunchInit, LineRead, Among
<1> QED
  BY <1>1, <1>3, <1>4 DEF Init, LaunchInit, Line, Begun

\* Streaming changes nothing of how the process came to stream, or it ends.
LEMMA StreamingLaunch ==
  ResourceNext =>
    /\ pc = "stream"
    /\ \/ UNCHANGED launchVars
       \/ /\ pc' = "exited" /\ status' \in {0, 1} /\ (status' = 0) = (at' = "idle")
          /\ UNCHANGED <<start, migrated, args, prog, connected>>
BY DEF ResourceNext, Streaming, launchVars, Exit, NextSong, StreamFile, Answer, AskFails,
       RefreshFails, AnswerUnreadable, Parse, ParseFails, Build, CannotBuild, Fopen,
       FopenFails, DupStderr, QuietStderr, QuietFails, Popen, Restore, TellStdin,
       TellStdinFails, Opened, Query, TellRefresh, TellRefreshFails, TrackEnds, Close, Leave,
       resourceVars

\* The options that end a process, and how, do not change.
LEMMA LineFixed ==
  UNCHANGED start => /\ Asking' = Asking /\ Bad' = Bad
                     /\ First(Asking)' = First(Asking) /\ First(Bad)' = First(Bad)
                     /\ GivenOption("c")' = GivenOption("c")
                     /\ GivenOption("s")' = GivenOption("s")
BY DEF Asking, Bad, First, GivenOption, Among
\* Every step up to the first track follows the line, and one that ends the process
\* gives it the status that the line and its success call for.
LEMMA LaunchLine == Line /\ LaunchNext => Line' /\ ExitStatus'
<1> SUFFICES ASSUME Line, LaunchNext PROVE Line' /\ ExitStatus'
  OBVIOUS
<1> DEFINE S == {start.args[i] : i \in DOMAIN start.args}
           Stays == UNCHANGED <<start, args, prog>>
           Passed == LineRead(Len(start.args)) /\ ~First(Asking) /\ ~First(Bad)
<1>1. start \in Starts /\ start' = start /\ Len(start.args) \in Nat
  <2>1. start \in Starts /\ start' = start
    BY DEF Line, LaunchNext, Migrate, MigrateFails, ParseOption, HelpOrVersion, BadOption,
           ShuffleFile, NoConfigFile, CommandLineDone, Reload, ReloadFails, Configure,
           ConfigureFails, Connect, ConnectFails
  <2> QED
    BY <2>1, LaunchAssumption DEF IsSequence
<1>2. /\ First(Asking)' = First(Asking) /\ First(Bad)' = First(Bad)
      /\ GivenOption("c")' = GivenOption("c") /\ GivenOption("s")' = GivenOption("s")
  BY <1>1, LineFixed
<1>3. Stays => /\ LineFollowed => LineFollowed'
               /\ \A n \in 0..Len(start.args) : LineRead(n) => LineRead(n)'
  BY LineKept DEF LineFollowed
<1>4. LineFollowed => Passed /\ GivenOption("c")
  BY <1>1, NothingEnds DEF LineFollowed, LineRead, GivenOption
<1>5. pc = "cmdline" /\ args = << >> => Passed
  <2>1. \A n \in 0..Len(start.args) : LineRead(n) /\ args = << >> => n = Len(start.args)
    <3>1. start.args \in Seq(S)
      BY <1>1, LaunchAssumption DEF IsSequence
    <3> QED
      BY <3>1, WholeLine DEF LineRead
  <2> QED
    BY <1>1, <2>1, NothingEnds DEF Line
<1>6. Passed => /\ prog.shuffle_file # NULL <=> GivenOption("s")
                /\ prog.config_file # NULL <=> GivenOption("c")
  BY DEF LineRead, GivenOption
<1>7. CASE Migrate
  BY <1>1, <1>3, <1>7 DEF Migrate, Line, ExitStatus, Begun
<1>8. CASE MigrateFails
  BY <1>1, <1>8 DEF MigrateFails, Line, ExitStatus, Begun, Exit
<1>9. CASE ParseOption
  <2>1. PICK n \in 0..Len(start.args) : LineRead(n)
    BY <1>9 DEF Line, ParseOption
  <2>2. n + 1 \in 0..Len(start.args) /\ LineRead(n + 1)'
    BY <1>1, <1>9, <2>1, OptionFollowed
  <2> QED
    BY <1>1, <1>9, <2>2 DEF ParseOption, Line, ExitStatus, Begun
<1>10. CASE HelpOrVersion
  <2>1. First(Asking) /\ ~First(Bad)
    BY <1>1, <1>10, EndedBy DEF HelpOrVersion, Line, LineRead
  <2> QED
    BY <1>1, <1>2, <1>10, <2>1 DEF HelpOrVersion, Line, ExitStatus, Begun, Exit
<1>11. CASE BadOption
  <2>1. First(Bad) /\ ~First(Asking)
    BY <1>1, <1>11, EndedBy DEF BadOption, Line, LineRead
  <2> QED
    BY <1>1, <1>2, <1>11, <2>1 DEF BadOption, Line, ExitStatus, Begun, Exit
<1>12. CASE ShuffleFile
  BY <1>1, <1>2, <1>5, <1>6, <1>12 DEF ShuffleFile, Line, ExitStatus, Begun, Exit
<1>13. CASE NoConfigFile
  BY <1>1, <1>2, <1>5, <1>6, <1>13 DEF NoConfigFile, Line, ExitStatus, Begun, Exit
<1>14. CASE CommandLineDone
  BY <1>1, <1>3, <1>5, <1>14 DEF CommandLineDone, Line, ExitStatus, Begun, LineFollowed
<1>15. CASE Reload \/ Configure \/ Connect
  BY <1>1, <1>3, <1>15 DEF Reload, Configure, Connect, Line, ExitStatus, Begun
<1>16. CASE ReloadFails \/ ConfigureFails \/ ConnectFails
  BY <1>1, <1>2, <1>4, <1>16
     DEF ReloadFails, ConfigureFails, ConnectFails, Line, ExitStatus, Begun, Exit
<1> QED
  BY <1>7, <1>8, <1>9, <1>10, <1>11, <1>12, <1>13, <1>14, <1>15, <1>16 DEF LaunchNext

\* So does every step of a process that streams.
LEMMA StreamingLine == Line /\ ResourceNext => Line' /\ ExitStatus'
<1> SUFFICES ASSUME Line, ResourceNext PROVE Line' /\ ExitStatus'
  OBVIOUS
<1>1. pc = "stream" /\ UNCHANGED <<start, migrated, args, prog, connected>>
  BY StreamingLaunch DEF launchVars
<1>2. \/ pc' = "stream"
      \/ pc' = "exited" /\ status' \in {0, 1} /\ (status' = 0) = (at' = "idle")
  BY StreamingLaunch DEF launchVars
<1>3. LineFollowed /\ Begun /\ connected /\ start \in Starts
  BY <1>1 DEF Line
<1>4. LineFollowed' /\ Begun' /\ connected' /\ start' \in Starts
  BY <1>1, <1>3, LineKept DEF LineFollowed, Begun
<1>5. ~First(Asking) /\ ~First(Bad) /\ GivenOption("c")
  BY <1>3, NothingEnds DEF LineFollowed, LineRead, GivenOption
<1>6. ~First(Asking)' /\ ~First(Bad)' /\ GivenOption("c")'
  BY <1>1, <1>5, LineFixed
<1> QED
  BY <1>2, <1>4, <1>6 DEF Line, ExitStatus
\* What is open, and how far the line was followed, hold all the time.
SessionInv == ResourceInv /\ Line

\* The invariant holds at first.
LEMMA InitSessionInv == Init => SessionInv
BY InitResourceInv, InitLine DEF SessionInv

\* Every step keeps it, up to the first track and from there on.
LEMMA StepSessionInv == SessionInv /\ [Next]_vars => SessionInv'
<1> SUFFICES ASSUME SessionInv, [Next]_vars PROVE SessionInv'
  OBVIOUS
<1>1. CASE LaunchNext /\ UNCHANGED resourceVars
  BY <1>1, LaunchResourceInv, LaunchLine DEF SessionInv
<1>2. CASE ResourceNext
  BY <1>2, StepResourceInv, StreamingLine DEF SessionInv
<1>3. CASE UNCHANGED vars
  <2>1. ResourceInv'
    BY <1>3 DEF SessionInv, vars, launchVars, resourceVars, ResourceInv, Handles, Known,
                Stderr, Started, Nothing, Something
  <2>2. Line'
    BY <1>3, LineKept DEF SessionInv, vars, launchVars, Line, LineFollowed, Begun
  <2> QED
    BY <2>1, <2>2 DEF SessionInv
<1> QED
  BY <1>1, <1>2, <1>3 DEF Next, Ended

\* The invariant is one of the specification.
LEMMA SessionInvAlways == Spec => []SessionInv
BY InitSessionInv, StepSessionInv, PTL DEF Spec

\* No more than three answers wait for the next one.
Answered == \E S : answers \in Seq(S) /\ Len(answers) <= 3

\* An answer is counted.
LEMMA OneMoreAnswer ==
  ASSUME NEW S, NEW s \in Seq(S), NEW x
  PROVE  Append(s, x) \in Seq(S \cup {x}) /\ Len(Append(s, x)) = Len(s) + 1
<1>1. s \in Seq(S \cup {x}) /\ x \in S \cup {x}
  OBVIOUS
<1> QED
  BY <1>1

TypeInv == TypeOK /\ Answered

LEMMA InitTypeInv == Init => TypeInv
<1> SUFFICES ASSUME Init PROVE TypeInv
  OBVIOUS
<1>1. DOMAIN EmptyCfg = FileKinds
  BY DEF EmptyCfg, FileKinds
<1>2. answers = << >> /\ << >> \in Seq({}) /\ Len(<< >>) = 0
  BY DEF Init, ResourceInit
<1>3. Answered /\ Len(answers) <= 4
  BY <1>2 DEF Answered
<1>4. start \in Starts /\ pc \in {"migrate", "cmdline"}
  BY DEF Init, LaunchInit
<1>5. DOMAIN cfg = FileKinds /\ DOMAIN handle = HandleFields
  BY <1>1 DEF Init, LaunchInit, NewHandle
<1>6. /\ connected \in BOOLEAN /\ status = NULL /\ pc # "exited"
      /\ at = "idle" /\ isStdin = FALSE /\ popenFlag = FALSE /\ saved = FALSE
      /\ filep = "none" /\ open = "none" /\ why = "open" /\ err = "tty" /\ child = NULL
      /\ song \in DOMAIN Songs /\ seen = {} /\ md = NULL /\ cmd = NULL
  BY DEF Init, LaunchInit, ResourceInit
<1> QED
  BY <1>3, <1>4, <1>5, <1>6 DEF TypeInv, TypeOK

\* What the type invariant says of a process, and of a track.
LaunchTypes ==
  /\ pc \in {"migrate", "cmdline", "reload", "configure", "connect", "stream", "exited"}
  /\ start \in Starts
  /\ DOMAIN cfg = FileKinds /\ DOMAIN handle = HandleFields
  /\ connected \in BOOLEAN /\ status \in {NULL, 0, 1, 2}
  /\ (status # NULL) = (pc = "exited")

TrackTypes ==
  /\ at \in {"idle", "ask", "parse", "build", "dup", "popen", "restore", "tell", "opened",
             "streaming", "close"}
  /\ isStdin \in BOOLEAN /\ popenFlag \in BOOLEAN /\ saved \in BOOLEAN
  /\ filep \in {"none", "stdin", "file", "pipe"} /\ open \in {"none", "file", "pipe"}
  /\ why \in {"open", "refresh"}
  /\ err \in {"tty", "null"} /\ child \in {NULL, "tty", "null"}
  /\ err = "null" => saved
  /\ song \in DOMAIN Songs /\ seen \subseteq DOMAIN Songs

LEMMA ExitTypes ==
  ASSUME NEW n \in {0, 1, 2}, Exit(n), LaunchTypes, UNCHANGED <<start, cfg>>,
         connected' = connected
  PROVE  LaunchTypes'
BY StatusAssumption DEF Exit, LaunchTypes, NewHandle

LEMMA StepLaunchTypes ==
  ASSUME LaunchTypes, LaunchNext
  PROVE  LaunchTypes'
<1>1. DOMAIN ReadFile(file).cfg = FileKinds
  BY DEF ReadFile
<1>2. DOMAIN ConfiguredHandle = HandleFields
  BY DEF ConfiguredHandle
<1>3. DOMAIN [cfg EXCEPT !.intake = Intakes] = FileKinds
  BY DEF LaunchTypes
<1>4. CASE Migrate
  BY <1>4 DEF Migrate, LaunchTypes
<1>5. CASE MigrateFails
  BY <1>5, ExitTypes DEF MigrateFails
<1>6. CASE ParseOption
  BY <1>6 DEF ParseOption, LaunchTypes
<1>7. CASE HelpOrVersion
  BY <1>7, ExitTypes DEF HelpOrVersion
<1>8. CASE BadOption
  BY <1>8, ExitTypes DEF BadOption
<1>9. CASE ShuffleFile
  BY <1>9, ExitTypes DEF ShuffleFile
<1>10. CASE NoConfigFile
  BY <1>10, ExitTypes DEF NoConfigFile
<1>11. CASE CommandLineDone
  BY <1>11 DEF CommandLineDone, LaunchTypes
<1>12. CASE Reload
  BY <1>1, <1>12 DEF Reload, LaunchTypes
<1>13. CASE ReloadFails
  BY <1>13, ExitTypes DEF ReloadFails
<1>14. CASE Configure
  BY <1>2, <1>3, <1>14 DEF Configure, LaunchTypes
<1>15. CASE ConfigureFails
  BY <1>15, ExitTypes DEF ConfigureFails
<1>16. CASE Connect
  BY <1>16 DEF Connect, LaunchTypes
<1>17. CASE ConnectFails
  BY <1>17, ExitTypes DEF ConnectFails
<1> QED
  BY <1>4, <1>5, <1>6, <1>7, <1>8, <1>9, <1>10, <1>11, <1>12, <1>13, <1>14, <1>15, <1>16,
     <1>17 DEF LaunchNext

LEMMA StepTrackTypes ==
  ASSUME SessionInv, TrackTypes, ResourceNext
  PROVE  TrackTypes'
<1> USE DEF TrackTypes, Streaming, mdVars, fileVars, errVars, resourceVars, Ask, NothingAsked
<1>1. CASE NextSong
  BY <1>1 DEF NextSong
<1>2. CASE StreamFile
  BY <1>2 DEF StreamFile
<1>3. CASE Answer
  BY <1>3 DEF Answer
<1>4. CASE AskFails \/ ParseFails \/ CannotBuild \/ FopenFails \/ TellStdinFails
  BY <1>4 DEF AskFails, ParseFails, CannotBuild, FopenFails, TellStdinFails, NotOpened, Return
<1>5. CASE RefreshFails \/ TellRefreshFails
  BY <1>5 DEF RefreshFails, TellRefreshFails
<1>6. CASE AnswerUnreadable \/ QuietFails \/ Leave
  BY <1>6 DEF AnswerUnreadable, QuietFails, Leave
<1>7. CASE Parse
  BY <1>7 DEF Parse
<1>8. CASE Build
  BY <1>8 DEF Build
<1>9. CASE Fopen
  BY <1>9 DEF Fopen
<1>10. CASE DupStderr \/ QuietStderr
  BY <1>10 DEF DupStderr, QuietStderr
<1>11. CASE Popen
  BY <1>11 DEF Popen
<1>12. CASE Restore
  <2>1. err' = "tty"
    BY <1>12 DEF SessionInv, ResourceInv, Stderr, Restore, RestoresStderr
  <2> QED
    BY <1>12, <2>1 DEF Restore, Return
<1>13. CASE TellStdin
  BY <1>13 DEF TellStdin
<1>14. CASE Opened \/ TellRefresh
  BY <1>14 DEF Opened, TellRefresh
<1>15. CASE Query \/ TrackEnds
  BY <1>15 DEF Query, TrackEnds
<1>16. CASE Close
  BY <1>16 DEF Close, Return
<1> QED
  BY <1>1, <1>2, <1>3, <1>4, <1>5, <1>6, <1>7, <1>8, <1>9, <1>10, <1>11, <1>12, <1>13, <1>14,
     <1>15, <1>16 DEF ResourceNext

\* There are never more answers than questions.
LEMMA StepAnswered ==
  ASSUME Answered, ResourceNext
  PROVE  Answered'
<1>1. CASE answers' = answers
  BY <1>1 DEF Answered
<1>2. CASE answers' = << >>
  <2>1. << >> \in Seq({}) /\ Len(<< >>) = 0
    OBVIOUS
  <2> QED
    BY <1>2, <2>1 DEF Answered
<1>3. CASE Answer
  <2> DEFINE x == Songs[song][Questions[Len(answers) + 1]]
  <2>1. PICK S : answers \in Seq(S) /\ Len(answers) <= 3
    BY DEF Answered
  <2>2. Append(answers, x) \in Seq(S \cup {x}) /\ Len(Append(answers, x)) = Len(answers) + 1
    BY <2>1, OneMoreAnswer
  <2>3. answers' = << >> \/ (Len(Append(answers, x)) < 4 /\ answers' = Append(answers, x))
    BY <1>3 DEF Answer
  <2> HIDE DEF x
  <2>4. Len(Append(answers, x)) < 4 => Len(Append(answers, x)) <= 3
    BY <2>1, <2>2
  <2> QED
    BY <1>2, <2>2, <2>3, <2>4 DEF Answered
<1>4. ~Answer => answers' = answers \/ answers' = << >>
  BY DEF ResourceNext, NextSong, StreamFile, AskFails, RefreshFails, AnswerUnreadable, Parse,
     ParseFails, Build, CannotBuild, Fopen, FopenFails, DupStderr, QuietStderr, QuietFails,
     Popen, Restore, TellStdin, TellStdinFails, Opened, Query, TellRefresh,
     TellRefreshFails, TrackEnds, Close, Leave, NotOpened, Return, Ask, NothingAsked, mdVars,
     resourceVars
<1> QED
  BY <1>1, <1>2, <1>3, <1>4

\* A step of a track changes nothing of the process, or ends it.
LEMMA TrackLaunchTypes ==
  ASSUME LaunchTypes, ResourceNext
  PROVE  LaunchTypes'
<1>1. CASE UNCHANGED launchVars
  BY <1>1 DEF launchVars, LaunchTypes
<1>2. CASE AnswerUnreadable \/ QuietFails \/ Leave
  <2>1. \E n \in {0, 1, 2} : Exit(n) /\ UNCHANGED <<start, cfg>> /\ connected' = connected
    BY <1>2 DEF AnswerUnreadable, QuietFails, Leave
  <2> QED
    BY <2>1, ExitTypes
<1>3. UNCHANGED launchVars \/ AnswerUnreadable \/ QuietFails \/ Leave
  BY DEF ResourceNext, Streaming, NextSong, StreamFile, Answer, AskFails, RefreshFails, Parse,
     ParseFails, Build, CannotBuild, Fopen, FopenFails, DupStderr, QuietStderr, Popen,
     Restore, TellStdin, TellStdinFails, Opened, Query, TellRefresh, TellRefreshFails,
     TrackEnds, Close
<1> QED
  BY <1>1, <1>2, <1>3

\* Every variable keeps its type, whatever the files, options, tracks and songs, and
\* nothing is known of a track, and no command is there, where none is to be.
THEOREM TypeCorrect == Spec => []TypeOK
<1>1. LaunchTypes /\ TrackTypes /\ Answered /\ Known => TypeOK
  BY DEF LaunchTypes, TrackTypes, Answered, Known, TypeOK
<1>2. TypeInv => LaunchTypes /\ TrackTypes /\ Answered
  BY DEF LaunchTypes, TrackTypes, TypeInv, TypeOK
<1>3. SessionInv => Known
  BY DEF SessionInv, ResourceInv
<1>4. SessionInv /\ SessionInv' /\ TypeInv /\ [Next]_vars => TypeInv'
  <2> SUFFICES ASSUME SessionInv, SessionInv', TypeInv, [Next]_vars PROVE TypeInv'
    OBVIOUS
  <2>1. LaunchTypes /\ TrackTypes /\ Answered /\ Known'
    BY <1>2, <1>3 DEF SessionInv, ResourceInv
  <2>2. (LaunchTypes /\ TrackTypes /\ Answered)'
    <3>1. CASE LaunchNext /\ UNCHANGED resourceVars
      BY <2>1, <3>1, StepLaunchTypes DEF TrackTypes, Answered, resourceVars
    <3>2. CASE ResourceNext
      BY <2>1, <3>2, TrackLaunchTypes, StepTrackTypes, StepAnswered
    <3>3. CASE UNCHANGED vars
      BY <2>1, <3>3 DEF vars, launchVars, resourceVars, LaunchTypes, TrackTypes, Answered
    <3> QED
      BY <3>1, <3>2, <3>3 DEF Next, Ended
  <2>3. TypeOK'
    BY <2>1, <2>2 DEF LaunchTypes, TrackTypes, Answered, Known, TypeOK
  <2> QED
    BY <2>2, <2>3 DEF TypeInv
<1>5. TypeInv => TypeOK
  BY DEF TypeInv
<1> QED
  BY <1>4, <1>5, InitTypeInv, SessionInvAlways, PTL DEF Spec

\* Nothing is left of a track when the next is opened, or the process ends, whichever
\* step of openResource() or streamFile() failed: no file, no command, no
\* descriptor, no metadata, and stderr is where it was.
THEOREM AtRestAlways == Spec => []AtRest
<1>1. SessionInv => AtRest
  BY DEF SessionInv, ResourceInv, Handles, Known, Stderr, Nothing, AtRest
<1> QED
  BY <1>1, SessionInvAlways, PTL

\* A command gets the stderr that the options of the command line ask for.
LEMMA StepQuiet == SessionInv /\ QuietCommands /\ [Next]_vars => QuietCommands'
<1> SUFFICES ASSUME SessionInv, QuietCommands, [Next]_vars PROVE QuietCommands'
  OBVIOUS
<1>1. start' = start
  BY StreamingLaunch DEF Next, Ended, vars, launchVars, LaunchNext, Migrate, MigrateFails,
     ParseOption, HelpOrVersion, BadOption, ShuffleFile, NoConfigFile, CommandLineDone,
     Reload, ReloadFails, Configure, ConfigureFails, Connect, ConnectFails
<1>2. /\ GivenOption("q")' = GivenOption("q")
      /\ GivenOption("r")' = GivenOption("r")
  BY <1>1 DEF GivenOption, Among
<1>3. CASE Popen
  <2>1. child' = err /\ at = "popen" /\ pc = "stream"
    BY <1>3 DEF Popen, Streaming
  <2>2. child' = IF prog.quiet THEN "null" ELSE "tty"
    BY <2>1 DEF SessionInv, ResourceInv, Stderr
  <2>3. prog.quiet <=> GivenOption("q") \/ GivenOption("r")
    BY <2>1 DEF SessionInv, Line, LineFollowed, LineRead, GivenOption
  <2> QED
    BY <1>2, <2>2, <2>3 DEF QuietCommands
<1>4. CASE ~Popen
  <2>1. child' = child
    BY <1>4 DEF Next, Ended, vars, resourceVars, errVars, ResourceNext, NextSong, StreamFile,
       Answer, AskFails, RefreshFails, AnswerUnreadable, Parse, ParseFails, Build,
       CannotBuild, Fopen, FopenFails, DupStderr, QuietStderr, QuietFails, Restore,
       TellStdin, TellStdinFails, Opened, Query, TellRefresh, TellRefreshFails, TrackEnds,
       Close, Leave, NotOpened
  <2> QED
    BY <1>2, <2>1 DEF QuietCommands
<1> QED
  BY <1>3, <1>4

\* The stderr of every decoder and encoder is silenced if -q or -r was given, and only
\* then, whatever else the command line and the configuration say.
THEOREM CommandsAreQuiet == Spec => []QuietCommands
<1>1. Init => QuietCommands
  BY DEF Init, ResourceInit, QuietCommands
<1> QED
  BY <1>1, SessionInvAlways, StepQuiet, PTL DEF Spec

\* Whatever the command line, the files and the failures: the exit status is 2 exactly
\* for a line that cannot be followed, and 0 for a process that had connected, unless
\* it ended inside a track.
THEOREM ExitStatusIsRight == Spec => []ExitStatus
<1>1. Init => ExitStatus
  BY DEF Init, LaunchInit, ExitStatus
<1>2. SessionInv /\ ExitStatus /\ [Next]_vars => ExitStatus'
  <2> SUFFICES ASSUME SessionInv, ExitStatus, [Next]_vars PROVE ExitStatus'
    OBVIOUS
  <2>1. CASE LaunchNext
    BY <2>1, LaunchLine DEF SessionInv
  <2>2. CASE ResourceNext
    BY <2>2, StreamingLine DEF SessionInv
  <2>3. CASE UNCHANGED vars
    BY <2>3, LineFixed DEF ExitStatus, vars, launchVars, resourceVars, Begun
  <2> QED
    BY <2>1, <2>2, <2>3 DEF Next, Ended
<1> QED
  BY <1>1, <1>2, SessionInvAlways, PTL DEF Spec
================================================================================
