----------------------------- MODULE EzstreamHistory -----------------------------
(***************************************************************************)
(* Ezstream with history variables: what the program still does after it    *)
(* was told to quit, how old the playlist is that it walks, which requests  *)
(* it took from their flags and has yet to fulfil, and which failures it    *)
(* met.  They restrict nothing; every property below is about the code's    *)
(* own behaviour over several steps.                                        *)
(***************************************************************************)
EXTENDS Ezstream

VARIABLES
  lateOpens, lateSends, lateTries,  \* resources, buffers, connects tried since quit
  hupEdits,    \* edits of the playlist file when the last HUP arrived
  listEdits,   \* edits of the playlist file when the playlist was read
  overdue,     \* tracks begun since the HUP that is still pending
  owedSkip,    \* a skip was taken from skipTrack, the track has not ended
  owedQuery,   \* a query was taken, the metadata program has not run
  cutShort,    \* a read failed half-way, and no track ended with a connection since
  failures,    \* attempts to connect that failed since one succeeded
  fault        \* a failure that ends the program, since the last open

late    == <<lateOpens, lateSends, lateTries>>
reload  == <<hupEdits, listEdits, overdue>>
owed    == <<owedSkip, owedQuery, cutShort>>
history == <<late, reload, owed, failures, fault>>
allVars == <<vars, history>>

HistoryInit ==
  /\ Init
  /\ lateOpens = 0 /\ lateSends = 0 /\ lateTries = 0
  /\ hupEdits = 0 /\ listEdits = 0 /\ overdue = 0
  /\ owedSkip = FALSE /\ owedQuery = FALSE /\ cutShort = FALSE
  /\ failures = 0 /\ fault = FALSE

--------------------------------------------------------------------------------
(* What each part of the history makes of a step. *)

Leaving(point) == pc = point /\ pc' # point

Tried == Reconnecting /\ tries' # tries

Count(n, done) == IF quit /\ done THEN n + 1 ELSE n

CountLate ==
  /\ lateOpens' = Count(lateOpens, Leaving("open"))
  /\ lateSends' = Count(lateSends, Leaving("send"))
  /\ lateTries' = Count(lateTries, Tried)

ReadsList ==
  /\ pc' = "next"
  /\ pc = "reread" \/ (pc = "load" /\ playlist = NoPlaylist)

DateList ==
  /\ listEdits' = IF ReadsList THEN diskEdits ELSE listEdits
  /\ overdue' = IF ~rereadPlaylist' THEN 0
                ELSE IF pc = "next" /\ pc' = "open" THEN overdue + 1
                ELSE overdue

Updates == cfg.metadata /\ ~cfg.no_updates

\* Closing the track settles both: the next one asks for its own metadata.
TakeRequests ==
  /\ owedSkip' = (pc # "close" /\ (owedSkip \/ (skipTrack /\ ~skipTrack')))
  /\ owedQuery' = (/\ pc # "close" /\ ~(Leaving("take_query") /\ Asked)
                   /\ owedQuery \/ (Updates /\ queryMetadata /\ ~queryMetadata'))

NoteCutShort ==
  cutShort' = (readError' # "none" \/ (cutShort /\ ~(pc = "close" /\ connected')))

\* Counted up to one more than is allowed.
CountFailures ==
  failures' = IF connected' THEN 0
              ELSE IF Tried /\ failures <= cfg.attempts THEN failures + 1
              ELSE failures

NoteFault ==
  fault' = \/ pc \in {"load", "reread"} /\ pc' = "main_check"
           \/ pc = "open" /\ TooManyErrors(resource_errors')
           \/ ret' = "SERVERR"
           \/ MetadataFails
           \/ fault /\ pc # "open"

Observe == CountLate /\ DateList /\ TakeRequests /\ NoteCutShort /\ CountFailures /\ NoteFault

HistoryNext ==
  \/ SigHup /\ hupEdits' = diskEdits /\ Observe
  \/ /\ Step \/ SigTerm \/ SigUsr1 \/ SigUsr2 \/ EditPlaylist \/ Gone
     /\ UNCHANGED hupEdits /\ Observe

HistorySpec == HistoryInit /\ [][HistoryNext]_allVars

--------------------------------------------------------------------------------
(* Properties. *)

\* Wherever INT or TERM finds the program, in a wait for input, a sleep between
\* two connection attempts or a list of unreadable files: it opens at most one
\* more resource, sends at most one more buffer and tries to connect at most
\* twice, once before and once after that buffer.
StopsPromptly == lateOpens <= 1 /\ lateSends <= 1 /\ lateTries <= 2

\* A HUP is never lost: a track that begins comes from a playlist read after the
\* last HUP, or that HUP is still pending.  TrackDone clears the flag before it
\* reads the file, so a HUP in between is only served twice.
NoHupLost ==
  pc = "open" /\ cfg.intake = "playlist" =>
    rereadPlaylist \/ listEdits >= hupEdits

\* A pending HUP waits for one track at most: however that track ends (skipped,
\* not opened, the connection broken) the file is reread after it.
HupWaitsForOneTrack == PlaylistMode => overdue <= 1

\* USR1 "skips the currently playing track" (doc/ezstream.1.in.in:106): a skip
\* that was taken from its flag ends the track before any more of it is read.
SkipEndsTrack == pc = "fread" => ~owedSkip

\* So it does even where reads that are cut short are left out.
SkipEndsTrackRead == ~cutShort => SkipEndsTrack

\* So it is as long as no HUP, no USR2 and no read that is cut short interferes.
SkipEndsTrackAlone ==
  cfg.signals \cap {"HUP", "USR2"} = {} /\ ~cutShort => SkipEndsTrack

\* A query that was taken from its flag runs the metadata program before any more
\* of the track is read, as long as no HUP and no read that is cut short interferes.
QueryRunsProgramAlone ==
  pc = "fread" /\ "HUP" \notin cfg.signals /\ ~cutShort => ~owedQuery

\* reconnect_attempts is the number of attempts "in case of connection issues"
\* (doc/ezstream.1.in.in:216), not the number per call of reconnect(): so it would be
\* where no read is cut short, if nothing came between.
AttemptsBounded == cfg.attempts > 0 /\ ~cutShort => failures <= cfg.attempts

\* It is so as long as neither USR1 nor USR2 hides that reconnect() gave up: either may
\* replace the result that says so, and another round of attempts follows.
AttemptsBoundedAlone ==
  cfg.signals \cap {"USR1", "USR2"} = {} => AttemptsBounded

\* Without INT or TERM and without stream_once, the program ends for a failure
\* only: no list that came to its end, skip, reread or connection that was
\* restored makes streamFile() return its initial 0.
EndsForAReason == pc = "shutdown" => quit \/ cfg.once \/ fault
================================================================================
