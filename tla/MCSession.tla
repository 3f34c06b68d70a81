-------------------------------- MODULE MCSession --------------------------------
(***************************************************************************)
(* Session for TLC: configuration files, legacy files and command lines to   *)
(* start from, one thing varied at a time, and tracks and songs whose names  *)
(* are hard on a shell.                                                       *)
(***************************************************************************)
EXTENDS Session

\* The values that are looked into, all pieces of them, and those too long.
LongValues == ("long" :> "lon")

Values ==
  {"", "a.ogg", "it's.mp3", "d.x/none", "d.x/a|b.ogg", "none", "list.m3u", "stdin",
   ".ogg", ".mp3", ".x/none", ".m3u", "prog",
   "dec @T@", "dec @T@ @t@", "old @T@ @M@", "dec @T@ @T@", "dec", "dec @s@ @T@",
   "dec @T@ &gt;", "dec @T@ >",
   "enc", "enc -a @a@ @M@", "enc @b@ @t@", "old @M@", "enc @T@", "enc @a@ @a@",
   "@a@ @t@ (@b@)", "@@a@", "@s@ @T@", "@M@", "@t@ @t@",
   "http://host:8001/live", "http://long:port/live", "http://host/live", "host:8000/live",
   "http://host:8001", "host", "long", "8001", "port", "/live"}

Chars(s) == [i \in 1..Len(s) |-> SubSeq(s, i, i)]
Texts ==
  [v \in Values |->
     IF Len(v) > 6 /\ SubSeq(v, 1, 7) = "http://"
     THEN <<"http://">> \o Chars(SubSeq(v, 8, Len(v))) ELSE Chars(v)]

Numbers == ("-1" :> -1) @@ ("0" :> 0) @@ ("1" :> 1) @@ ("2" :> 2) @@ ("8000" :> 8000)
           @@ ("8001" :> 8001) @@ ("65535" :> 65535) @@ ("65536" :> 65536)

\* Markup that spoils a file, and markup that is read as another value.
MarkupRead == ("a&amp;b" :> "a&b") @@ ("ra<!-- -->dio" :> "radio") @@ ("dec @T@ &gt;" :> "dec @T@ >")
MarkupValues == {"R&B", "<pass", "a&b", "dec @T@ >"} \cup DOMAIN MarkupRead
UnreadablePaths == {"gone"}

--------------------------------------------------------------------------------
(* Tracks and songs. *)

Tagged(artist, album, title) ==
  [artist |-> Chars(artist), album |-> Chars(album), title |-> Chars(title)]

TagsRead == ("a.ogg" :> Tagged("a", "l", "o'")) @@ ("it's.mp3" :> Tagged("", "", ""))
            @@ ("d.x/none" :> Tagged("a", "b", "c"))

SongsPlayed ==
  << Tagged("t@", "@a@", "can't'n't won't") @@ [songinfo |-> << >>],
     Tagged("", "", "b") @@ [songinfo |-> Chars("x' | y")] >>

Playlist == {"a.ogg", "it's.mp3", "d.x/none", "d.x/a|b.ogg", "none", "stdin"}

--------------------------------------------------------------------------------
(* Command lines. *)

Plainly == <<<<"c", "conf">>>>
Quietly == <<<<"q", "">>, <<"c", "conf">>>>

WithStatus == <<<<"c", "conf">>, <<"r", "">>>>

CommandLines ==
  { << >>, Plainly, Quietly, WithStatus,
    <<<<"c", "long">>>>, <<<<"c", "">>>>, <<<<"c", "conf">>, <<"p", "long">>>>,
    <<<<"c", "conf">>, <<"c", "long">>, <<"h", "">>>>,
    <<<<"c", "long">>, <<"h", "">>>>, <<<<"h", "">>, <<"x", "">>>>,
    <<<<"p", "pid">>, <<"V", "">>>>, <<<<"x", "">>, <<"V", "">>>>,
    <<<<"s", "list.m3u">>, <<"c", "conf">>>>, <<<<"s", "list.m3u">>, <<"x", "">>>>,
    <<<<"v", "">>, <<"p", "pid">>>>, <<<<"p", "pid">>, <<"c", "conf">>, <<"v", "">>>> }

Given(f, a) == [legacy |-> NULL, file |-> f, args |-> a, libshout |-> {"tls"}]

--------------------------------------------------------------------------------
(* Configuration files. *)

Server0 == <<<<"hostname", "host">>, <<"password", "hackme">>>>
Stream0 == <<<<"mountpoint", "/live">>, <<"format", "ogg">>>>
Intake0 == <<<<"filename", "a.ogg">>>>

File0 ==
  [state |-> "ok", server |-> <<Server0>>, stream |-> <<Stream0>>, intake |-> <<Intake0>>,
   decoder |-> << >>, encoder |-> << >>, metadata |-> << >>]

BadFiles ==
  { [File0 EXCEPT !.state = s] : s \in {"missing", "writable", "malformed", "empty", "foreign"} }

ServerChanges ==
  { << >>, <<<<"protocol", "https">>>>,
    <<<<"protocol", "https">>, <<"tls", "none">>>>, <<<<"tls", "none">>, <<"protocol", "https">>>>,
    <<<<"tls", "required">>>>, <<<<"tls", "required">>, <<"protocol", "icy">>>>,
    <<<<"tls", "required">>, <<"tls", "may">>>>, <<<<"tls", "none">>>>,
    <<<<"protocol", "roaraudio">>>>, <<<<"protocol", "gopher">>>>, <<<<"tls", "">>>>,
    <<<<"ca_file", "ca">>, <<"ca_dir", "certs">>, <<"tls_cipher_suite", "high">>>>,
    <<<<"ca_file", "gone">>>>, <<<<"client_cert", "gone">>>>,
    <<<<"port", "65535">>, <<"user", "me">>>>, <<<<"port", "0">>>>, <<<<"port", "65536">>>>,
    <<<<"hostname", "long">>>>, <<<<"name", "other">>>>, <<<<"reconnect_attempts", "2">>>> }

ServerFiles == { [File0 EXCEPT !.server = <<Server0 \o els>>] : els \in ServerChanges }

StreamChanges ==
  { <<<<"format", "matroska">>>>, <<<<"format", "wma">>>>, <<<<"mountpoint", "">>>>,
    <<<<"public", "yes">>, <<"stream_name", "radio">>, <<"stream_description", "R&B">>>>,
    <<<<"public", "no">>, <<"stream_bitrate", "128">>, <<"stream_quality", "5">>>>,
    <<<<"public", "maybe">>>>, <<<<"server", "nowhere">>>>, <<<<"intake", "nowhere">>>>,
    <<<<"name", "second">>>>, <<<<"encoder", "">>>> }

Other == <<<<"name", "other">>, <<"hostname", "backup">>, <<"password", "p">>, <<"port", "8001">>>>

OtherFiles ==
  { [File0 EXCEPT !.stream = <<Stream0 \o els>>] : els \in StreamChanges }
  \cup { [File0 EXCEPT !.stream = <<Stream0 \o <<<<"server", s>>>>>>, !.server = l] :
           s \in {"other", "default"},
           l \in {<<Other, Server0>>, <<Other, Other \o Server0>>, <<Other>>} }
  \cup { [File0 EXCEPT !.stream = <<Stream0 \o <<<<"server", "other">>>>>>, !.server = <<s>> \o l] :
           s \in {Server0, Server0 \o <<<<"protocol", "https">>, <<"user", "me">>>>},
           l \in {<<Other>>, <<<<<<"port", "8001">>>>, Other>>,
                 <<<<<<"name", "third">>>>, Server0, <<<<"tls", "none">>, <<"name", "other">>>>>>} }
  \cup { [File0 EXCEPT !.server = l, !.stream = m] :
           l \in {<<Other, Server0, <<<<"tls", "required">>>>>>, <<Server0, <<<<"tls", "may">>>>>>},
           m \in {<<Stream0, <<<<"public", "1">>>>>>,
                 <<Stream0 \o <<<<"name", "second">>>>, Stream0, <<<<"stream_name", "radio">>>>>>} }
  \cup { [File0 EXCEPT !.stream = <<<<<<"format", "ogg">>>>>>],
         [File0 EXCEPT !.stream = <<>>], [File0 EXCEPT !.intake = <<>>],
         [File0 EXCEPT !.server = <<Tail(Server0)>>] }

Connecting ==
  { Given(File0, a) : a \in CommandLines }
  \cup { [Given(f, Plainly) EXCEPT !.libshout = l] :
           f \in ServerFiles \cup OtherFiles,
           l \in {{"tls"}, {}, {"tls", "roaraudio", "matroska"}} }
  \cup { Given(f, Plainly) : f \in BadFiles }

--------------------------------------------------------------------------------
(* Files with tracks, commands and metadata. *)

Decoders(d) == <<<<<<"name", "d">>, <<"program", d>>, <<"file_ext", ".ogg">>, <<"file_ext", ".mp3">>>>>>
Encoders(e) == <<<<<<"name", "e">>, <<"format", "mp3">>, <<"program", e>>>>>>
WithEncoder == <<<<<<"mountpoint", "/live">>, <<"format", "mp3">>, <<"encoder", "e">>>>>>
NoEncoder == <<<<<<"mountpoint", "/live">>, <<"format", "mp3">>>>>>

MetadataChanges ==
  { << >>, <<<<"format_str", "@s@ @T@">>>>, <<<<"program", "prog">>>>,
    <<<<"program", "prog">>, <<"format_str", "@a@ @t@ (@b@)">>>>,
    <<<<"program", "prog">>, <<"no_updates", "yes">>, <<"refresh_interval", "1">>>> }

Intakes0 == { <<<<"filename", "list.m3u">>>>, <<<<"type", "stdin">>>>, <<<<"filename", "it's.mp3">>>> }

PlainFiles ==
  { [File0 EXCEPT !.stream = s, !.intake = <<i>>, !.metadata = <<m>>] :
      s \in {<<Stream0>>, NoEncoder}, i \in Intakes0, m \in MetadataChanges }

Commands == { <<"dec @T@", "enc -a @a@ @M@">>, <<"dec @T@ @t@", "enc -a @a@ @M@">>,
              <<"old @T@ @M@", "enc @b@ @t@">>, <<"dec @T@", "enc">> }

CommandFiles ==
  { [File0 EXCEPT !.stream = WithEncoder, !.intake = <<<<<<"filename", "list.m3u">>>>>>,
                  !.metadata = <<m>>, !.decoder = Decoders(c[1]), !.encoder = Encoders(c[2])] :
      c \in Commands, m \in MetadataChanges }

\* Commands that are not accepted, decoders and encoders that are not there.
BadCommandFiles ==
  { [File0 EXCEPT !.stream = WithEncoder, !.decoder = d, !.encoder = Encoders("enc")] :
      d \in { << >>, Decoders("dec @T@ @T@"), Decoders("dec"), Decoders("dec @s@ @T@"),
              <<Decoders("dec @T@")[1], <<<<"program", "old @T@ @M@">>, <<"file_ext", ".mp3">>>>>>,
              <<Decoders("dec @T@")[1], Decoders("dec @T@")[1]>> } }
  \cup { [File0 EXCEPT !.stream = WithEncoder, !.decoder = Decoders("dec @T@"), !.encoder = e] :
           e \in { << >>, Encoders("enc @T@"), Encoders("enc @a@ @a@") } }
  \cup { [File0 EXCEPT !.metadata = <<m>>] :
           m \in { <<<<"format_str", "@M@">>>>, <<<<"format_str", "@t@ @t@">>, <<"no_updates", "yes">>>>,
                   <<<<"program", "long">>>>, <<<<"refresh_interval", "-1">>, <<"normalize_strings", "1">>>> } }

ElementsOf(blocks) == UNION { {b[i][1] : i \in DOMAIN b} : b \in Range(blocks) }

Playing ==
  { Given(f, Plainly) : f \in PlainFiles \cup BadCommandFiles }
  \cup { Given(f, Plainly) : f \in CommandFiles }
  \cup { Given(f, a) : a \in {Quietly, WithStatus},
           f \in {g \in CommandFiles : "program" \notin ElementsOf(g.metadata)} }

--------------------------------------------------------------------------------
(* Legacy files. *)

Legacy0 ==
  <<<<"url", "http://host:8001/live">>, <<"sourcepassword", "hackme">>, <<"format", "mp3">>,
    <<"filename", "it's.mp3">>>>

OldFile(els, encdecs) == [state |-> "ok", elements |-> els, encdecs |-> encdecs]

EncDec(format, match, decode, encode) ==
  <<<<"format", format>>, <<"match", match>>, <<"decode", decode>>, <<"encode", encode>>>>

LegacyChanges ==
  { << >>, <<<<"sourceuser", "me">>>>, <<<<"sourceuser", "long">>>>, <<<<"url", "host">>>>,
    <<<<"svrinfoname", "radio">>, <<"svrinfopublic", "1">>, <<"svrinfobitrate", "128">>>>,
    <<<<"svrinfodescription", "R&B">>>>, <<<<"svrinfoname", "ra<!-- -->dio">>>>,
    <<<<"metadata_progname", "prog">>,
      <<"metadata_format", "@a@ @t@ (@b@)">>, <<"metadata_refreshinterval", "2">>>>,
    <<<<"metadata_format", "@M@">>>>, <<<<"metadata_refreshinterval", "0">>>>,
    <<<<"shuffle", "1">>, <<"stream_once", "1">>, <<"reconnect_tries", "2">>>>,
    <<<<"shuffle", "2">>>>, <<<<"playlist_program", "1">>, <<"shuffle", "">>>>,
    <<<<"enable", "1">>>> }

OldUrls == {"http://long:port/live", "http://host/live", "host:8000/live", "http://host:8001", ""}

EncDecLists ==
  { << EncDec("mp3", ".mp3", "dec @T@", "enc"), EncDec("vorbis", ".ogg", "old @T@ @M@", "old @M@") >>,
    << EncDec("vorbis", ".ogg", "dec @T@", "enc"), EncDec("theora", ".ogm", "old @T@ @M@", "old @M@") >>,
    << EncDec("mp3", ".mp3", "dec @T@", "enc"), EncDec("flac", ".mp3", "old @T@ @M@", "") >>,
    << EncDec("", ".ogg", "dec @T@", "enc"), EncDec("mp3", ".mp3", "old @T@ @M@", "") >>,
    << EncDec("default", ".ogg", "dec @T@", "enc"), EncDec("mp3", ".mp3", "old @T@ @M@", "") >>,
    << EncDec("mp3", "", "dec @T@", "enc") >>, << EncDec("mp3", ".mp3", "dec", "enc") >>,
    << EncDec("mp3", ".mp3", "", "enc @T@") >>, << EncDec("mp3", ".mp3", "dec @T@ &gt;", "enc") >>,
    << EncDec("mp3", ".mp3", "dec @T@", "enc") \o <<<<"decode", "old @T@ @M@">>>> >> }

Migrating ==
  { [Given(File0, a) EXCEPT !.legacy = l] :
      a \in {Plainly}, l \in { OldFile(Legacy0 \o els, << >>) : els \in LegacyChanges }
        \cup { OldFile(<<<<"url", u>>>> \o Tail(Legacy0), << >>) : u \in OldUrls }
        \cup { OldFile(SelectSeq(Legacy0, LAMBDA el : el[1] # e), << >>) :
                 e \in {"url", "sourcepassword", "format", "filename"} }
        \cup { OldFile(SelectSeq(Legacy0, LAMBDA el : el[1] # "filename") \o <<<<"filename", v>>>>, << >>) :
                 v \in {"stdin", "long"} }
        \cup { OldFile(SelectSeq(Legacy0, LAMBDA el : el[1] # "sourcepassword")
                       \o <<<<"sourcepassword", p>>>>, << >>) : p \in {"a&amp;b", "<pass"} }
        \cup { OldFile(Legacy0 \o <<<<"enable", "1">>>>, l) : l \in EncDecLists }
        \cup { [OldFile(Legacy0, << >>) EXCEPT !.state = "malformed"] } }
  \cup { [Given(File0, a) EXCEPT !.legacy = OldFile(Legacy0, << >>)] :
           a \in {<<<<"h", "">>>>, << >>, Quietly} }

AllStarts == Connecting \cup Playing \cup Migrating
================================================================================
