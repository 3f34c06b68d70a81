--------------------------------- MODULE Legacy ---------------------------------
(***************************************************************************)
(* ezstream-cfgmigrate: the configuration file of version 0.x               *)
(* (src/src/ezconfig0.c) and what it becomes (src/src/ezstream-cfgmigrate.c).*)
(* A legacy file is a sequence of elements <<name, value>>, those of its    *)
(* <reencode> among them, and of its <encdec> blocks, each a sequence of     *)
(* elements again.                                                          *)
(***************************************************************************)
EXTENDS Settings

Strings0 ==
  {"url", "sourceuser", "sourcepassword", "format", "filename", "metadata_progname",
   "metadata_format", "svrinfoname", "svrinfourl", "svrinfogenre",
   "svrinfodescription", "svrinfobitrate", "svrinfochannels", "svrinfosamplerate",
   "svrinfoquality"}
Switches0 == {"playlist_program", "shuffle", "stream_once", "svrinfopublic", "enable"}
Numbers0 == {"metadata_refreshinterval", "reconnect_tries"}
Elements0 == Strings0 \cup Switches0 \cup Numbers0
EncDecElements == {"format", "match", "decode", "encode"}

\* The blocks that struct EZCONFIG has room for; a file with more of them writes
\* behind it, and is not one that is modelled.
MAX_FORMAT_ENCDEC == 15

--------------------------------------------------------------------------------
(* parseConfig() *)

DecoderLine(raw) ==
  /\ ~Has(raw, String) /\ Has(raw, Track)
  /\ AtMostOnce({Track, Metadata, Artist, Title}, raw)

EncoderLine(raw) ==
  ~Has(raw, Track) /\ ~Has(raw, String) /\ AtMostOnce({Metadata, Artist, Title}, raw)

FormatLine(raw) ==
  ~Has(raw, Metadata) /\ AtMostOnce({Track, String, Artist, Title}, raw)

\* Is a value that is not empty without an error?
ElementOk(e, raw) ==
  CASE e \in Switches0 -> IsNumber(raw, 0, 1)
    [] e = "metadata_refreshinterval" -> IsNumber(raw, -1, MaxInt)
    [] e = "reconnect_tries" -> IsNumber(raw, 0, MaxInt)
    [] e = "metadata_format" -> FormatLine(raw)
    [] e \in {"filename", "metadata_progname"} -> raw \notin DOMAIN Truncated
    [] e = "decode" -> DecoderLine(raw)
    [] e = "encode" -> EncoderLine(raw)
    [] OTHER -> TRUE

\* An element; a second one of its name is an error, unless the first was empty.
ReadElement(r, el) ==
  CASE r.set[el[1]] # NULL -> [r EXCEPT !.ok = FALSE]
    [] r.set[el[1]] = NULL /\ el[2] = NoValue -> r
    [] OTHER -> [set |-> [r.set EXCEPT ![el[1]] = el[2]],
                 ok |-> r.ok /\ ElementOk(el[1], el[2])]

ReadElements(names, els) ==
  FoldLeft(ReadElement, [set |-> [e \in names |-> NULL], ok |-> TRUE], els)

\* A file with an error is as good as empty: main() does not learn of it.
ParseConfig(legacy) ==
  LET read == ReadElements(Elements0, legacy.elements)
      encdecs == [i \in DOMAIN legacy.encdecs |->
                    ReadElements(EncDecElements, legacy.encdecs[i])]
      ok == /\ legacy.state = "ok" /\ read.ok
            /\ \A i \in DOMAIN encdecs : encdecs[i].ok
  IN [set |-> IF ok THEN read.set ELSE [e \in Elements0 |-> NULL],
      encdecs |-> IF ok THEN [i \in DOMAIN encdecs |-> encdecs[i].set] ELSE << >>]

\* Numbers and switches that were not set are zero, but for the interval.
Value0(ez, e) == IF ez.set[e] = NULL THEN 0 ELSE Numerals[ez.set[e]]
Interval0(ez) ==
  IF ez.set["metadata_refreshinterval"] = NULL THEN -1 ELSE Value0(ez, "metadata_refreshinterval")

--------------------------------------------------------------------------------
(* _url_parse() and _parse_ezconfig0() *)

\* The value with these characters.
Named(chars) == CHOOSE v \in DOMAIN Text : Text[v] = chars
FirstOf(c, text, from) ==
  LET at == {i \in from..Len(text) : text[i] = c}
  IN IF at = {} THEN 0 ELSE CHOOSE i \in at : \A j \in at : i <= j

\* "http://" is one character here; host, port and mountpoint, or NULL.
UrlParts(url) ==
  LET t == Text[url]
      colon == FirstOf(":", t, 2)
      slash == FirstOf("/", t, colon + 1)
  IN IF t[1] # "http://" \/ colon = 0 \/ slash = 0 THEN NULL
     ELSE [host |-> Named(SubSeq(t, 2, colon - 1)),
           port |-> Named(SubSeq(t, colon + 1, slash - 1)),
           mount |-> Named(SubSeq(t, slash, Len(t)))]

NewFormat(format) == IF format \in {"vorbis", "theora"} THEN "ogg" ELSE format

\* Settings that are made one after the other, each refused one with a warning.
NextSetting(of, list, el) == Set(of[1], list, of[2], el[1], el[2]).list
SetAll(kind, list, cur, els) ==
  FoldLeft(LAMBDA l, el : NextSetting(<<kind, cur>>, l, el), list, els)

\* The element el, from the legacy element e if that was given.
From0(ez, e, el) == IF ez.set[e] = NULL THEN << >> ELSE <<<<el, ez.set[e]>>>>
Switch(ez, e, el) == <<<<el, IF Value0(ez, e) = 1 THEN "1" ELSE "0">>>>

ServerFrom(ez, url) ==
  SetAll("server", <<NewEntry("server")>>, 1,
    <<<<"protocol", "http">>>> \o <<<<"hostname", url.host>>>> \o <<<<"port", url.port>>>>
    \o From0(ez, "sourceuser", "user") \o From0(ez, "sourcepassword", "password")
    \o From0(ez, "reconnect_tries", "reconnect_attempts"))

\* Reencoding to a format that was not given reads a NULL pointer: not modelled.
StreamFrom(ez, url) ==
  LET format == IF ez.set["format"] = NULL THEN << >>
                ELSE <<<<"format", NewFormat(ez.set["format"])>>>>
      encoder == IF Value0(ez, "enable") = 1
                 THEN <<<<"encoder", NewFormat(ez.set["format"])>>>> ELSE << >>
  IN SetAll("stream", <<NewEntry("stream")>>, 1,
       <<<<"mountpoint", url.mount>>>> \o format
       \o From0(ez, "svrinfoname", "stream_name") \o From0(ez, "svrinfourl", "stream_url")
       \o From0(ez, "svrinfogenre", "stream_genre")
       \o From0(ez, "svrinfodescription", "stream_description")
       \o From0(ez, "svrinfobitrate", "stream_bitrate")
       \o From0(ez, "svrinfochannels", "stream_channels")
       \o From0(ez, "svrinfosamplerate", "stream_samplerate")
       \o From0(ez, "svrinfoquality", "stream_quality")
       \o Switch(ez, "svrinfopublic", "public") \o encoder)

\* Mutant: the standard input is taken for a file of this name.
FileFrom_Plain(ez) == From0(ez, "filename", "filename")

FileFrom(ez) ==
  IF ez.set["filename"] = "stdin" THEN <<<<"type", "stdin">>>>
  ELSE From0(ez, "filename", "filename")

IntakeFrom(ez) ==
  LET program == IF Value0(ez, "playlist_program") = 1 THEN <<<<"type", "program">>>>
                 ELSE << >>
  IN SetAll("intake", <<NewEntry("intake")>>, 1,
            FileFrom(ez) \o program \o Switch(ez, "shuffle", "shuffle")
            \o Switch(ez, "stream_once", "stream_once"))

MetadataFrom(ez) ==
  SetAll("metadata", <<NewEntry("metadata")>>, 1,
    From0(ez, "metadata_progname", "program") \o From0(ez, "metadata_format", "format_str")
    \o (IF Interval0(ez) # 0
        THEN <<<<"refresh_interval",
                 CHOOSE n \in DOMAIN Numerals : Numerals[n] = Interval0(ez)>>>>
        ELSE << >>))

Validated(kind, list, cur) ==
  IF Valid(kind, list[cur]) THEN list ELSE RemoveAt(list, cur)

\* The encoder of an <encdec>: it starts as the one called default.
AddEncoder(list, ed) ==
  LET start == Got("encoder", list, Default)
      cur == Find(start, Default)
      name == IF ed["format"] = NULL THEN << >>
              ELSE <<<<"name", NewFormat(ed["format"])>>, <<"format", NewFormat(ed["format"])>>>>
  IN IF ed["encode"] = NULL THEN list
     ELSE Validated("encoder",
            SetAll("encoder", start, cur, <<<<"program", ed["encode"]>>>> \o name), cur)

\* Mutant: the decoder keeps the name it has.
AddDecoder_Unnamed(list, ed) ==
  LET start == Got("decoder", list, Default)
      cur == Find(start, Default)
      match == IF ed["match"] = NULL THEN << >> ELSE <<<<"file_ext", ed["match"]>>>>
  IN IF ed["decode"] = NULL THEN list
     ELSE Validated("decoder",
            SetAll("decoder", start, cur, <<<<"program", ed["decode"]>>>> \o match), cur)

\* The decoder of an <encdec>: the one for this format, or the one called default.
AddDecoder(list, ed) ==
  LET format == IF ed["format"] = NULL THEN NULL ELSE NewFormat(ed["format"])
      known == format # NULL /\ Find(list, format) # 0
      start == IF known THEN list ELSE Got("decoder", list, Default)
      cur == IF known THEN Find(list, format) ELSE Find(start, Default)
      name == IF format = NULL THEN << >> ELSE <<<<"name", format>>>>
      match == IF ed["match"] = NULL THEN << >> ELSE <<<<"file_ext", ed["match"]>>>>
  IN IF ed["decode"] = NULL THEN list
     ELSE Validated("decoder",
            SetAll("decoder", start, cur, <<<<"program", ed["decode"]>>>> \o name \o match),
            cur)

\* The new configuration, or NULL.
Migrated(ez) ==
  LET url == IF ez.set["url"] = NULL THEN NULL ELSE UrlParts(ez.set["url"])
      stream == StreamFrom(ez, url)
      encoders == FoldLeft(AddEncoder, << >>, ez.encdecs)
      known == stream[1].encoder # NULL /\ Find(encoders, stream[1].encoder) # 0
      cfg == [server |-> ServerFrom(ez, url),
              stream |-> IF known THEN stream ELSE [stream EXCEPT ![1].encoder = NULL],
              intake |-> IntakeFrom(ez), metadata |-> MetadataFrom(ez),
              encoder |-> encoders, decoder |-> FoldLeft(AddDecoder, << >>, ez.encdecs)]
  IN IF url = NULL THEN NULL
     ELSE IF \A k \in {"server", "stream", "intake"} : Valid(k, cfg[k][1]) THEN cfg
     ELSE NULL
================================================================================
