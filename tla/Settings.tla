-------------------------------- MODULE Settings --------------------------------
(***************************************************************************)
(* The entries of the configuration (src/src/cfg.c, cfg_server.c,           *)
(* cfg_stream.c, cfg_intake.c, cfg_encoder.c, cfg_decoder.c): the elements  *)
(* of each kind, what their setters accept and store, what an entry needs   *)
(* to be valid, and the getters that do more than return a field.           *)
(*                                                                          *)
(* A value is a string, "" is the empty one, and where case does not matter *)
(* it is in lower case.  Text gives the characters of those that are looked *)
(* into.                                                                    *)
(***************************************************************************)
EXTENDS ShellText

CONSTANTS
  Text,       \* the characters of some values
  Numerals,   \* the values that are numbers, and these
  Truncated   \* the values that no fixed buffer holds, and what fits of each

Default == "default"   \* CFG_DEFAULT
NoValue == ""          \* the value of an empty element

\* Which setter an element has: one for all elements that are set alike.
ServerElements ==
  [name |-> "name", protocol |-> "protocol", hostname |-> "buffer", port |-> "port",
   user |-> "buffer", password |-> "buffer", tls |-> "tls", tls_cipher_suite |-> "buffer",
   ca_dir |-> "buffer", ca_file |-> "buffer", client_cert |-> "buffer",
   reconnect_attempts |-> "uint"]

StreamElements ==
  [name |-> "name", mountpoint |-> "string", intake |-> "string", server |-> "string",
   public |-> "boolean", format |-> "format", encoder |-> "encoder",
   stream_name |-> "string", stream_url |-> "string", stream_genre |-> "string",
   stream_description |-> "string", stream_quality |-> "string",
   stream_bitrate |-> "string", stream_samplerate |-> "string",
   stream_channels |-> "string"]

IntakeElements ==
  [name |-> "name", type |-> "type", filename |-> "buffer", shuffle |-> "boolean",
   stream_once |-> "boolean"]

DecoderElements == [name |-> "name", program |-> "string", file_ext |-> "ext"]

EncoderElements == [name |-> "name", format |-> "format", program |-> "string"]

MetadataElements ==
  [program |-> "buffer", format_str |-> "template", refresh_interval |-> "int",
   normalize_strings |-> "boolean", no_updates |-> "boolean"]

Setter ==
  [server |-> ServerElements, stream |-> StreamElements, intake |-> IntakeElements,
   decoder |-> DecoderElements, encoder |-> EncoderElements,
   metadata |-> MetadataElements]

Lists == {"server", "stream", "intake", "decoder", "encoder"}

\* Zeroed memory, but for the name.
Unset(class) ==
  CASE class = "name" -> Default
    [] class = "boolean" -> FALSE
    [] class \in {"port", "uint"} -> 0
    [] class = "protocol" -> "http"
    [] class = "tls" -> "may"
    [] class = "type" -> "autodetect"
    [] class = "int" -> -1
    [] class = "ext" -> << >>
    [] OTHER -> NULL

NewEntry(kind) == [e \in DOMAIN Setter[kind] |-> Unset(Setter[kind][e])]

--------------------------------------------------------------------------------
(* Setters. *)

True == {"true", "yes", "1"}
False == {"false", "no", "0"}

OneOf ==
  [protocol |-> {"http", "https", "icy", "roaraudio"},
   tls |-> {"none", "may", "required"},
   type |-> {"autodetect", "file", "playlist", "program", "stdin"},
   format |-> {"ogg", "mp3", "webm", "matroska"}]

\* A NULL pointer is no value, and an empty one means nothing.
ASSUME SettingsAssumption ==
  {NULL, NoValue} \cap
    (True \cup DOMAIN Numerals \cup OneOf.protocol \cup OneOf.tls \cup OneOf.format) = {}

\* strtonum() with bounds.
IsNumber(raw, min, max) ==
  raw \in DOMAIN Numerals /\ Numerals[raw] >= min /\ Numerals[raw] <= max

MaxInt == 2147483647   \* UINT_MAX and INT_MAX; no values beyond it are used

\* A second one is looked for behind the first.
AtMostOnce(words, raw) ==
  \A w \in words : \A i, j \in PlacesOf(w, Text[raw]) : j < i + Len(w)
Has(raw, w) == PlacesOf(w, Text[raw]) # {}

\* cfg_set_metadata_format_str()
TemplateAccepted(raw) ==
  ~Has(raw, Metadata) /\ AtMostOnce({Track, String, Artist, Title}, raw)

\* cfg_*_set_name(): no other entry of the list has it.
NameFree(list, cur, raw) == \A i \in DOMAIN list \ {cur} : list[i].name # raw

\* SET_STRLCPY()
FitsBuffer(raw) == raw # NoValue /\ raw \notin DOMAIN Truncated

Accepts(class, list, cur, raw) ==
  /\ raw = NoValue => class = "encoder"
  /\ raw # NoValue =>
       /\ class = "name" => NameFree(list, cur, raw)
       /\ class = "buffer" => FitsBuffer(raw)
       /\ class = "boolean" => raw \in True \cup False
       /\ class = "port" => IsNumber(raw, 1, 65535)
       /\ class = "uint" => IsNumber(raw, 0, MaxInt)
       /\ class = "int" => IsNumber(raw, -MaxInt, MaxInt)
       /\ class \in DOMAIN OneOf => raw \in OneOf[class]
       /\ class = "template" => TemplateAccepted(raw)

Converted(class, raw) ==
  CASE class = "boolean" -> raw \in True
    [] class \in {"port", "uint", "int"} -> Numerals[raw]
    [] class = "encoder" /\ raw = NoValue -> NULL
    [] OTHER -> raw

\* cfg_decoder_list_findext(); 0 if there is none.
FindExt(list, ext) ==
  LET at == {i \in DOMAIN list : \E j \in DOMAIN list[i].file_ext : list[i].file_ext[j] = ext}
  IN IF at = {} THEN 0 ELSE CHOOSE i \in at : \A j \in at : i <= j

\* cfg_decoder_add_match(): away from the decoder that has it.
Relocated(list, cur, ext) ==
  LET from == FindExt(list, ext)
      rest == IF from = 0 THEN list ELSE [list EXCEPT ![from].file_ext = RemoveFirst(@, ext)]
  IN [rest EXCEPT ![cur].file_ext = Append(@, ext)]

\* An element of entry cur is set; a refused value may have been copied in part.
Set(kind, list, cur, e, raw) ==
  LET class == Setter[kind][e]
      ok == Accepts(class, list, cur, raw)
  IN [ok |-> ok,
      list |->
        CASE ok /\ class = "ext" -> Relocated(list, cur, raw)
          [] ok /\ class # "ext" -> [list EXCEPT ![cur][e] = Converted(class, raw)]
          [] ~ok /\ class = "buffer" /\ raw # NoValue ->
               [list EXCEPT ![cur][e] = Truncated[raw]]
          [] OTHER -> list]

--------------------------------------------------------------------------------
(* Lists and validation. *)

\* cfg_*_list_find(); 0 if there is none.
Find(list, name) ==
  LET at == {i \in DOMAIN list : list[i].name = name}
  IN IF at = {} THEN 0 ELSE CHOOSE i \in at : \A j \in at : i <= j

\* cfg_*_list_get()
Got(kind, list, name) ==
  IF Find(list, name) # 0 THEN list
  ELSE Append(list, [NewEntry(kind) EXCEPT !.name = name])

ServerValid(s) == s.hostname # NULL /\ s.password # NULL

StreamValid(s) == s.format # NULL

IntakeValid(i) == i.filename # NULL \/ i.type = "stdin"

DecoderValid(d) ==
  /\ d.program # NULL /\ d.file_ext # << >>
  /\ ~Has(d.program, String) /\ Has(d.program, Track)
  /\ AtMostOnce({Track, Metadata, Artist, Title}, d.program)

EncoderValid(e) ==
  /\ e.format # NULL /\ e.program # NULL
  /\ ~Has(e.program, Track) /\ ~Has(e.program, String)
  /\ AtMostOnce({Metadata, Artist, Title}, e.program)

Valid(kind, entry) ==
  CASE kind = "server" -> ServerValid(entry)
    [] kind = "stream" -> StreamValid(entry)
    [] kind = "intake" -> IntakeValid(entry)
    [] kind = "decoder" -> DecoderValid(entry)
    [] kind = "encoder" -> EncoderValid(entry)

GetPort(s) == IF s.port = 0 THEN 8000 ELSE s.port
GetUser(s) == IF s.user = NULL THEN "source" ELSE s.user

\* Mutant: https does not imply anything.
GetTls_AsSet(s) == s.tls

GetTls(s) == IF s.protocol = "https" THEN "required" ELSE s.tls

\* The configuration after _cfg_reset().
EmptyCfg ==
  [k \in Lists \cup {"metadata"} |-> IF k \in Lists THEN << >> ELSE <<NewEntry(k)>>]
================================================================================
