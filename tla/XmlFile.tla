--------------------------------- MODULE XmlFile ---------------------------------
(***************************************************************************)
(* The configuration file (src/src/cfgfile_xml.c): what a file is read as,  *)
(* and how a configuration is printed.  A file has a list of blocks of each *)
(* kind, a block is a sequence of elements <<name, value>>.  CfgFile.tla    *)
(* has the reading itself, element by element and over several loads.       *)
(***************************************************************************)
EXTENDS Settings

CONSTANTS
  Markup,    \* the values with a character that means something in XML
  ReadAs     \* those that leave a file well-formed, and what a reader finds of each:
             \* entities are replaced, comments are left out

ASSUME XmlAssumption == DOMAIN ReadAs \subseteq Markup

FileKinds == Lists \cup {"metadata"}

\* One element of a block, of a kind and an entry: nothing is set after a refused one.
NextElement(of, r, el) == IF r.ok THEN Set(of[1], r.list, of[2], el[1], el[2]) ELSE r

\* One block: the entry that is called default now, or a new one.
ReadBlock(kind, list, block) ==
  LET start == Got(kind, list, Default)
      cur == Find(start, Default)
      read == FoldLeft(
                LAMBDA r, el : NextElement(<<kind, cur>>, r, el),
                [ok |-> TRUE, list |-> start], block)
  IN [ok |-> read.ok /\ Valid(kind, read.list[cur]), list |-> read.list]

\* A list of blocks, up to the first that is refused.
NextBlock(kind, r, block) == IF r.ok THEN ReadBlock(kind, r.list, block) ELSE r
ReadList(kind, blocks) ==
  FoldLeft(LAMBDA r, block : NextBlock(kind, r, block),
           [ok |-> TRUE, list |-> << >>], blocks)

\* The metadata settings are read to the end, whatever is refused among them.
ReadMetadata(blocks) ==
  FoldLeft(
    LAMBDA r, el :
      LET set == Set("metadata", r.list, 1, el[1], el[2])
      IN [set EXCEPT !.ok = @ /\ r.ok],
    [ok |-> TRUE, list |-> EmptyCfg.metadata], FlattenSeq(blocks))

\* cfgfile_xml_parse() of a file that may be read, and is this program's.
ReadFile(file) ==
  LET read == [k \in FileKinds |-> IF k = "metadata" THEN ReadMetadata(file.metadata)
                                   ELSE ReadList(k, file[k])]
  IN [ok |-> \A k \in FileKinds : read[k].ok,
      cfg |-> [k \in FileKinds |-> read[k].list]]

--------------------------------------------------------------------------------
(* cfgfile_xml_print() *)

\* An element if there is something to print, and what is printed of a value.
Elem(if, name, value) == IF if THEN <<<<name, value>>>> ELSE << >>
Numeral(n) == CHOOSE x \in DOMAIN Numerals : Numerals[x] = n

\* The strings that are printed if they are set.
NextString(entry, els, n) == els \o Elem(entry[n] # NULL, n, entry[n])
Strings(entry, names) == FoldLeft(LAMBDA els, n : NextString(entry, els, n), << >>, names)

PrintedName(entry) == Elem(entry.name # Default, "name", entry.name)

PrintServer(s) ==
  PrintedName(s)
  \o Elem(TRUE, "protocol", s.protocol)
  \o Strings(s, <<"hostname">>)
  \o Elem(GetPort(s) # 8000, "port", Numeral(GetPort(s)))
  \o Elem(GetUser(s) # "source", "user", GetUser(s))
  \o Strings(s, <<"password">>)
  \o Elem(GetTls(s) # "may", "tls", GetTls(s))
  \o Strings(s, <<"tls_cipher_suite", "ca_dir", "ca_file", "client_cert">>)
  \o Elem(s.reconnect_attempts # 0, "reconnect_attempts", Numeral(s.reconnect_attempts))

PrintStream(s) ==
  PrintedName(s)
  \o Strings(s, <<"mountpoint", "intake", "server">>)
  \o Elem(s.public, "public", "yes")
  \o Elem(TRUE, "format", s.format)
  \o Strings(s, <<"encoder", "stream_name", "stream_url", "stream_genre",
                  "stream_description", "stream_quality", "stream_bitrate",
                  "stream_samplerate", "stream_channels">>)

PrintIntake(i) ==
  PrintedName(i)
  \o Elem(i.type # "autodetect", "type", i.type)
  \o Strings(i, <<"filename">>)
  \o Elem(i.shuffle, "shuffle", "yes")
  \o Elem(i.stream_once, "stream_once", "yes")

\* Mutant: the first of the extensions only.
PrintDecoder_OneExt(d) ==
  PrintedName(d) \o Strings(d, <<"program">>)
  \o Elem(d.file_ext # << >>, "file_ext", d.file_ext[1])

PrintDecoder(d) ==
  PrintedName(d) \o Strings(d, <<"program">>)
  \o [j \in DOMAIN d.file_ext |-> <<"file_ext", d.file_ext[j]>>]

PrintEncoder(e) ==
  PrintedName(e) \o Elem(TRUE, "format", e.format) \o Strings(e, <<"program">>)

PrintMetadata(m) ==
  Strings(m, <<"program", "format_str">>)
  \o Elem(m.refresh_interval >= 0, "refresh_interval", Numeral(m.refresh_interval))
  \o Elem(m.normalize_strings, "normalize_strings", "yes")
  \o Elem(m.no_updates, "no_updates", "yes")

PrintedBlock(kind, entry) ==
  CASE kind = "server" -> PrintServer(entry)
    [] kind = "stream" -> PrintStream(entry)
    [] kind = "intake" -> PrintIntake(entry)
    [] kind = "decoder" -> PrintDecoder(entry)
    [] kind = "encoder" -> PrintEncoder(entry)
    [] kind = "metadata" -> PrintMetadata(entry)

Printed(cfg) ==
  [k \in FileKinds |-> [i \in DOMAIN cfg[k] |-> PrintedBlock(k, cfg[k][i])]]

\* Values are printed as they are: one with markup spoils the file, or is read as
\* another value.
NoneOf(values, file) ==
  \A k \in FileKinds : \A i \in DOMAIN file[k] : \A j \in DOMAIN file[k][i] :
    file[k][i][j][2] \notin values
Unmarked(file) == NoneOf(Markup, file)
WellFormed(file) == NoneOf(Markup \ DOMAIN ReadAs, file)

ElementRead(el) == IF el[2] \in DOMAIN ReadAs THEN <<el[1], ReadAs[el[2]]>> ELSE el
Parsed(file) ==
  [k \in FileKinds |-> [i \in DOMAIN file[k] |->
     [j \in DOMAIN file[k][i] |-> ElementRead(file[k][i][j])]]]
================================================================================
