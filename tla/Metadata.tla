-------------------------------- MODULE Metadata --------------------------------
(***************************************************************************)
(* struct mdata (src/src/mdata.c): what is known of a track, from its tags  *)
(* or from the metadata program, and what stream_set_metadata() makes of it *)
(* for the server (src/src/stream.c).  All fields are texts or NULL; the    *)
(* length is not kept, and texts are in the character set of the locale.    *)
(***************************************************************************)
EXTENDS ShellText

Unknown == <<"[", "?", "]">>     \* "[unknown]"
Dash == <<" ", "-", " ">>

\* mdata_create(), and _mdata_clear(), which leaves a handle like a new one.
NewMdata ==
  [filename |-> NULL, name |-> NULL, artist |-> NULL, album |-> NULL, title |-> NULL,
   songinfo |-> NULL]

OrNull(text) == IF text = << >> THEN NULL ELSE text
OrEmpty(text) == IF text = NULL THEN << >> ELSE text

LastOf(c, text) ==
  LET at == {i \in DOMAIN text : text[i] = c}
  IN IF at = {} THEN 0 ELSE CHOOSE i \in at : \A j \in at : j <= i

\* The file name without its directory and without what follows its last dot.
NameFromFilename(filename) ==
  LET base == SubSeq(filename, LastOf("/", filename) + 1, Len(filename))
      dot == LastOf(".", base)
      name == IF dot = 0 THEN base ELSE SubSeq(base, 1, dot - 1)
  IN IF name = << >> THEN Unknown ELSE name

\* _mdata_generate_songinfo(): what there is of artist, title and album.
SongInfo(artist, album, title) ==
  FoldLeft(LAMBDA s, part : IF s = << >> THEN part ELSE s \o Dash \o part, << >>,
           SelectSeq(<<artist, title, album>>, LAMBDA part : part # NULL))

\* mdata_parse_file() of a file that can be read; tags is NULL if TagLib cannot.
ParsedFile(filename, tags) ==
  LET name == NameFromFilename(filename)
      named == [NewMdata EXCEPT !.filename = filename, !.name = name]
  IN IF tags = NULL THEN [named EXCEPT !.songinfo = name]
     ELSE LET artist == OrNull(tags.artist)
              album == OrNull(tags.album)
              title == OrNull(tags.title)
          IN [named EXCEPT !.artist = artist, !.album = album, !.title = title,
                           !.songinfo = OrNull(SongInfo(artist, album, title))]

\* The order in which the metadata program is asked.
Questions == <<"artist", "album", "title", "songinfo">>

\* mdata_run_program() with all four answers.
ProgramOutput(program, answers) ==
  [filename |-> program, name |-> Unknown,
   artist |-> OrNull(answers[1]), album |-> OrNull(answers[2]),
   title |-> OrNull(answers[3]), songinfo |-> OrNull(answers[4])]

\* mdata_strformat()
StrFormat(md, format) ==
  ExpandWords(format,
    (Artist :> OrEmpty(md.artist)) @@ (Album :> OrEmpty(md.album))
      @@ (Title :> OrEmpty(md.title)) @@ (Track :> md.filename)
      @@ (String :> OrEmpty(md.songinfo)))

\* Mutant: the artist alone is taken for the song.
Announced_Artist(md, format) ==
  IF format # NULL THEN [song |-> StrFormat(md, format)]
  ELSE IF md.artist # NULL THEN [song |-> md.artist]
  ELSE [song |-> OrEmpty(md.songinfo)]

\* The metadata that stream_set_metadata() hands to libshout.
Announced(md, format) ==
  IF format # NULL THEN [song |-> StrFormat(md, format)]
  ELSE IF md.artist # NULL /\ md.title # NULL
       THEN [artist |-> md.artist, title |-> md.title]
  ELSE [song |-> IF md.songinfo # NULL THEN md.songinfo ELSE md.name]
================================================================================
