-------------------------------- MODULE CfgFile --------------------------------
(***************************************************************************)
(* cfg_file_reload() (src/src/cfg.c) and what the parser of the             *)
(* configuration file (src/src/cfgfile_xml.c) does to the lists of named    *)
(* entries.  A file is read element by element; every element may be any of *)
(* those the parser knows, so every file is one of the behaviours.          *)
(*                                                                          *)
(* The lists of servers, streams, intakes and encoders differ in what is    *)
(* set and required only; decoders have file extensions besides, of which   *)
(* each belongs to one decoder.  Names that differ in case only are equal.  *)
(***************************************************************************)
EXTENDS Naturals, Sequences

CONSTANTS
  PlainKinds,   \* kinds of entries without extensions
  Names,        \* names of entries
  Default,      \* CFG_DEFAULT, the name of an entry that was not given one
  Required,     \* elements an entry must have
  Optional,     \* elements it may have
  Exts,         \* file extensions
  MaxBlocks     \* bound: blocks read, over all loads

Elements == Required \cup Optional
Kinds == PlainKinds \cup {"decoder"}

ASSUME CfgFileAssumption ==
  /\ Default \in Names
  /\ "decoder" \notin PlainKinds
  /\ Required \cap Optional = {}
  /\ MaxBlocks \in Nat

VARIABLES
  pc,        \* "idle"; or inside the file, a list, a block
  cfg,       \* the configuration in force, or the one being read
  cfg_tmp,   \* the previous one while a file is read
  error,     \* a block was refused
  kind, cur, \* the list being read, and the place of the current entry
  block,     \* the blocks read so far
  isNamed,   \* the current block has a name element
  since,     \* blocks that were read before the current load
  unnamed    \* the lists that had a block without a name, in this load
reading == <<kind, cur, block, isNamed, since, unnamed>>
vars == <<pc, cfg, cfg_tmp, error, reading>>

\* from[e] is the block that set element e, 0 if none did.
Entry == [name : Names, from : [Elements -> Nat], exts : SUBSET Exts]

NewEntry(n) == [name |-> n, from |-> [e \in Elements |-> 0], exts |-> {}]

Empty == [k \in Kinds |-> << >>]

Init ==
  /\ pc = "idle" /\ cfg = Empty /\ cfg_tmp = Empty /\ error = FALSE
  /\ kind \in PlainKinds /\ cur = 1 /\ block = 0 /\ isNamed = FALSE
  /\ since = 0 /\ unnamed = {}

--------------------------------------------------------------------------------
(* cfg.c *)

\* Mutant: the new configuration starts from the old one.
Save_KeepsCfg == cfg_tmp' = cfg /\ cfg' = cfg

Save == cfg_tmp' = cfg /\ cfg' = Empty

\* Mutant: what was read of the refused file stays.
Restore_Not == cfg' = cfg /\ cfg_tmp' = Empty

Restore == cfg' = cfg_tmp /\ cfg_tmp' = Empty

Commit == cfg' = cfg /\ cfg_tmp' = Empty

StartReload ==
  /\ pc = "idle" /\ pc' = "file"
  /\ Save
  /\ error' = FALSE /\ since' = block /\ unnamed' = {}
  /\ UNCHANGED <<kind, cur, block, isNamed>>

EndReload ==
  /\ pc = "file" /\ pc' = "idle"
  /\ IF error THEN Restore ELSE Commit
  /\ UNCHANGED <<error, reading>>

\* Not readable, world writable, not well-formed, or another program's file.
FileRefused ==
  /\ pc = "file" /\ block = since /\ ~error
  /\ pc' = "idle"
  /\ Restore
  /\ error' = TRUE
  /\ UNCHANGED reading

--------------------------------------------------------------------------------
(* cfgfile_xml.c *)

StartList ==
  /\ pc = "file" /\ pc' = "list"
  /\ kind' \in Kinds
  /\ UNCHANGED <<cfg, cfg_tmp, error, cur, block, isNamed, since, unnamed>>

EndList ==
  /\ pc = "list" /\ pc' = "file"
  /\ UNCHANGED <<cfg, cfg_tmp, error, reading>>

Places(list, n) == {i \in DOMAIN list : list[i].name = n}

\* Mutant: the new entry is not put into the list.
Inserted_Not(list) == list

Inserted(list) == Append(list, NewEntry(Default))

\* Every block starts from the entry that is called default at that time.
StartBlock ==
  /\ pc = "list" /\ pc' = "block"
  /\ block < MaxBlocks /\ block' = block + 1
  /\ IF Places(cfg[kind], Default) = {}
     THEN /\ cfg' = [cfg EXCEPT ![kind] = Inserted(@)]
          /\ cur' = Len(cfg[kind]) + 1
     ELSE cur' \in Places(cfg[kind], Default) /\ UNCHANGED cfg
  /\ isNamed' = FALSE
  /\ UNCHANGED <<cfg_tmp, error, kind, since, unnamed>>

\* The rest of the list is not read, the lists after it are.
BlockRefused ==
  /\ pc' = "file" /\ error' = TRUE
  /\ UNCHANGED <<cfg, cfg_tmp, reading>>

\* Mutant: a name that is taken is accepted.
TakenBy_Nobody(n) == {}

TakenBy(n) == Places(cfg[kind], n) \ {cur}

SetName ==
  /\ pc = "block"
  /\ \E n \in Names :
       /\ TakenBy(n) = {}
       /\ cfg' = [cfg EXCEPT ![kind][cur].name = n]
  /\ isNamed' = TRUE
  /\ UNCHANGED <<pc, cfg_tmp, error, kind, cur, block, since, unnamed>>

NameTaken ==
  /\ pc = "block"
  /\ \E n \in Names : TakenBy(n) # {}
  /\ BlockRefused

SetElement ==
  /\ pc = "block"
  /\ \E e \in Elements : cfg' = [cfg EXCEPT ![kind][cur].from[e] = block]
  /\ UNCHANGED <<pc, cfg_tmp, error, reading>>

\* An empty, invalid or too long value.
ElementRefused == pc = "block" /\ BlockRefused

\* Mutant: the extension stays where it was as well.
Relocated_Copied(list, x) ==
  [i \in DOMAIN list |-> [list[i] EXCEPT !.exts = IF i = cur THEN @ \cup {x} ELSE @]]

\* cfg_decoder_add_match() takes an extension away from the decoder that has it.
Relocated(list, x) ==
  [i \in DOMAIN list |->
     [list[i] EXCEPT !.exts = IF i = cur THEN @ \cup {x} ELSE @ \ {x}]]

AddMatch ==
  /\ pc = "block" /\ kind = "decoder"
  /\ \E x \in Exts : cfg' = [cfg EXCEPT !["decoder"] = Relocated(@, x)]
  /\ UNCHANGED <<pc, cfg_tmp, error, reading>>

HasRequired(entry) == \A e \in Required : entry.from[e] # 0

Validate == HasRequired(cfg[kind][cur]) /\ (kind = "decoder" => cfg[kind][cur].exts # {})

EndBlock ==
  /\ pc = "block" /\ Validate
  /\ pc' = "list"
  /\ unnamed' = IF isNamed THEN unnamed ELSE unnamed \cup {kind}
  /\ UNCHANGED <<cfg, cfg_tmp, error, kind, cur, block, isNamed, since>>

Invalid == pc = "block" /\ ~Validate /\ BlockRefused

Next ==
  \/ StartReload \/ EndReload \/ FileRefused
  \/ StartList \/ EndList
  \/ StartBlock \/ SetName \/ NameTaken \/ SetElement \/ ElementRefused \/ AddMatch
  \/ EndBlock \/ Invalid

Spec == Init /\ [][Next]_vars

--------------------------------------------------------------------------------
(* Properties. *)

Configuration == [Kinds -> Seq(Entry)]

\* The type invariant; the current entry is one of its list.
TypeOK ==
  /\ pc \in {"idle", "file", "list", "block"}
  /\ cfg \in Configuration /\ cfg_tmp \in Configuration
  /\ error \in BOOLEAN /\ isNamed \in BOOLEAN
  /\ kind \in Kinds /\ cur \in Nat /\ (pc = "block" => cur \in DOMAIN cfg[kind])
  /\ block \in 0..MaxBlocks /\ since \in 0..MaxBlocks
  /\ unnamed \subseteq Kinds

\* Entries are found by name: whatever blocks are renamed into each other's names,
\* no two entries of a list ever share one.
NamesDistinct ==
  \A k \in Kinds : \A i, j \in DOMAIN cfg[k] : cfg[k][i].name = cfg[k][j].name => i = j

\* "A filename extension can only be associated with one decoder"
\* (doc/ezstream.1.in.in:617), through every relocation.
OneDecoderPerExt ==
  \A i, j \in DOMAIN cfg["decoder"] :
    cfg["decoder"][i].exts \cap cfg["decoder"][j].exts # {} => i = j

Previous == IF pc = "idle" THEN cfg ELSE cfg_tmp

\* The previous configuration is given up for a file that was read to its end
\* without an error, and for nothing else.
PreviousKept ==
  [][Previous' # Previous => pc = "file" /\ pc' = "idle" /\ ~error]_vars

Accepted == pc = "idle" /\ ~error

\* What is accepted stems from that file alone, and every entry has the elements it
\* must have, also one that later blocks renamed or went on to set.  Extensions move
\* from decoder to decoder, and a block may take the last one of an earlier decoder;
\* but decoders that were accepted never end up without any between them.
AcceptedIsComplete ==
  Accepted =>
    /\ \A k \in Kinds : \A i \in DOMAIN cfg[k] :
         /\ HasRequired(cfg[k][i])
         /\ \A e \in Elements : cfg[k][i].from[e] = 0 \/ cfg[k][i].from[e] > since
    /\ DOMAIN cfg["decoder"] # {} => \E i \in DOMAIN cfg["decoder"] : cfg["decoder"][i].exts # {}

\* The name of a server is "default" by default (doc/ezstream.1.in.in:177): a file
\* with a block that has no name yields an entry of that name.
UnnamedIsDefault ==
  Accepted => \A k \in unnamed : Places(cfg[k], Default) # {}
================================================================================
