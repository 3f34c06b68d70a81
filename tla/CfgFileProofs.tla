----------------------------- MODULE CfgFileProofs -----------------------------
(***************************************************************************)
(* Proofs about CfgFile for any names, elements, extensions and blocks.     *)
(***************************************************************************)
EXTENDS CfgFile, TLAPS

--------------------------------------------------------------------------------
(* The lists. *)

\* A new entry goes behind the others.
LEMMA InsertedBehind ==
  ASSUME NEW list \in Seq(Entry)
  PROVE  /\ Inserted(list) \in Seq(Entry)
         /\ Len(Inserted(list)) = Len(list) + 1
         /\ Inserted(list)[Len(list) + 1] = NewEntry(Default)
         /\ \A i \in DOMAIN list : Inserted(list)[i] = list[i]
<1>1. NewEntry(Default) \in Entry
  BY CfgFileAssumption DEF NewEntry, Entry
<1> QED BY <1>1 DEF Inserted

\* cfg_decoder_add_match() keeps the list, and all of it but the extensions.
ExtMoved(x, old, new) ==
  /\ DOMAIN new = DOMAIN old
  /\ \A i \in DOMAIN old : new[i].name = old[i].name /\ new[i].from = old[i].from
  /\ \A i \in DOMAIN old :
       new[i].exts = IF i = cur THEN old[i].exts \cup {x} ELSE old[i].exts \ {x}

LEMMA RelocatedList ==
  ASSUME NEW list \in Seq(Entry), NEW x \in Exts
  PROVE  Relocated(list, x) \in Seq(Entry) /\ ExtMoved(x, list, Relocated(list, x))
<1> DEFINE New(i) ==
      [list[i] EXCEPT !.exts = IF i = cur THEN @ \cup {x} ELSE @ \ {x}]
<1>1. \A i \in DOMAIN list : list[i] \in Entry
  OBVIOUS
<1>2. \A i \in DOMAIN list :
        /\ New(i) \in Entry
        /\ New(i).name = list[i].name /\ New(i).from = list[i].from
        /\ New(i).exts = IF i = cur THEN list[i].exts \cup {x} ELSE list[i].exts \ {x}
  BY <1>1 DEF Entry
<1>3. Relocated(list, x) = [i \in DOMAIN list |-> New(i)]
  BY DEF Relocated
<1> HIDE DEF New
<1>4. DOMAIN list = 1..Len(list) /\ Len(list) \in Nat
  OBVIOUS
<1>5. Relocated(list, x) \in Seq(Entry) /\ DOMAIN Relocated(list, x) = DOMAIN list
  <2> DEFINE n == Len(list)
             new == Relocated(list, x)
  <2>1. n \in Nat /\ DOMAIN list = 1..n
    BY <1>4
  <2> HIDE DEF n, new
  <2>2. new = [i \in 1..n |-> New(i)] /\ \A i \in 1..n : New(i) \in Entry
    BY <1>2, <1>3, <2>1 DEF new
  <2>3. new \in [1..n -> Entry] /\ DOMAIN new = 1..n
    BY <2>2
  <2>4. new \in Seq(Entry)
    BY <2>1, <2>3
  <2> QED BY <2>1, <2>3, <2>4 DEF new
<1>6. \A i \in DOMAIN list : Relocated(list, x)[i] = New(i)
  BY <1>3
<1> DEFINE new == Relocated(list, x)
<1> HIDE DEF new
<1>7. ExtMoved(x, list, new)
  BY <1>2, <1>5, <1>6 DEF new, ExtMoved
<1> QED BY <1>5, <1>7 DEF new

\* The current entry became new, and nothing else changed.
Became(new) ==
  /\ cfg' \in Configuration
  /\ \A l \in Kinds : DOMAIN cfg'[l] = DOMAIN cfg[l]
  /\ cfg'[kind][cur] = new
  /\ \A l \in Kinds : \A j \in DOMAIN cfg[l] :
       l # kind \/ j # cur => cfg'[l][j] = cfg[l][j]

\* Setting the current entry changes it and nothing else.
LEMMA EntryIsSet ==
  ASSUME TypeOK, pc = "block", NEW new \in Entry,
         cfg' = [cfg EXCEPT ![kind] = [@ EXCEPT ![cur] = new]]
  PROVE  Became(new)
<1>1. cfg \in Configuration /\ kind \in Kinds /\ cur \in DOMAIN cfg[kind]
  BY DEF TypeOK
<1>2. cfg[kind] \in Seq(Entry) /\ [cfg[kind] EXCEPT ![cur] = new] \in Seq(Entry)
  BY <1>1 DEF Configuration
<1>3. cfg'[kind] = [cfg[kind] EXCEPT ![cur] = new]
      /\ \A l \in Kinds : l # kind => cfg'[l] = cfg[l]
  BY <1>1 DEF Configuration
<1> QED BY <1>1, <1>2, <1>3 DEF Configuration, Became

\* A name element changes the name of the current entry.
LEMMA NameIsSet ==
  ASSUME TypeOK, pc = "block", NEW n \in Names,
         cfg' = [cfg EXCEPT ![kind][cur].name = n]
  PROVE  Became([cfg[kind][cur] EXCEPT !.name = n])
<1> DEFINE new == [cfg[kind][cur] EXCEPT !.name = n]
<1>1. cfg \in Configuration /\ kind \in Kinds /\ cur \in DOMAIN cfg[kind]
  BY DEF TypeOK
<1>2. cfg[kind][cur] \in Entry
  BY <1>1 DEF Configuration
<1>3. new \in Entry
  BY <1>2 DEF Entry
<1>4. cfg' = [cfg EXCEPT ![kind] = [@ EXCEPT ![cur] = new]]
  BY <1>1 DEF Configuration
<1> HIDE DEF new
<1>5. Became(new)
  BY <1>1, <1>3, <1>4, EntryIsSet
<1> QED BY <1>5 DEF new

\* Another element changes where it was set.
LEMMA ElementIsSet ==
  ASSUME TypeOK, pc = "block", NEW e \in Elements,
         cfg' = [cfg EXCEPT ![kind][cur].from[e] = block]
  PROVE  Became([cfg[kind][cur] EXCEPT !.from[e] = block])
<1> DEFINE new == [cfg[kind][cur] EXCEPT !.from[e] = block]
<1>1. cfg \in Configuration /\ kind \in Kinds /\ cur \in DOMAIN cfg[kind] /\ block \in Nat
  BY CfgFileAssumption DEF TypeOK
<1>2. cfg[kind][cur] \in Entry
  BY <1>1 DEF Configuration
<1>3. new \in Entry
  BY <1>1, <1>2 DEF Entry
<1>4. cfg' = [cfg EXCEPT ![kind] = [@ EXCEPT ![cur] = new]]
  BY <1>1 DEF Configuration
<1> HIDE DEF new
<1>5. Became(new)
  BY <1>1, <1>3, <1>4, EntryIsSet
<1> QED BY <1>5 DEF new

\* A file extension goes to the current decoder.
LEMMA ExtIsMoved ==
  ASSUME TypeOK, kind = "decoder", NEW x \in Exts,
         cfg' = [cfg EXCEPT !["decoder"] = Relocated(@, x)]
  PROVE  /\ cfg' \in Configuration
         /\ \A l \in Kinds : DOMAIN cfg'[l] = DOMAIN cfg[l]
         /\ \A l \in Kinds : l # "decoder" => cfg'[l] = cfg[l]
         /\ ExtMoved(x, cfg["decoder"], cfg'["decoder"])
<1>1. "decoder" \in Kinds /\ cfg \in Configuration /\ cfg["decoder"] \in Seq(Entry)
  BY DEF Kinds, TypeOK, Configuration
<1> DEFINE list == cfg["decoder"]
           new == Relocated(list, x)
<1>2. new \in Seq(Entry) /\ ExtMoved(x, list, new) /\ DOMAIN new = DOMAIN list
  <2>1. list \in Seq(Entry)
    BY <1>1
  <2> HIDE DEF list
  <2>2. new \in Seq(Entry) /\ ExtMoved(x, list, new)
    BY <2>1, RelocatedList
  <2> QED BY <2>2 DEF ExtMoved
<1>3. cfg' = [cfg EXCEPT !["decoder"] = new]
  OBVIOUS
<1> HIDE DEF new
<1>4. cfg'["decoder"] = new
  BY <1>1, <1>3 DEF Configuration
<1> QED BY <1>1, <1>2, <1>3, <1>4 DEF Configuration

\* A block without a default entry makes one.
LEMMA DefaultIsInserted ==
  ASSUME TypeOK, cfg' = [cfg EXCEPT ![kind] = Inserted(@)]
  PROVE  /\ cfg' \in Configuration
         /\ \A l \in Kinds : l # kind => cfg'[l] = cfg[l]
         /\ cfg'[kind] = Inserted(cfg[kind])
<1>1. kind \in Kinds /\ cfg \in Configuration /\ cfg[kind] \in Seq(Entry)
  BY DEF TypeOK, Configuration
<1>2. Inserted(cfg[kind]) \in Seq(Entry)
  BY <1>1, InsertedBehind
<1> QED BY <1>1, <1>2 DEF Configuration

--------------------------------------------------------------------------------
(* The type invariant. *)

\* No configuration has entries at first.
LEMMA EmptyConfiguration == Empty \in Configuration
BY DEF Empty, Configuration

\* At first the types are right.
LEMMA InitTypeOK == Init => TypeOK
<1> SUFFICES ASSUME Init PROVE TypeOK
  OBVIOUS
<1>1. kind \in Kinds /\ 0 \in 0..MaxBlocks
  BY CfgFileAssumption DEF Init, Kinds
<1> QED BY <1>1, EmptyConfiguration DEF Init, TypeOK

\* Reading a file keeps the types, and the current entry in its list.
LEMMA NextTypeOK == TypeOK /\ [Next]_vars => TypeOK'
<1> SUFFICES ASSUME TypeOK, [Next]_vars PROVE TypeOK'
  OBVIOUS
<1> USE CfgFileAssumption
<1>1. CASE UNCHANGED vars
  BY <1>1 DEF vars, reading, TypeOK
<1>2. CASE StartReload
  BY <1>2, EmptyConfiguration DEF StartReload, Save, TypeOK
<1>3. CASE EndReload
  BY <1>3, EmptyConfiguration DEF EndReload, Restore, Commit, reading, TypeOK
<1>4. CASE FileRefused
  BY <1>4, EmptyConfiguration DEF FileRefused, Restore, reading, TypeOK
<1>5. CASE StartList
  BY <1>5 DEF StartList, TypeOK
<1>6. CASE EndList
  BY <1>6 DEF EndList, reading, TypeOK
<1>7. CASE StartBlock
  <2>1. block + 1 \in 0..MaxBlocks
    BY <1>7 DEF StartBlock, TypeOK
  <2>2. CASE Places(cfg[kind], Default) = {}
    <3>1. cfg' = [cfg EXCEPT ![kind] = Inserted(@)] /\ cur' = Len(cfg[kind]) + 1
      BY <1>7, <2>2 DEF StartBlock
    <3>2. cfg[kind] \in Seq(Entry)
      BY DEF TypeOK, Configuration
    <3>3. cfg' \in Configuration /\ cur' \in Nat /\ cur' \in DOMAIN cfg'[kind]
      BY <3>1, <3>2, DefaultIsInserted, InsertedBehind
    <3> QED BY <1>7, <2>1, <3>3 DEF StartBlock, TypeOK
  <2>3. CASE Places(cfg[kind], Default) # {}
    <3>1. cur' \in DOMAIN cfg[kind] /\ cfg' = cfg
      BY <1>7, <2>3 DEF StartBlock, Places
    <3>2. cur' \in Nat
      BY <3>1 DEF TypeOK, Configuration
    <3> QED BY <1>7, <2>1, <3>1, <3>2 DEF StartBlock, TypeOK
  <2> QED BY <2>2, <2>3
<1>8. CASE SetName
  <2>1. PICK n \in Names : cfg' = [cfg EXCEPT ![kind][cur].name = n]
    BY <1>8 DEF SetName
  <2>2. Became([cfg[kind][cur] EXCEPT !.name = n])
    BY <1>8, <2>1, NameIsSet DEF SetName
  <2> QED BY <1>8, <2>2 DEF SetName, Became, TypeOK
<1>9. CASE NameTaken
  BY <1>9 DEF NameTaken, BlockRefused, reading, TypeOK
<1>10. CASE SetElement
  <2>1. PICK e \in Elements : cfg' = [cfg EXCEPT ![kind][cur].from[e] = block]
    BY <1>10 DEF SetElement
  <2>2. Became([cfg[kind][cur] EXCEPT !.from[e] = block])
    BY <1>10, <2>1, ElementIsSet DEF SetElement
  <2> QED BY <1>10, <2>2 DEF SetElement, Became, reading, TypeOK
<1>11. CASE ElementRefused
  BY <1>11 DEF ElementRefused, BlockRefused, reading, TypeOK
<1>12. CASE AddMatch
  <2>1. PICK x \in Exts : cfg' = [cfg EXCEPT !["decoder"] = Relocated(@, x)]
    BY <1>12 DEF AddMatch
  <2>2. cfg' \in Configuration /\ DOMAIN cfg'[kind] = DOMAIN cfg[kind]
    BY <1>12, <2>1, ExtIsMoved DEF AddMatch, TypeOK
  <2> QED BY <1>12, <2>2 DEF AddMatch, reading, TypeOK
<1>13. CASE EndBlock
  BY <1>13 DEF EndBlock, TypeOK
<1>14. CASE Invalid
  BY <1>14 DEF Invalid, BlockRefused, reading, TypeOK
<1> QED
  BY <1>1, <1>2, <1>3, <1>4, <1>5, <1>6, <1>7, <1>8, <1>9, <1>10, <1>11, <1>12,
     <1>13, <1>14 DEF Next

\* The type invariant holds, and the current entry is one of its list.
THEOREM TypeCorrect == Spec => []TypeOK
BY InitTypeOK, NextTypeOK, PTL DEF Spec

--------------------------------------------------------------------------------
(* What a refused file leaves. *)

\* The previous configuration goes only with a file that was read without error,
\* at the end of it.
THEOREM PreviousIsKept == Spec => PreviousKept
<1>1. [Next]_vars =>
        [Previous' # Previous => pc = "file" /\ pc' = "idle" /\ ~error]_vars
  <2> SUFFICES ASSUME [Next]_vars, Previous' # Previous
               PROVE  pc = "file" /\ pc' = "idle" /\ ~error
    OBVIOUS
  <2> USE DEF Previous
  <2>1. CASE UNCHANGED vars
    BY <2>1 DEF vars
  <2>2. CASE StartReload
    BY <2>2 DEF StartReload, Save
  <2>3. CASE EndReload
    BY <2>3 DEF EndReload, Restore, Commit
  <2>4. CASE FileRefused
    BY <2>4 DEF FileRefused, Restore
  <2>5. CASE StartList \/ EndList
    BY <2>5 DEF StartList, EndList
  <2>6. CASE StartBlock \/ EndBlock
    BY <2>6 DEF StartBlock, EndBlock
  <2>7. CASE SetName \/ SetElement \/ AddMatch
    BY <2>7 DEF SetName, SetElement, AddMatch
  <2>8. CASE NameTaken \/ ElementRefused \/ Invalid
    BY <2>8 DEF NameTaken, ElementRefused, Invalid, BlockRefused
  <2> QED BY <2>1, <2>2, <2>3, <2>4, <2>5, <2>6, <2>7, <2>8 DEF Next
<1> QED BY <1>1, PTL DEF Spec, PreviousKept

--------------------------------------------------------------------------------
(* Names. *)

DistinctIn(c) ==
  \A k \in Kinds : \A i, j \in DOMAIN c[k] : c[k][i].name = c[k][j].name => i = j

\* Also the configuration that may have to be restored has distinct names.
AllDistinct == DistinctIn(cfg) /\ DistinctIn(cfg_tmp)

\* The name of the current entry may become one that no other entry has.
LEMMA RenamedDistinct ==
  ASSUME TypeOK, pc = "block", DistinctIn(cfg), NEW n \in Names, TakenBy(n) = {},
         Became([cfg[kind][cur] EXCEPT !.name = n])
  PROVE  DistinctIn(cfg)'
<1>1. cfg \in Configuration /\ kind \in Kinds /\ cur \in DOMAIN cfg[kind]
  BY DEF TypeOK
<1>2. cfg'[kind][cur].name = n
  <2>1. cfg[kind][cur] \in Entry
    BY <1>1 DEF Configuration
  <2> QED BY <2>1 DEF Became, Entry
<1>3. \A j \in DOMAIN cfg[kind] : j # cur => cfg[kind][j].name # n
  BY DEF TakenBy, Places
<1> SUFFICES ASSUME NEW k \in Kinds, NEW i \in DOMAIN cfg[k], NEW j \in DOMAIN cfg[k],
                    cfg'[k][i].name = cfg'[k][j].name
             PROVE  i = j
  BY DEF DistinctIn, Became
<1>4. CASE k # kind
  BY <1>4 DEF DistinctIn, Became
<1>5. CASE k = kind /\ i # cur /\ j # cur
  BY <1>5 DEF DistinctIn, Became
<1>6. CASE k = kind /\ (i = cur \/ j = cur)
  BY <1>2, <1>3, <1>6 DEF Became
<1> QED BY <1>4, <1>5, <1>6

\* A step that keeps every name keeps them distinct.
LEMMA SameNamesDistinct ==
  ASSUME DistinctIn(cfg),
         \A k \in Kinds : DOMAIN cfg'[k] = DOMAIN cfg[k],
         \A k \in Kinds : \A i \in DOMAIN cfg[k] : cfg'[k][i].name = cfg[k][i].name
  PROVE  DistinctIn(cfg)'
BY DEF DistinctIn

\* Reading a file keeps the names of each list distinct.
LEMMA NextDistinct == TypeOK /\ AllDistinct /\ [Next]_vars => AllDistinct'
<1> SUFFICES ASSUME TypeOK, AllDistinct, [Next]_vars PROVE AllDistinct'
  OBVIOUS
<1> USE DEF AllDistinct
<1>0. DistinctIn(Empty)
  BY DEF DistinctIn, Empty
<1>1. CASE UNCHANGED vars
  BY <1>1 DEF vars, DistinctIn
<1>2. CASE StartReload
  BY <1>0, <1>2 DEF StartReload, Save, DistinctIn
<1>3. CASE EndReload
  BY <1>0, <1>3 DEF EndReload, Restore, Commit, DistinctIn
<1>4. CASE FileRefused
  BY <1>0, <1>4 DEF FileRefused, Restore, DistinctIn
<1>5. CASE StartList \/ EndList \/ EndBlock
  BY <1>5 DEF StartList, EndList, EndBlock, DistinctIn
<1>6. CASE NameTaken \/ ElementRefused \/ Invalid
  BY <1>6 DEF NameTaken, ElementRefused, Invalid, BlockRefused, DistinctIn
<1>7. CASE StartBlock
  <2>1. DistinctIn(cfg_tmp)'
    BY <1>7 DEF StartBlock, DistinctIn
  <2>2. CASE Places(cfg[kind], Default) # {}
    BY <1>7, <2>1, <2>2 DEF StartBlock, DistinctIn
  <2>3. CASE Places(cfg[kind], Default) = {}
    <3>1. cfg[kind] \in Seq(Entry) /\ kind \in Kinds
      BY DEF TypeOK, Configuration
    <3>2. cfg'[kind] = Inserted(cfg[kind]) /\ \A l \in Kinds : l # kind => cfg'[l] = cfg[l]
      BY <1>7, <2>3, DefaultIsInserted DEF StartBlock
    <3>3. \A i \in DOMAIN cfg[kind] : cfg[kind][i].name # Default
      BY <2>3 DEF Places
    <3>4. cfg'[kind][Len(cfg[kind]) + 1].name = Default
      BY <3>1, <3>2, InsertedBehind DEF NewEntry
    <3>5. \A i \in DOMAIN cfg[kind] : cfg'[kind][i].name = cfg[kind][i].name
      BY <3>1, <3>2, InsertedBehind
    <3>6. DOMAIN cfg'[kind] = DOMAIN cfg[kind] \cup {Len(cfg[kind]) + 1}
      <4>1. cfg'[kind] \in Seq(Entry) /\ Len(cfg'[kind]) = Len(cfg[kind]) + 1
        BY <3>1, <3>2, InsertedBehind
      <4> QED BY <3>1, <4>1
    <3>7. \A i, j \in DOMAIN cfg'[kind] : cfg'[kind][i].name = cfg'[kind][j].name => i = j
      BY <3>1, <3>3, <3>4, <3>5, <3>6 DEF DistinctIn
    <3>8. DistinctIn(cfg)'
      BY <3>2, <3>7 DEF DistinctIn
    <3> QED BY <2>1, <3>8
  <2> QED BY <2>2, <2>3
<1>8. CASE SetName
  <2>1. PICK n \in Names :
          TakenBy(n) = {} /\ cfg' = [cfg EXCEPT ![kind][cur].name = n]
    BY <1>8 DEF SetName
  <2>2. DistinctIn(cfg)'
    BY <1>8, <2>1, NameIsSet, RenamedDistinct DEF SetName
  <2> QED BY <1>8, <2>2 DEF SetName, DistinctIn
<1>9. CASE SetElement
  <2>1. PICK e \in Elements : cfg' = [cfg EXCEPT ![kind][cur].from[e] = block]
    BY <1>9 DEF SetElement
  <2> DEFINE new == [cfg[kind][cur] EXCEPT !.from[e] = block]
  <2>2. Became(new)
    BY <1>9, <2>1, ElementIsSet DEF SetElement
  <2>3. cfg[kind][cur] \in Entry
    BY <1>9 DEF SetElement, TypeOK, Configuration
  <2>4. new.name = cfg[kind][cur].name
    BY <2>3 DEF Entry
  <2> HIDE DEF new
  <2>5. DistinctIn(cfg)'
    BY <2>2, <2>4, SameNamesDistinct DEF Became
  <2> QED BY <1>9, <2>5 DEF SetElement, DistinctIn
<1>10. CASE AddMatch
  <2>1. PICK x \in Exts : cfg' = [cfg EXCEPT !["decoder"] = Relocated(@, x)]
    BY <1>10 DEF AddMatch
  <2>2. /\ \A l \in Kinds : DOMAIN cfg'[l] = DOMAIN cfg[l]
        /\ \A l \in Kinds : l # "decoder" => cfg'[l] = cfg[l]
        /\ ExtMoved(x, cfg["decoder"], cfg'["decoder"])
    BY <1>10, <2>1, ExtIsMoved DEF AddMatch
  <2>4. \A i \in DOMAIN cfg["decoder"] : cfg'["decoder"][i].name = cfg["decoder"][i].name
    BY <2>2 DEF ExtMoved
  <2>5. DistinctIn(cfg)'
    BY <2>2, <2>4, SameNamesDistinct
  <2> QED BY <1>10, <2>5 DEF AddMatch, DistinctIn
<1> QED
  BY <1>1, <1>2, <1>3, <1>4, <1>5, <1>6, <1>7, <1>8, <1>9, <1>10 DEF Next

\* No two entries of a list ever have the same name.
THEOREM NamesStayDistinct == Spec => []NamesDistinct
<1>1. Init => AllDistinct
  BY DEF Init, AllDistinct, DistinctIn, Empty
<1>2. AllDistinct => NamesDistinct
  BY DEF AllDistinct, DistinctIn, NamesDistinct
<1> QED BY <1>1, <1>2, NextDistinct, TypeCorrect, PTL DEF Spec

--------------------------------------------------------------------------------
(* File extensions. *)

OneDecoderIn(c) ==
  \A i, j \in DOMAIN c["decoder"] :
    c["decoder"][i].exts \cap c["decoder"][j].exts # {} => i = j

\* Also in the configuration that may have to be restored.
AllOneDecoder == OneDecoderIn(cfg) /\ OneDecoderIn(cfg_tmp)

\* A step that keeps the extensions of every decoder keeps them apart.
LEMMA SameExtsApart ==
  ASSUME OneDecoderIn(cfg),
         DOMAIN cfg'["decoder"] = DOMAIN cfg["decoder"],
         \A i \in DOMAIN cfg["decoder"] : cfg'["decoder"][i].exts = cfg["decoder"][i].exts
  PROVE  OneDecoderIn(cfg)'
BY DEF OneDecoderIn

\* So does setting the name or another element of the current entry.
LEMMA BecameApart ==
  ASSUME OneDecoderIn(cfg), NEW new, Became(new), new.exts = cfg[kind][cur].exts
  PROVE  OneDecoderIn(cfg)'
<1>1. \A i \in DOMAIN cfg["decoder"] : cfg'["decoder"][i].exts = cfg["decoder"][i].exts
  BY DEF Became, Kinds
<1> QED BY <1>1, SameExtsApart DEF Became, Kinds

\* Reading a file keeps every extension with one decoder.
LEMMA NextOneDecoder == TypeOK /\ AllOneDecoder /\ [Next]_vars => AllOneDecoder'
<1> SUFFICES ASSUME TypeOK, AllOneDecoder, [Next]_vars PROVE AllOneDecoder'
  OBVIOUS
<1> USE DEF AllOneDecoder
<1>0. OneDecoderIn(Empty)
  BY DEF OneDecoderIn, Empty, Kinds
<1>1. CASE UNCHANGED vars
  BY <1>1 DEF vars, OneDecoderIn
<1>2. CASE StartReload
  BY <1>0, <1>2 DEF StartReload, Save, OneDecoderIn
<1>3. CASE EndReload
  BY <1>0, <1>3 DEF EndReload, Restore, Commit, OneDecoderIn
<1>4. CASE FileRefused
  BY <1>0, <1>4 DEF FileRefused, Restore, OneDecoderIn
<1>5. CASE StartList \/ EndList \/ EndBlock
  BY <1>5 DEF StartList, EndList, EndBlock, OneDecoderIn
<1>6. CASE NameTaken \/ ElementRefused \/ Invalid
  BY <1>6 DEF NameTaken, ElementRefused, Invalid, BlockRefused, OneDecoderIn
<1>7. CASE StartBlock
  <2>1. OneDecoderIn(cfg_tmp)'
    BY <1>7 DEF StartBlock, OneDecoderIn
  <2>2. CASE Places(cfg[kind], Default) # {}
    BY <1>7, <2>1, <2>2 DEF StartBlock, OneDecoderIn
  <2>3. CASE Places(cfg[kind], Default) = {}
    <3>1. cfg[kind] \in Seq(Entry) /\ kind \in Kinds
      BY DEF TypeOK, Configuration
    <3>2. cfg'[kind] = Inserted(cfg[kind]) /\ \A l \in Kinds : l # kind => cfg'[l] = cfg[l]
      BY <1>7, <2>3, DefaultIsInserted DEF StartBlock
    <3>3. CASE kind # "decoder"
      BY <2>1, <3>2, <3>3 DEF OneDecoderIn, Kinds
    <3>4. CASE kind = "decoder"
      <4>1. cfg'[kind] \in Seq(Entry) /\ Len(cfg'[kind]) = Len(cfg[kind]) + 1
        BY <3>1, <3>2, InsertedBehind
      <4>2. DOMAIN cfg'[kind] = DOMAIN cfg[kind] \cup {Len(cfg[kind]) + 1}
        BY <3>1, <4>1
      <4>3. cfg'[kind][Len(cfg[kind]) + 1].exts = {}
        BY <3>1, <3>2, InsertedBehind DEF NewEntry
      <4>4. \A i \in DOMAIN cfg[kind] : cfg'[kind][i].exts = cfg[kind][i].exts
        BY <3>1, <3>2, InsertedBehind
      <4>5. OneDecoderIn(cfg)'
        BY <3>4, <4>2, <4>3, <4>4 DEF OneDecoderIn
      <4> QED BY <2>1, <4>5
    <3> QED BY <3>3, <3>4
  <2> QED BY <2>2, <2>3
<1>8. CASE SetName
  <2>1. PICK n \in Names : cfg' = [cfg EXCEPT ![kind][cur].name = n]
    BY <1>8 DEF SetName
  <2> DEFINE new == [cfg[kind][cur] EXCEPT !.name = n]
  <2>2. Became(new)
    BY <1>8, <2>1, NameIsSet DEF SetName
  <2>3. cfg[kind][cur] \in Entry
    BY <1>8 DEF SetName, TypeOK, Configuration
  <2>4. new.exts = cfg[kind][cur].exts
    BY <2>3 DEF Entry
  <2> HIDE DEF new
  <2>5. OneDecoderIn(cfg)'
    BY <2>2, <2>4, BecameApart
  <2> QED BY <1>8, <2>5 DEF SetName, OneDecoderIn
<1>9. CASE SetElement
  <2>1. PICK e \in Elements : cfg' = [cfg EXCEPT ![kind][cur].from[e] = block]
    BY <1>9 DEF SetElement
  <2> DEFINE new == [cfg[kind][cur] EXCEPT !.from[e] = block]
  <2>2. Became(new)
    BY <1>9, <2>1, ElementIsSet DEF SetElement
  <2>3. cfg[kind][cur] \in Entry
    BY <1>9 DEF SetElement, TypeOK, Configuration
  <2>4. new.exts = cfg[kind][cur].exts
    BY <2>3 DEF Entry
  <2> HIDE DEF new
  <2>5. OneDecoderIn(cfg)'
    BY <2>2, <2>4, BecameApart
  <2> QED BY <1>9, <2>5 DEF SetElement, OneDecoderIn
<1>10. CASE AddMatch
  <2>1. PICK x \in Exts : cfg' = [cfg EXCEPT !["decoder"] = Relocated(@, x)]
    BY <1>10 DEF AddMatch
  <2>2. /\ DOMAIN cfg'["decoder"] = DOMAIN cfg["decoder"]
        /\ ExtMoved(x, cfg["decoder"], cfg'["decoder"])
    BY <1>10, <2>1, ExtIsMoved DEF AddMatch, Kinds
  <2>5. \A i \in DOMAIN cfg["decoder"] :
          cfg'["decoder"][i].exts =
            IF i = cur THEN cfg["decoder"][i].exts \cup {x}
            ELSE cfg["decoder"][i].exts \ {x}
    BY <2>2 DEF ExtMoved
  <2>6. ASSUME NEW i \in DOMAIN cfg["decoder"], NEW j \in DOMAIN cfg["decoder"],
               NEW y, y \in cfg'["decoder"][i].exts, y \in cfg'["decoder"][j].exts
        PROVE  i = j
    <3>1. CASE y = x
      BY <2>5, <2>6, <3>1
    <3>2. CASE y # x
      <4>1. y \in cfg["decoder"][i].exts /\ y \in cfg["decoder"][j].exts
        BY <2>5, <2>6, <3>2
      <4> QED BY <4>1 DEF OneDecoderIn
    <3> QED BY <3>1, <3>2
  <2>7. OneDecoderIn(cfg)'
    BY <2>2, <2>6 DEF OneDecoderIn
  <2> QED BY <1>10, <2>7 DEF AddMatch, OneDecoderIn
<1> QED
  BY <1>1, <1>2, <1>3, <1>4, <1>5, <1>6, <1>7, <1>8, <1>9, <1>10 DEF Next

\* A file extension belongs to one decoder, through every relocation.
THEOREM ExtsStayApart == Spec => []OneDecoderPerExt
<1>1. Init => AllOneDecoder
  BY DEF Init, AllOneDecoder, OneDecoderIn, Empty, Kinds
<1>2. AllOneDecoder => OneDecoderPerExt
  BY DEF AllOneDecoder, OneDecoderIn, OneDecoderPerExt
<1> QED BY <1>1, <1>2, NextOneDecoder, TypeCorrect, PTL DEF Spec

--------------------------------------------------------------------------------
(* What is accepted. *)

Fresh(entry) == \A e \in Elements : entry.from[e] = 0 \/ entry.from[e] > since

Unfinished(k, i) == pc = "block" /\ k = kind /\ i = cur

\* As long as nothing was refused, every entry stems from this file and has what
\* it must have, but for the one whose block is being read.
CompleteSoFar ==
  ~error =>
    \A k \in Kinds : \A i \in DOMAIN cfg[k] :
      /\ Fresh(cfg[k][i])
      /\ Unfinished(k, i) \/ HasRequired(cfg[k][i])

BlocksCounted == since <= block /\ (pc = "block" => since < block)

\* Blocks are counted over all loads.
LEMMA NextBlocksCounted == TypeOK /\ BlocksCounted /\ [Next]_vars => BlocksCounted'
<1> SUFFICES ASSUME TypeOK, BlocksCounted, [Next]_vars PROVE BlocksCounted'
  OBVIOUS
<1>0. since \in Nat /\ block \in Nat
  BY CfgFileAssumption DEF TypeOK
<1> USE DEF BlocksCounted
<1>1. CASE UNCHANGED vars
  BY <1>1 DEF vars, reading
<1>2. CASE StartReload \/ EndReload \/ FileRefused
  BY <1>0, <1>2 DEF StartReload, EndReload, FileRefused, reading
<1>3. CASE StartList \/ EndList \/ StartBlock \/ EndBlock
  BY <1>0, <1>3 DEF StartList, EndList, StartBlock, EndBlock, reading
<1>4. CASE SetName \/ SetElement \/ AddMatch
  BY <1>4 DEF SetName, SetElement, AddMatch, reading
<1>5. CASE NameTaken \/ ElementRefused \/ Invalid
  BY <1>5 DEF NameTaken, ElementRefused, Invalid, BlockRefused, reading
<1> QED BY <1>1, <1>2, <1>3, <1>4, <1>5 DEF Next

\* Setting an element of the current entry leaves the others complete.
LEMMA BecameComplete ==
  ASSUME CompleteSoFar, pc = "block", NEW new, Became(new), Fresh(new),
         kind \in Kinds, cur \in DOMAIN cfg[kind],
         UNCHANGED <<pc, error, kind, cur, since>>
  PROVE  CompleteSoFar'
BY DEF CompleteSoFar, Became, Fresh, Unfinished, HasRequired

\* No entry comes out of its block without what it must have.
LEMMA NextComplete ==
  TypeOK /\ BlocksCounted /\ CompleteSoFar /\ [Next]_vars => CompleteSoFar'
<1> SUFFICES ASSUME TypeOK, BlocksCounted, CompleteSoFar, [Next]_vars PROVE CompleteSoFar'
  OBVIOUS
<1>0. /\ cfg \in Configuration /\ kind \in Kinds
      /\ pc = "block" => cur \in DOMAIN cfg[kind] /\ cfg[kind][cur] \in Entry
  BY DEF TypeOK, Configuration
<1>1. CASE UNCHANGED vars
  BY <1>1 DEF vars, reading, CompleteSoFar, Fresh, Unfinished
<1>2. CASE StartReload
  BY <1>2 DEF StartReload, Save, Empty, CompleteSoFar
<1>3. CASE EndReload
  BY <1>3 DEF EndReload, Commit, reading, CompleteSoFar, Fresh, Unfinished
<1>4. CASE FileRefused
  BY <1>4 DEF FileRefused, CompleteSoFar
<1>5. CASE StartList \/ EndList
  BY <1>5 DEF StartList, EndList, reading, CompleteSoFar, Fresh, Unfinished
<1>6. CASE NameTaken \/ ElementRefused \/ Invalid
  BY <1>6 DEF NameTaken, ElementRefused, Invalid, BlockRefused, CompleteSoFar
<1>7. CASE StartBlock
  <2>1. CASE Places(cfg[kind], Default) # {}
    BY <1>7, <2>1 DEF StartBlock, CompleteSoFar, Fresh, Unfinished
  <2>2. CASE Places(cfg[kind], Default) = {}
    <3>1. cfg[kind] \in Seq(Entry)
      BY <1>0 DEF Configuration
    <3>2. cfg'[kind] = Inserted(cfg[kind]) /\ \A l \in Kinds : l # kind => cfg'[l] = cfg[l]
      BY <1>7, <2>2, DefaultIsInserted DEF StartBlock
    <3>3. cfg'[kind] \in Seq(Entry) /\ Len(cfg'[kind]) = Len(cfg[kind]) + 1
      BY <3>1, <3>2, InsertedBehind
    <3>4. DOMAIN cfg'[kind] = DOMAIN cfg[kind] \cup {Len(cfg[kind]) + 1}
      BY <3>1, <3>3
    <3>5. /\ cfg'[kind][Len(cfg[kind]) + 1] = NewEntry(Default)
          /\ \A i \in DOMAIN cfg[kind] : cfg'[kind][i] = cfg[kind][i]
      BY <3>1, <3>2, InsertedBehind
    <3>6. Fresh(NewEntry(Default))
      BY DEF Fresh, NewEntry
    <3>7. /\ UNCHANGED <<error, since, kind>> /\ pc = "list" /\ pc' = "block"
          /\ cur' = Len(cfg[kind]) + 1
      BY <1>7, <2>2 DEF StartBlock
    <3>8. ASSUME ~error, NEW k \in Kinds, NEW i \in DOMAIN cfg'[k]
          PROVE  Fresh(cfg'[k][i]) /\ (Unfinished(k, i)' \/ HasRequired(cfg'[k][i]))
      <4>1. CASE k = kind /\ i = Len(cfg[kind]) + 1
        BY <3>5, <3>6, <3>7, <4>1 DEF Unfinished
      <4>2. CASE ~(k = kind /\ i = Len(cfg[kind]) + 1)
        <5>1. i \in DOMAIN cfg[k] /\ cfg'[k][i] = cfg[k][i]
          BY <3>2, <3>4, <3>5, <3>8, <4>2
        <5> QED BY <3>7, <3>8, <5>1 DEF CompleteSoFar, Unfinished
      <4> QED BY <4>1, <4>2
    <3> QED BY <3>7, <3>8 DEF CompleteSoFar, Fresh
  <2> QED BY <2>1, <2>2
<1>8. CASE SetName
  <2>1. PICK n \in Names : cfg' = [cfg EXCEPT ![kind][cur].name = n]
    BY <1>8 DEF SetName
  <2> DEFINE new == [cfg[kind][cur] EXCEPT !.name = n]
  <2>2. Became(new)
    BY <1>8, <2>1, NameIsSet DEF SetName
  <2>3. new.from = cfg[kind][cur].from
    BY <1>0, <1>8 DEF SetName, Entry
  <2> HIDE DEF new
  <2>4. CASE ~error
    <3>1. Fresh(new)
      BY <1>0, <1>8, <2>3, <2>4 DEF SetName, CompleteSoFar, Fresh
    <3> QED BY <1>0, <1>8, <2>2, <3>1, BecameComplete DEF SetName
  <2>5. CASE error
    BY <1>8, <2>5 DEF SetName, CompleteSoFar
  <2> QED BY <2>4, <2>5
<1>9. CASE SetElement
  <2>1. PICK e \in Elements : cfg' = [cfg EXCEPT ![kind][cur].from[e] = block]
    BY <1>9 DEF SetElement
  <2> DEFINE new == [cfg[kind][cur] EXCEPT !.from[e] = block]
  <2>2. Became(new)
    BY <1>9, <2>1, ElementIsSet DEF SetElement
  <2>3. \A f \in Elements : new.from[f] = IF f = e THEN block ELSE cfg[kind][cur].from[f]
    BY <1>0, <1>9 DEF SetElement, Entry
  <2> HIDE DEF new
  <2>4. CASE ~error
    <3>1. block > since
      BY <1>9, CfgFileAssumption DEF SetElement, BlocksCounted, TypeOK
    <3>2. Fresh(new)
      BY <1>0, <1>9, <2>3, <2>4, <3>1 DEF SetElement, CompleteSoFar, Fresh
    <3> QED BY <1>0, <1>9, <2>2, <3>2, BecameComplete DEF SetElement, reading
  <2>5. CASE error
    BY <1>9, <2>5 DEF SetElement, CompleteSoFar
  <2> QED BY <2>4, <2>5
<1>10. CASE AddMatch
  <2>1. PICK x \in Exts : cfg' = [cfg EXCEPT !["decoder"] = Relocated(@, x)]
    BY <1>10 DEF AddMatch
  <2>2. /\ \A l \in Kinds : DOMAIN cfg'[l] = DOMAIN cfg[l]
        /\ \A l \in Kinds : l # "decoder" => cfg'[l] = cfg[l]
        /\ ExtMoved(x, cfg["decoder"], cfg'["decoder"])
    BY <1>10, <2>1, ExtIsMoved DEF AddMatch
  <2>4. \A i \in DOMAIN cfg["decoder"] : cfg'["decoder"][i].from = cfg["decoder"][i].from
    BY <2>2 DEF ExtMoved
  <2>5. \A k \in Kinds : \A i \in DOMAIN cfg[k] : cfg'[k][i].from = cfg[k][i].from
    BY <2>2, <2>4
  <2>6. UNCHANGED <<pc, error, kind, cur, since>>
    BY <1>10 DEF AddMatch, reading
  <2> QED BY <2>2, <2>5, <2>6 DEF CompleteSoFar, Fresh, Unfinished, HasRequired
<1>11. CASE EndBlock
  <2>1. HasRequired(cfg[kind][cur])
    BY <1>11 DEF EndBlock, Validate
  <2> QED BY <1>11, <2>1 DEF EndBlock, CompleteSoFar, Fresh, Unfinished
<1> QED
  BY <1>1, <1>2, <1>3, <1>4, <1>5, <1>6, <1>7, <1>8, <1>9, <1>10, <1>11 DEF Next

HasExts(i) == cfg["decoder"][i].exts # {}

\* The decoders that were read have an extension between them; the first block has
\* to come to its end before there is one.
SomeExts ==
  ~error /\ DOMAIN cfg["decoder"] # {} =>
    (pc = "block" /\ kind = "decoder") \/ \E i \in DOMAIN cfg["decoder"] : HasExts(i)

\* A block that sets or renames an entry leaves the extensions alone.
LEMMA BecameSomeExts ==
  ASSUME SomeExts, pc = "block", NEW new, Became(new), new.exts = cfg[kind][cur].exts,
         kind \in Kinds, cur \in DOMAIN cfg[kind], UNCHANGED <<pc, error, kind>>
  PROVE  SomeExts'
<1>1. DOMAIN cfg'["decoder"] = DOMAIN cfg["decoder"]
  BY DEF Became, Kinds
<1>2. \A i \in DOMAIN cfg["decoder"] : cfg'["decoder"][i].exts = cfg["decoder"][i].exts
  BY DEF Became, Kinds
<1> QED BY <1>1, <1>2 DEF SomeExts, HasExts

\* An extension that is taken away from a decoder goes to the one whose block is read,
\* and that block ends only if its decoder has one.
LEMMA NextSomeExts == TypeOK /\ SomeExts /\ [Next]_vars => SomeExts'
<1> SUFFICES ASSUME TypeOK, SomeExts, [Next]_vars PROVE SomeExts'
  OBVIOUS
<1>0. /\ cfg \in Configuration /\ kind \in Kinds
      /\ pc = "block" => cur \in DOMAIN cfg[kind] /\ cfg[kind][cur] \in Entry
  BY DEF TypeOK, Configuration
<1> USE DEF SomeExts, HasExts
<1>1. CASE UNCHANGED vars
  BY <1>1 DEF vars, reading
<1>2. CASE StartReload
  BY <1>2 DEF StartReload, Save, Empty, Kinds
<1>3. CASE EndReload
  BY <1>3 DEF EndReload, Commit, reading
<1>4. CASE FileRefused \/ NameTaken \/ ElementRefused \/ Invalid
  BY <1>4 DEF FileRefused, NameTaken, ElementRefused, Invalid, BlockRefused
<1>5. CASE StartList \/ EndList
  BY <1>5 DEF StartList, EndList, reading
<1>6. CASE StartBlock
  <2>1. CASE kind = "decoder"
    BY <1>6, <2>1 DEF StartBlock
  <2>2. CASE kind # "decoder"
    <3>1. cfg'["decoder"] = cfg["decoder"]
      BY <1>6, <2>2, DefaultIsInserted DEF StartBlock, Kinds
    <3> QED BY <1>6, <3>1 DEF StartBlock
  <2> QED BY <2>1, <2>2
<1>7. CASE SetName
  <2>1. PICK n \in Names : cfg' = [cfg EXCEPT ![kind][cur].name = n]
    BY <1>7 DEF SetName
  <2>2. Became([cfg[kind][cur] EXCEPT !.name = n])
    BY <1>7, <2>1, NameIsSet DEF SetName
  <2>3. [cfg[kind][cur] EXCEPT !.name = n].exts = cfg[kind][cur].exts
    BY <1>0, <1>7 DEF SetName, Entry
  <2> QED BY <1>0, <1>7, <2>2, <2>3, BecameSomeExts DEF SetName
<1>8. CASE SetElement
  <2>1. PICK e \in Elements : cfg' = [cfg EXCEPT ![kind][cur].from[e] = block]
    BY <1>8 DEF SetElement
  <2>2. Became([cfg[kind][cur] EXCEPT !.from[e] = block])
    BY <1>8, <2>1, ElementIsSet DEF SetElement
  <2>3. [cfg[kind][cur] EXCEPT !.from[e] = block].exts = cfg[kind][cur].exts
    BY <1>0, <1>8 DEF SetElement, Entry
  <2> QED BY <1>0, <1>8, <2>2, <2>3, BecameSomeExts DEF SetElement, reading
<1>9. CASE AddMatch
  BY <1>9 DEF AddMatch, reading
<1>10. CASE EndBlock
  BY <1>0, <1>10 DEF EndBlock, Validate
<1> QED
  BY <1>1, <1>2, <1>3, <1>4, <1>5, <1>6, <1>7, <1>8, <1>9, <1>10 DEF Next

\* What is accepted has the elements it must have, stems from the accepted file
\* alone, and can decode something if it has decoders.
THEOREM AcceptedStaysComplete == Spec => []AcceptedIsComplete
<1>1. Init => CompleteSoFar /\ BlocksCounted /\ SomeExts
  BY DEF Init, CompleteSoFar, BlocksCounted, SomeExts, Empty, Kinds
<1>2. CompleteSoFar /\ SomeExts => AcceptedIsComplete
  BY DEF CompleteSoFar, SomeExts, HasExts, AcceptedIsComplete, Accepted, Fresh, Unfinished
<1> QED
  BY <1>1, <1>2, NextComplete, NextBlocksCounted, NextSomeExts, TypeCorrect, PTL DEF Spec
================================================================================
