------------------------------ MODULE ValueProofs ------------------------------
(***************************************************************************)
(* Proofs about Session, for any files and values: what libshout is told is  *)
(* what the file says, block by block and element by element; what is        *)
(* migrated from a legacy file streams and decodes as that file says; and    *)
(* what a value becomes in a command is one part of a word of it.            *)
(***************************************************************************)
EXTENDS Session, FiniteSetTheorems, TLAPS

--------------------------------------------------------------------------------
(* A setting is made. *)

\* The kinds of entries that say where to stream what, and the names of their elements.
Told == {"server", "stream", "intake"}
Elements(kind) == DOMAIN Setter[kind]

IsEntry(kind, x) == x = [e \in Elements(kind) |-> x[e]]
Entries(kind, list) == IsSequence(list) /\ \A i \in DOMAIN list : IsEntry(kind, list[i])

\* The elements of these entries, and which have a setter of their own.
LEMMA ToldSetters ==
  ASSUME NEW kind \in Told
  PROVE  /\ "name" \in Elements(kind) /\ "file_ext" \notin Elements(kind)
         /\ \A e \in Elements(kind) :
              /\ Setter[kind][e] # "ext"
              /\ Setter[kind][e] = "encoder" <=> e = "encoder"
              /\ Setter[kind][e] = "name" <=> e = "name"
<1>1. CASE kind = "server"
  BY <1>1 DEF Elements, Setter, ServerElements
<1>2. CASE kind = "stream"
  BY <1>2 DEF Elements, Setter, StreamElements
<1>3. CASE kind = "intake"
  BY <1>3 DEF Elements, Setter, IntakeElements
<1> QED
  BY <1>1, <1>2, <1>3 DEF Told

\* One element of one entry is made of a value, and nothing else changes.
ChangedTo(kind, list, cur, e, v, new) ==
  /\ Entries(kind, new) /\ DOMAIN new = DOMAIN list
  /\ \A i \in DOMAIN list \ {cur} : new[i] = list[i]
  /\ \A d \in Elements(kind) \ {e} : new[cur][d] = list[cur][d]
  /\ e \in Elements(kind) => new[cur][e] = v

LEMMA EntryChanges ==
  ASSUME NEW kind, NEW list, Entries(kind, list), NEW cur \in DOMAIN list, NEW e, NEW v
  PROVE  ChangedTo(kind, list, cur, e, v, [list EXCEPT ![cur][e] = v])
<1> DEFINE m == Len(list)
           entry == [list[cur] EXCEPT ![e] = v]
           new == [list EXCEPT ![cur][e] = v]
<1>1. /\ m \in Nat /\ DOMAIN list = 1..m
      /\ list = [i \in 1..m |-> list[i]]
  BY DEF Entries, IsSequence
<1>2. \A i \in 1..m : IsEntry(kind, list[i])
  BY <1>1 DEF Entries
<1>3. new = [list EXCEPT ![cur] = entry]
  OBVIOUS
<1>4. /\ IsEntry(kind, entry)
      /\ \A d \in Elements(kind) \ {e} : entry[d] = list[cur][d]
      /\ e \in Elements(kind) => entry[e] = v
  <2> DEFINE old == list[cur]
  <2>1. old = [d \in Elements(kind) |-> old[d]]
    BY <1>1, <1>2 DEF IsEntry
  <2> HIDE DEF old
  <2>2. [old EXCEPT ![e] = v] = [d \in Elements(kind) |-> IF d = e THEN v ELSE old[d]]
    BY <2>1
  <2> QED
    BY <2>2 DEF IsEntry, old
<1> HIDE DEF m, entry, new
<1>5. DOMAIN new = 1..m /\ new = [i \in 1..m |-> new[i]] /\ new[cur] = entry
  BY <1>1, <1>3
<1>6. \A i \in 1..m \ {cur} : new[i] = list[i]
  BY <1>1, <1>3
<1>7. IsSequence(new)
  BY <1>1, <1>5 DEF IsSequence
<1>8. Entries(kind, new)
  BY <1>2, <1>4, <1>5, <1>6, <1>7 DEF Entries
<1>9. ChangedTo(kind, list, cur, e, v, new)
  BY <1>1, <1>4, <1>5, <1>6, <1>8 DEF ChangedTo
<1> QED
  BY <1>9 DEF new

\* These entries have no extensions to lose.
LEMMA NoExtensions ==
  ASSUME NEW kind \in Told, NEW list, Entries(kind, list), NEW p, NEW v
  PROVE  [list EXCEPT ![p].file_ext = v] = list
<1> DEFINE m == Len(list)
<1>1. m \in Nat /\ DOMAIN list = 1..m /\ list = [i \in 1..m |-> list[i]]
  BY DEF Entries, IsSequence
<1>2. \A i \in 1..m : IsEntry(kind, list[i])
  BY <1>1 DEF Entries
<1> HIDE DEF m
<1>3. ASSUME NEW i \in 1..m PROVE [list[i] EXCEPT !.file_ext = v] = list[i]
  <2> DEFINE old == list[i]
  <2>1. old = [d \in Elements(kind) |-> old[d]] /\ "file_ext" \notin Elements(kind)
    BY <1>2, ToldSetters DEF IsEntry
  <2> HIDE DEF old
  <2>2. [old EXCEPT !.file_ext = v] = old
    BY <2>1
  <2> QED
    BY <2>2 DEF old
<1> QED
  BY <1>1, <1>3

LEMMA NothingRelocated ==
  ASSUME NEW kind \in Told, NEW list, Entries(kind, list), NEW cur, NEW raw
  PROVE  Relocated(list, cur, raw) = list
<1> DEFINE from == FindExt(list, raw)
           fewer == RemoveFirst(list[from].file_ext, raw)
           rest == IF from = 0 THEN list ELSE [list EXCEPT ![from].file_ext = fewer]
           more == Append(rest[cur].file_ext, raw)
<1>1. Relocated(list, cur, raw) = [rest EXCEPT ![cur].file_ext = more]
  BY DEF Relocated
<1> HIDE DEF fewer, more, from
<1>2. rest = list
  BY NoExtensions
<1> HIDE DEF rest
<1> QED
  BY <1>1, <1>2, NoExtensions

\* A setting that is accepted is made of the value, in this element of this entry and
\* nowhere else.
LEMMA SetMakes ==
  ASSUME NEW kind \in Told, NEW list, Entries(kind, list), NEW cur \in DOMAIN list,
         NEW e, NEW raw, Set(kind, list, cur, e, raw).ok
  PROVE  LET new == Set(kind, list, cur, e, raw).list
         IN /\ Entries(kind, new) /\ DOMAIN new = DOMAIN list
            /\ \A i \in DOMAIN list \ {cur} : new[i] = list[i]
            /\ \A d \in Elements(kind) \ {e} : new[cur][d] = list[cur][d]
            /\ e \in Elements(kind) =>
                 /\ new[cur][e] = Converted(Setter[kind][e], raw)
                 /\ Accepts(Setter[kind][e], list, cur, raw)
<1> DEFINE class == Setter[kind][e]
           new == Set(kind, list, cur, e, raw).list
           v == Converted(class, raw)
<1>1. Accepts(class, list, cur, raw)
  BY DEF Set
<1>2. new = IF class = "ext" THEN Relocated(list, cur, raw)
            ELSE [list EXCEPT ![cur][e] = v]
  BY <1>1 DEF Set
<1>3. e \in Elements(kind) => class # "ext"
  BY ToldSetters
<1> HIDE DEF class, new, v
<1>4. CASE class = "ext"
  <2>1. new = list
    BY <1>2, <1>4, NothingRelocated
  <2> QED
    BY <1>3, <1>4, <2>1 DEF new, class
<1>5. CASE class # "ext"
  <2>1. ChangedTo(kind, list, cur, e, v, new)
    BY <1>2, <1>5, EntryChanges
  <2> QED
    BY <1>1, <2>1 DEF ChangedTo, new, class, v
<1> QED
  BY <1>4, <1>5

--------------------------------------------------------------------------------
(* A block is read. *)

InBlock == INSTANCE FoldLaws WITH op <- NextElement
InList == INSTANCE FoldLaws WITH op <- NextBlock

\* An element whose value ends up in the entry as it was given last.
Plain(kind) == Elements(kind) \ {"encoder"}

\* What an accepted value is, at least: a port in its range, a name that is free.
Sound(kind, list, cur, e, raw) ==
  /\ Setter[kind][e] = "port" => IsNumber(raw, 1, 65535)
  /\ e = "name" => NameFree(list, cur, raw)

\* What a setter accepts is sound, and there.
LEMMA AcceptedIsSound ==
  ASSUME NEW kind \in Told, NEW list, NEW cur, NEW e \in Plain(kind), NEW raw,
         Accepts(Setter[kind][e], list, cur, raw)
  PROVE  raw # NoValue /\ Sound(kind, list, cur, e, raw)
<1>1. Setter[kind][e] # "encoder" /\ (e = "name" => Setter[kind][e] = "name")
  BY ToldSetters DEF Plain
<1> DEFINE class == Setter[kind][e]
<1> HIDE DEF class
<1>2. raw # NoValue /\ (class = "name" => NameFree(list, cur, raw))
      /\ (class = "port" => IsNumber(raw, 1, 65535))
  BY <1>1 DEF Accepts, class
<1> QED
  BY <1>1, <1>2 DEF Sound, class

\* The greatest of a set of numbers is the one that none is above.
LEMMA GreatestIsMax ==
  ASSUME NEW S, S \subseteq Nat, NEW m \in S, \A x \in S : x <= m
  PROVE  Max(S) = m
<1>1. \A x \in S : x \in Nat
  OBVIOUS
<1>2. \A x \in S : (\A y \in S : x >= y) => x = m
  BY <1>1
<1>3. \A y \in S : m >= y
  BY <1>1
<1> QED
  BY <1>2, <1>3 DEF Max

\* The elements of a block, one after the other: each element of the entry has the last
\* value that was given, and the other entries stay as they are.
LEMMA BlockReads ==
  ASSUME NEW kind \in Told, NEW list, Entries(kind, list), NEW cur \in DOMAIN list,
         NEW block, IsSequence(block),
         InBlock!LeftFold(<<kind, cur>>, [ok |-> TRUE, list |-> list], block).ok
  PROVE  LET new == InBlock!LeftFold(<<kind, cur>>, [ok |-> TRUE, list |-> list], block).list
         IN /\ Entries(kind, new) /\ DOMAIN new = DOMAIN list
            /\ \A i \in DOMAIN list \ {cur} : new[i] = list[i]
            /\ \A e \in Plain(kind) :
                 IF Giving(block, e) = {} THEN new[cur][e] = list[cur][e]
                 ELSE /\ new[cur][e] = Converted(Setter[kind][e], LastValue(block, e))
                      /\ Sound(kind, list, cur, e, LastValue(block, e))
<1> DEFINE n == Len(block)
           where == <<kind, cur>>
           base == [ok |-> TRUE, list |-> list]
<1>1. n \in Nat /\ DOMAIN block = 1..n
  BY DEF IsSequence
<1> HIDE DEF n, where, base
<1>0. PICK r : InBlock!Stepwise(where, base, n, block, r)
  BY <1>1, InBlock!FoldsStepwise
<1>2. /\ r[0] = base
      /\ \A k \in 1..n : r[k] = NextElement(where, r[k - 1], block[k])
      /\ InBlock!LeftFold(where, base, block) = r[n]
  BY <1>0 DEF InBlock!Stepwise
<1> DEFINE To(e, k) == {i \in 1..k : block[i][1] = e /\ block[i][2] # NoValue}
           LastIn(e, k, x) ==
             \/ To(e, k) = {} /\ x = list[cur][e]
             \/ \E j \in To(e, k) :
                  /\ \A i \in To(e, k) : i <= j
                  /\ x = Converted(Setter[kind][e], block[j][2])
                  /\ Sound(kind, list, cur, e, block[j][2])
           Read(k, new) ==
             /\ Entries(kind, new) /\ DOMAIN new = DOMAIN list
             /\ \A i \in DOMAIN list \ {cur} : new[i] = list[i]
             /\ \A e \in Plain(kind) : LastIn(e, k, new[cur][e])
           S == {k \in 0..n : r[k].ok => Read(k, r[k].list)}
<1>3. 0 \in S
  <2>1. \A e : To(e, 0) = {}
    OBVIOUS
  <2>2. r[0].list = list /\ 0 \in 0..n
    BY <1>1, <1>2 DEF base
  <2> QED
    BY <2>1, <2>2
<1>4. ASSUME NEW k \in 0..(n - 1), k \in S PROVE k + 1 \in S
  <2> DEFINE el == block[k + 1]
             old == r[k].list
             new == r[k + 1].list
  <2>1. k + 1 \in 1..n /\ k + 1 \in 0..n /\ (k + 1) - 1 = k /\ k \in Nat
    BY <1>1
  <2>2. r[k + 1] = NextElement(where, r[k], el)
    BY <1>2, <2>1
  <2> SUFFICES ASSUME r[k + 1].ok PROVE Read(k + 1, new)
    BY <2>1
  <2>3. r[k].ok /\ Read(k, old)
    BY <1>4, <2>2 DEF NextElement
  <2>4. r[k + 1] = Set(kind, old, cur, el[1], el[2])
    BY <2>2, <2>3 DEF NextElement, where
  <2>5. /\ Entries(kind, new) /\ DOMAIN new = DOMAIN old
        /\ \A i \in DOMAIN old \ {cur} : new[i] = old[i]
        /\ \A d \in Elements(kind) \ {el[1]} : new[cur][d] = old[cur][d]
        /\ el[1] \in Elements(kind) =>
             /\ new[cur][el[1]] = Converted(Setter[kind][el[1]], el[2])
             /\ Accepts(Setter[kind][el[1]], old, cur, el[2])
    <3> HIDE DEF LastIn, el, old
    <3>1. Set(kind, old, cur, el[1], el[2]).ok /\ Entries(kind, old) /\ cur \in DOMAIN old
      BY <2>3, <2>4
    <3> QED
      BY <2>4, <3>1, SetMakes
  <2>6. ASSUME NEW e \in Plain(kind) PROVE LastIn(e, k + 1, new[cur][e])
    <3>1. e \in Elements(kind) /\ LastIn(e, k, old[cur][e])
      BY <2>3 DEF Plain
    <3>2. CASE el[1] # e
      <4>1. To(e, k + 1) = To(e, k)
        BY <2>1, <3>2
      <4>2. new[cur][e] = old[cur][e]
        BY <2>5, <3>1, <3>2
      <4> HIDE DEF el, old, new
      <4> QED
        BY <3>1, <4>1, <4>2
    <3>3. CASE el[1] = e
      <4>1. Accepts(Setter[kind][e], old, cur, el[2])
        BY <2>5, <3>1, <3>3
      <4>2. el[2] # NoValue /\ Sound(kind, old, cur, e, el[2])
        BY <4>1, AcceptedIsSound
      <4>3. NameFree(old, cur, el[2]) => NameFree(list, cur, el[2])
        BY <2>3 DEF NameFree
      <4>4. Sound(kind, list, cur, e, el[2])
        BY <4>2, <4>3 DEF Sound
      <4>5. k + 1 \in 1..(k + 1)
        BY <2>1
      <4>6. k + 1 \in To(e, k + 1)
        BY <3>3, <4>2, <4>5
      <4>8. ASSUME NEW i \in To(e, k + 1) PROVE i <= k + 1
        BY <2>1
      <4>7. new[cur][e] = Converted(Setter[kind][e], el[2])
        BY <2>5, <3>1, <3>3
      <4> HIDE DEF To, el, old, new
      <4> QED
        BY <4>4, <4>6, <4>7, <4>8 DEF el
    <3> QED
      BY <3>2, <3>3
  <2> QED
    BY <2>3, <2>5, <2>6
<1>5. n \in S
  <2>1. n \in 0..n
    BY <1>1
  <2> HIDE DEF S
  <2> QED
    BY <1>1, <1>3, <1>4, <2>1, InBlock!Induction
<1>6. Read(n, r[n].list)
  BY <1>2, <1>5 DEF where, base
<1>7. ASSUME NEW e \in Plain(kind), NEW x, LastIn(e, n, x)
      PROVE  IF Giving(block, e) = {} THEN x = list[cur][e]
             ELSE /\ x = Converted(Setter[kind][e], LastValue(block, e))
                  /\ Sound(kind, list, cur, e, LastValue(block, e))
  <2>1. Giving(block, e) = To(e, n)
    BY <1>1 DEF Giving
  <2>2. CASE To(e, n) = {}
    BY <1>7, <2>1, <2>2
  <2>3. CASE To(e, n) # {}
    <3>1. PICK j \in To(e, n) :
            /\ \A i \in To(e, n) : i <= j
            /\ x = Converted(Setter[kind][e], block[j][2])
            /\ Sound(kind, list, cur, e, block[j][2])
      BY <1>7, <2>3
    <3>2. Max(To(e, n)) = j
      <4>1. To(e, n) \subseteq Nat
        BY <1>1
      <4> HIDE DEF To
      <4> QED
        BY <3>1, <4>1, GreatestIsMax
    <3>3. LastValue(block, e) = block[j][2]
      BY <2>1, <2>3, <3>2 DEF LastValue
    <3> HIDE DEF To
    <3> QED
      BY <2>1, <2>3, <3>1, <3>3
  <2> QED
    BY <2>2, <2>3
<1>8. InBlock!LeftFold(<<kind, cur>>, [ok |-> TRUE, list |-> list], block) = r[n]
  BY <1>2 DEF where, base
<1> HIDE DEF LastIn
<1> QED
  BY <1>6, <1>7, <1>8

\* A list with one more entry behind it.
LEMMA Appended ==
  ASSUME NEW list, IsSequence(list), NEW x
  PROVE  LET more == Append(list, x)
         IN /\ IsSequence(more)
            /\ Len(list) \in Nat /\ DOMAIN list = 1..Len(list)
            /\ DOMAIN more = 1..(Len(list) + 1)
            /\ more[Len(list) + 1] = x
            /\ \A i \in DOMAIN list : more[i] = list[i]
<1> DEFINE S == {list[i] : i \in DOMAIN list} \cup {x}
           more == Append(list, x)
<1>1. list \in Seq(S) /\ x \in S
  BY DEF IsSequence
<1> HIDE DEF S
<1>2. /\ more \in Seq(S) /\ Len(list) \in Nat /\ DOMAIN list = 1..Len(list)
      /\ DOMAIN more = 1..(Len(list) + 1) /\ more[Len(list) + 1] = x
      /\ \A i \in DOMAIN list : more[i] = list[i]
  BY <1>1
<1> HIDE DEF more
<1>3. more = [i \in 1..(Len(list) + 1) |-> more[i]]
  BY <1>2
<1>4. IsSequence(more)
  BY <1>2, <1>3 DEF IsSequence
<1> QED
  BY <1>2, <1>4 DEF more

\* A name is found where it is, or nowhere.
LEMMA FindFinds ==
  ASSUME NEW list, IsSequence(list), NEW n
  PROVE  /\ Find(list, n) = 0 => \A i \in DOMAIN list : list[i].name # n
         /\ Find(list, n) # 0 => Find(list, n) \in DOMAIN list /\ list[Find(list, n)].name = n
<1> DEFINE places == {i \in DOMAIN list : list[i].name = n}
<1>1. places \subseteq Nat /\ 0 \notin places
  BY DEF IsSequence
<1>2. CASE places = {}
  BY <1>2 DEF Find
<1>3. CASE places # {}
  <2>1. \E i \in places : \A j \in places : i <= j
    <3> HIDE DEF places
    <3> QED
      BY <1>1, <1>3, InBlock!Least
  <2>2. Find(list, n) \in places
    BY <1>3, <2>1 DEF Find
  <2> QED
    BY <1>1, <2>2
<1> QED
  BY <1>2, <1>3

\* A block is read into the entry with the default name, which is one of the list, or
\* one behind it in which nothing is set.
StartsAs(kind, list, begun, cur) ==
  /\ Entries(kind, begun) /\ cur \in DOMAIN begun
  /\ begun[cur].name = Default
  /\ \/ begun = list
     \/ /\ \A i \in DOMAIN list : list[i].name # Default
        /\ DOMAIN begun = DOMAIN list \cup {cur} /\ cur \notin DOMAIN list
        /\ \A i \in DOMAIN list : begun[i] = list[i]
        /\ \A e \in Elements(kind) : begun[cur][e] = Unset(Setter[kind][e])

LEMMA StartsFrom ==
  ASSUME NEW kind \in Told, NEW list, Entries(kind, list)
  PROVE  StartsAs(kind, list, Got(kind, list, Default), Find(Got(kind, list, Default), Default))
<1> DEFINE start0 == Got(kind, list, Default)
           cur == Find(start0, Default)
           entry == [NewEntry(kind) EXCEPT !.name = Default]
<1>1. CASE Find(list, Default) # 0
  BY <1>1, FindFinds DEF Entries, Got, StartsAs
<1>2. CASE Find(list, Default) = 0
  <2> DEFINE m == Len(list)
  <2>1. m \in Nat /\ DOMAIN list = 1..m /\ list \in Seq({list[i] : i \in 1..m})
    BY DEF Entries, IsSequence
  <2>2. start0 = Append(list, entry)
    BY <1>2 DEF Got
  <2>3. /\ entry = [e \in Elements(kind) |-> entry[e]] /\ entry.name = Default
        /\ \A e \in Elements(kind) : entry[e] = Unset(Setter[kind][e])
    <3>1. NewEntry(kind) = [e \in Elements(kind) |-> Unset(Setter[kind][e])]
      BY DEF NewEntry, Elements
    <3>2. "name" \in Elements(kind) /\ Setter[kind]["name"] = "name"
      BY ToldSetters
    <3>3. Unset("name") = Default
      BY DEF Unset
    <3>4. entry = [e \in Elements(kind) |-> IF e = "name" THEN Default ELSE Unset(Setter[kind][e])]
      BY <3>1
    <3> HIDE DEF entry
    <3> QED
      BY <3>2, <3>3, <3>4
  <2> HIDE DEF entry, m, cur, start0
  <2>4. /\ IsSequence(start0)
        /\ DOMAIN start0 = 1..(m + 1) /\ start0[m + 1] = entry
        /\ \A i \in 1..m : start0[i] = list[i]
    BY <2>1, <2>2, Appended DEF m, Entries
  <2>6. \A i \in 1..m : list[i].name # Default
    BY <1>2, <2>1, FindFinds DEF Entries
  <2>7. Find(start0, Default) = m + 1
    <3>1. start0[m + 1].name = Default /\ m + 1 \in DOMAIN start0 /\ m + 1 # 0
      BY <2>1, <2>3, <2>4
    <3>2. Find(start0, Default) # 0
      BY <2>4, <3>1, FindFinds
    <3> DEFINE f == Find(start0, Default)
    <3>3. f \in 1..(m + 1) /\ start0[f].name = Default
      BY <2>4, <3>2, FindFinds
    <3> HIDE DEF f
    <3>4. f \notin 1..m
      BY <2>4, <2>6, <3>3
    <3>5. f = m + 1
      BY <2>1, <3>3, <3>4
    <3> QED
      BY <3>5 DEF f
  <2>8. \A i \in 1..(m + 1) : IsEntry(kind, start0[i])
    <3>1. \A i \in 1..m : IsEntry(kind, start0[i])
      BY <2>1, <2>4 DEF Entries
    <3>2. IsEntry(kind, start0[m + 1])
      BY <2>3, <2>4 DEF IsEntry
    <3> QED
      BY <2>1, <3>1, <3>2
  <2>9. Entries(kind, start0)
    BY <2>4, <2>8 DEF Entries
  <2>10. cur = m + 1
    BY <2>7 DEF cur
  <2> QED
    <3>1. DOMAIN start0 = DOMAIN list \cup {cur} /\ cur \notin DOMAIN list /\ cur \in DOMAIN start0
      BY <2>1, <2>4, <2>10
    <3>2. start0[cur] = entry /\ \A i \in DOMAIN list : start0[i] = list[i]
      BY <2>1, <2>4, <2>10
    <3>3. StartsAs(kind, list, start0, cur)
      BY <2>1, <2>3, <2>6, <2>9, <3>1, <3>2 DEF StartsAs
    <3> QED
      BY <3>3 DEF cur, start0
<1> QED
  BY <1>1, <1>2

\* The entry that a block goes into, after it is read: what it was before, but for what
\* the block says; and the other entries are the same.
BlockRead(kind, block, begun, cur, new) ==
  /\ Entries(kind, new) /\ DOMAIN new = DOMAIN begun
  /\ \A i \in DOMAIN begun \ {cur} : new[i] = begun[i]
  /\ \A e \in Plain(kind) :
       IF Giving(block, e) = {} THEN new[cur][e] = begun[cur][e]
       ELSE /\ new[cur][e] = Converted(Setter[kind][e], LastValue(block, e))
            /\ Sound(kind, begun, cur, e, LastValue(block, e))

LEMMA ReadBlockReads ==
  ASSUME NEW kind \in Told, NEW list, Entries(kind, list), NEW block, IsSequence(block),
         ReadBlock(kind, list, block).ok
  PROVE  BlockRead(kind, block, Got(kind, list, Default),
                   Find(Got(kind, list, Default), Default), ReadBlock(kind, list, block).list)
<1> DEFINE start0 == Got(kind, list, Default)
           cur == Find(start0, Default)
           read == InBlock!LeftFold(<<kind, cur>>, [ok |-> TRUE, list |-> start0], block)
<1>1. /\ ReadBlock(kind, list, block).ok => read.ok
      /\ ReadBlock(kind, list, block).list = read.list
  BY DEF ReadBlock, InBlock!LeftFold, FoldLeft, InBlock!FoldLeft, MapThenFoldSet,
         InBlock!MapThenFoldSet, Max, InBlock!Max
<1>2. Entries(kind, start0) /\ cur \in DOMAIN start0
  BY StartsFrom DEF StartsAs
<1> HIDE DEF start0, cur
<1>3. read.ok
  BY <1>1
<1>4. BlockRead(kind, block, start0, cur, read.list)
  BY <1>2, <1>3, BlockReads DEF BlockRead
<1> QED
  BY <1>1, <1>4 DEF start0, cur

--------------------------------------------------------------------------------
(* A list of blocks is read. *)

\* The blocks of an entry that give an element, and what the entry has of it then.
Givers(blocks, last, e) == {i \in Begins(blocks, last)..last : Giving(blocks[i], e) # {}}
Made(kind, blocks, last, e, x) ==
  IF Givers(blocks, last, e) = {} THEN x = Unset(Setter[kind][e])
  ELSE /\ x = Converted(Setter[kind][e], ValueAt(blocks, last, e))
       /\ Setter[kind][e] = "port" => IsNumber(ValueAt(blocks, last, e), 1, 65535)

\* What the entry of a block has of an element before and after it is read.
Before(kind, blocks, k, e, x) ==
  IF k # 0 /\ NameOf(blocks[k]) = Default THEN Made(kind, blocks, k, e, x)
  ELSE x = Unset(Setter[kind][e])
After(kind, block, e, old, new) ==
  IF Giving(block, e) = {} THEN new = old
  ELSE /\ new = Converted(Setter[kind][e], LastValue(block, e))
       /\ Setter[kind][e] = "port" => IsNumber(LastValue(block, e), 1, 65535)

\* The entry of a name that block a has, after the first k blocks.
EntryOf(kind, blocks, k, a, entry) ==
  /\ NameOf(blocks[a]) = entry.name
  /\ entry.name = Default => a = k
  /\ \A e \in Plain(kind) : Made(kind, blocks, a, e, entry[e])

\* The list after the first k blocks: each entry is that of one block, and of those
\* without a name before it; every name that a block has is there, and once.
ListMade(kind, blocks, k, list) ==
  /\ Entries(kind, list)
  /\ \A i, j \in DOMAIN list : list[i].name = list[j].name => i = j
  /\ \A a \in 1..k : NameOf(blocks[a]) # Default \/ a = k =>
                     \E i \in DOMAIN list : list[i].name = NameOf(blocks[a])
  /\ \A a, b \in 1..k : NameOf(blocks[a]) = NameOf(blocks[b]) =>
                        a = b \/ NameOf(blocks[a]) = Default
  /\ \A i \in DOMAIN list : \E a \in 1..k : EntryOf(kind, blocks, k, a, list[i])

\* The blocks of an entry begin where they did, if the block before had no name, and
\* with the block itself otherwise.
LEMMA BeginsNext ==
  ASSUME NEW blocks, NEW k \in Nat
  PROVE  /\ k # 0 /\ NameOf(blocks[k]) = Default =>
              Begins(blocks, k + 1) = Begins(blocks, k)
         /\ k = 0 \/ NameOf(blocks[k]) # Default => Begins(blocks, k + 1) = k + 1
<1> DEFINE S(last) == {1} \cup {i \in 2..last : NameOf(blocks[i - 1]) # Default}
<1>1. ASSUME k # 0, NameOf(blocks[k]) = Default
      PROVE  S(k + 1) = S(k)
  <2>1. ASSUME NEW i \in 2..(k + 1), NameOf(blocks[i - 1]) # Default PROVE i \in 2..k
    <3>1. i # k + 1
      BY <1>1, <2>1
    <3> QED
      BY <3>1
  <2> QED
    BY <2>1
<1>2. ASSUME k = 0 \/ NameOf(blocks[k]) # Default
      PROVE  Max(S(k + 1)) = k + 1
  <2>1. k + 1 \in S(k + 1)
    <3>1. CASE k = 0
      BY <3>1
    <3>2. CASE k # 0
      <4>1. k + 1 \in 2..(k + 1) /\ (k + 1) - 1 = k
        BY <3>2
      <4> QED
        BY <1>2, <3>2, <4>1
    <3> QED
      BY <3>1, <3>2
  <2>2. S(k + 1) \subseteq Nat /\ \A i \in S(k + 1) : i <= k + 1
    OBVIOUS
  <2> HIDE DEF S
  <2> QED
    BY <2>1, <2>2, GreatestIsMax
<1>3. Begins(blocks, k + 1) = Max(S(k + 1)) /\ Begins(blocks, k) = Max(S(k))
  BY DEF Begins
<1> HIDE DEF S
<1> QED
  BY <1>1, <1>2, <1>3

\* The blocks of an entry begin before its last.
LEMMA BeginsBefore ==
  ASSUME NEW blocks, NEW k \in Nat \ {0}
  PROVE  Begins(blocks, k) \in 1..k
<1> DEFINE S == {1} \cup {i \in 2..k : NameOf(blocks[i - 1]) # Default}
<1>1. S \subseteq 1..k /\ S # {}
  OBVIOUS
<1> HIDE DEF S
<1>2. Max(S) \in S
  BY <1>1, InBlock!MaxOf DEF Max, InBlock!Max
<1> QED
  BY <1>1, <1>2 DEF Begins, S

\* One more block, for the entry of the block before it or one of its own, is made.
LEMMA MadeNext ==
  ASSUME NEW kind \in Told, NEW blocks, NEW k \in Nat, NEW e, NEW x, NEW new,
         Before(kind, blocks, k, e, x), After(kind, blocks[k + 1], e, x, new)
  PROVE  Made(kind, blocks, k + 1, e, new)
<1> DEFINE gives == Giving(blocks[k + 1], e) # {}
           goesOn == k # 0 /\ NameOf(blocks[k]) = Default
           new0 == Givers(blocks, k + 1, e)
           old0 == IF goesOn THEN Givers(blocks, k, e) ELSE {}
<1>1. Begins(blocks, k + 1) \in 1..(k + 1)
  BY BeginsBefore
<1>2. new0 = IF gives THEN old0 \cup {k + 1} ELSE old0
  <2>1. CASE goesOn
    <3>1. Begins(blocks, k + 1) = Begins(blocks, k) /\ Begins(blocks, k) \in 1..k
      BY <2>1, BeginsNext, BeginsBefore
    <3>2. \A i : i \in Begins(blocks, k)..(k + 1) <=> i \in Begins(blocks, k)..k \/ i = k + 1
      BY <3>1
    <3> QED
      BY <2>1, <3>1, <3>2 DEF Givers
  <2>2. CASE ~goesOn
    <3>1. Begins(blocks, k + 1) = k + 1
      BY <2>2, BeginsNext
    <3>2. \A i : i \in (k + 1)..(k + 1) <=> i = k + 1
      OBVIOUS
    <3> QED
      BY <2>2, <3>1, <3>2 DEF Givers
  <2> QED
    BY <2>1, <2>2
<1>5. \A last : ValueAt(blocks, last, e)
                  = IF Givers(blocks, last, e) = {} THEN NULL
                    ELSE LastValue(blocks[Max(Givers(blocks, last, e))], e)
  BY DEF ValueAt, Givers
<1>3. CASE gives
  <2>1. k + 1 \in new0
    BY <1>2, <1>3
  <2>2. new0 \subseteq Nat /\ \A i \in new0 : i <= k + 1
    BY <1>1 DEF Givers
  <2>3. Max(new0) = k + 1
    <3> HIDE DEF new0
    <3> QED
      BY <2>1, <2>2, GreatestIsMax
  <2>4. ValueAt(blocks, k + 1, e) = LastValue(blocks[k + 1], e)
    BY <1>5, <2>1, <2>3
  <2> QED
    BY <1>3, <2>1, <2>4 DEF Made, After
<1>4. CASE ~gives
  <2>1. new0 = old0 /\ new = x
    BY <1>2, <1>4 DEF After
  <2>2. CASE goesOn
    <3>1. Givers(blocks, k + 1, e) = Givers(blocks, k, e) /\ Made(kind, blocks, k, e, x)
      BY <2>1, <2>2 DEF Before
    <3>2. ValueAt(blocks, k + 1, e) = ValueAt(blocks, k, e)
      BY <1>5, <3>1
    <3> QED
      BY <2>1, <3>1, <3>2 DEF Made
  <2>3. CASE ~goesOn
    BY <2>1, <2>3 DEF Made, Before
  <2> QED
    BY <2>2, <2>3
<1> QED
  BY <1>3, <1>4

\* One more block that is accepted: the list is made of one more.
LEMMA ListNext ==
  ASSUME NEW kind \in Told, NEW blocks, NEW k \in Nat, NEW list,
         ListMade(kind, blocks, k, list), IsSequence(blocks[k + 1]),
         ReadBlock(kind, list, blocks[k + 1]).ok
  PROVE  ListMade(kind, blocks, k + 1, ReadBlock(kind, list, blocks[k + 1]).list)
<1> DEFINE block == blocks[k + 1]
           begun == Got(kind, list, Default)
           cur == Find(begun, Default)
           new == ReadBlock(kind, list, block).list
<1>0. Entries(kind, list)
  BY DEF ListMade
<1> HIDE DEF begun, cur, new, block
<1>1. /\ Entries(kind, begun) /\ cur \in DOMAIN begun /\ begun[cur].name = Default
      /\ \/ begun = list
         \/ /\ \A i \in DOMAIN list : list[i].name # Default
            /\ DOMAIN begun = DOMAIN list \cup {cur} /\ cur \notin DOMAIN list
            /\ \A i \in DOMAIN list : begun[i] = list[i]
            /\ \A e \in Elements(kind) : begun[cur][e] = Unset(Setter[kind][e])
  <2>1. StartsAs(kind, list, begun, cur)
    BY <1>0, StartsFrom DEF begun, cur
  <2> QED
    BY <2>1 DEF StartsAs
<1>2. /\ Entries(kind, new) /\ DOMAIN new = DOMAIN begun
      /\ \A i \in DOMAIN begun \ {cur} : new[i] = begun[i]
      /\ \A e \in Plain(kind) :
           IF Giving(block, e) = {} THEN new[cur][e] = begun[cur][e]
           ELSE /\ new[cur][e] = Converted(Setter[kind][e], LastValue(block, e))
                /\ Sound(kind, begun, cur, e, LastValue(block, e))
  <2>1. BlockRead(kind, block, begun, cur, new)
    BY <1>0, ReadBlockReads DEF begun, cur, new, block
  <2> QED
    BY <2>1 DEF BlockRead
\* The names of the list, and of the block.
<1>3. "name" \in Plain(kind) /\ Setter[kind]["name"] = "name"
  BY ToldSetters DEF Plain
<1>4. new[cur].name = NameOf(block)
  <2>1. \A v : Converted("name", v) = v
    BY DEF Converted
  <2> QED
    BY <1>1, <1>2, <1>3, <2>1 DEF NameOf
<1>5. \A i \in DOMAIN begun \ {cur} : i \in DOMAIN list /\ begun[i] = list[i] /\ new[i] = list[i]
  BY <1>1, <1>2
<1>6. \A i \in DOMAIN list : i = cur \/ i \in DOMAIN begun \ {cur}
  BY <1>1
<1>7. \A i \in DOMAIN begun \ {cur} : list[i].name # Default
  BY <1>1, <1>5 DEF ListMade
<1>8. \A i \in DOMAIN begun \ {cur} : list[i].name # NameOf(block)
  <2>1. CASE Giving(block, "name") = {}
    BY <1>7, <2>1 DEF NameOf
  <2>2. CASE Giving(block, "name") # {}
    BY <1>2, <1>3, <1>5, <2>2 DEF NameOf, Sound, NameFree
  <2> QED
    BY <2>1, <2>2
<1>9. \A i, j \in DOMAIN new : new[i].name = new[j].name => i = j
  <2> SUFFICES ASSUME NEW i \in DOMAIN new, NEW j \in DOMAIN new, new[i].name = new[j].name,
                      i # j
               PROVE  FALSE
    OBVIOUS
  <2>1. CASE i = cur \/ j = cur
    BY <1>2, <1>4, <1>5, <1>8, <2>1
  <2>2. CASE i # cur /\ j # cur
    BY <1>2, <1>5, <2>2 DEF ListMade
  <2> QED
    BY <2>1, <2>2
\* The names of the blocks so far.
<1>10. ASSUME NEW a \in 1..k, NameOf(blocks[a]) # Default
       PROVE  \E i \in DOMAIN new \ {cur} : new[i].name = NameOf(blocks[a])
  <2>1. PICK i \in DOMAIN list : list[i].name = NameOf(blocks[a])
    BY <1>10 DEF ListMade
  <2>2. i # cur
    BY <1>1, <1>10, <2>1
  <2> QED
    BY <1>2, <1>5, <1>6, <2>1, <2>2
<1>11. \A a \in 1..(k + 1) : a \in 1..k \/ a = k + 1
  OBVIOUS
<1>12. \A a \in 1..(k + 1) : NameOf(blocks[a]) # Default \/ a = k + 1 =>
                             \E i \in DOMAIN new : new[i].name = NameOf(blocks[a])
  BY <1>1, <1>2, <1>4, <1>10, <1>11 DEF block
<1>13. \A a, b \in 1..(k + 1) : NameOf(blocks[a]) = NameOf(blocks[b]) =>
                                a = b \/ NameOf(blocks[a]) = Default
  <2>1. ASSUME NEW a \in 1..k, NameOf(blocks[a]) # Default
        PROVE  NameOf(blocks[a]) # NameOf(block)
    BY <1>2, <1>5, <1>8, <1>10, <2>1
  <2>2. \A a, b \in 1..k : NameOf(blocks[a]) = NameOf(blocks[b]) =>
                           a = b \/ NameOf(blocks[a]) = Default
    BY DEF ListMade
  <2> QED
    BY <1>11, <2>1, <2>2 DEF block
\* The entry of the block.
<1>14. ASSUME NEW e \in Plain(kind) PROVE Made(kind, blocks, k + 1, e, new[cur][e])
  <2>1. e \in Elements(kind)
    BY <1>14 DEF Plain
  <2>2. Before(kind, blocks, k, e, begun[cur][e])
    <3>1. CASE begun = list
      <4>1. PICK a \in 1..k : EntryOf(kind, blocks, k, a, begun[cur])
        BY <1>1, <3>1 DEF ListMade
      <4>2. a = k /\ k # 0 /\ NameOf(blocks[k]) = Default
        BY <1>1, <4>1 DEF EntryOf
      <4>3. Made(kind, blocks, k, e, begun[cur][e])
        BY <1>14, <4>1, <4>2 DEF EntryOf
      <4> QED
        BY <4>2, <4>3 DEF Before
    <3>2. CASE begun # list
      <4>1. begun[cur][e] = Unset(Setter[kind][e]) /\ \A i \in DOMAIN list : list[i].name # Default
        BY <1>1, <2>1, <3>2
      <4>2. k # 0 => k \in 1..k
        OBVIOUS
      <4>3. k # 0 => NameOf(blocks[k]) # Default
        BY <4>1, <4>2 DEF ListMade
      <4> QED
        BY <4>1, <4>3 DEF Before
    <3> QED
      BY <3>1, <3>2
  <2>3. After(kind, block, e, begun[cur][e], new[cur][e])
    BY <1>2, <1>14 DEF Sound, After
  <2> QED
    BY <2>2, <2>3, MadeNext DEF block
<1>15. ASSUME NEW i \in DOMAIN new
       PROVE  \E a \in 1..(k + 1) : EntryOf(kind, blocks, k + 1, a, new[i])
  <2>1. CASE i = cur
    <3>1. k + 1 \in 1..(k + 1) /\ NameOf(blocks[k + 1]) = new[cur].name
      BY <1>4 DEF block
    <3>2. EntryOf(kind, blocks, k + 1, k + 1, new[cur])
      BY <1>14, <3>1 DEF EntryOf
    <3> QED
      BY <2>1, <3>1, <3>2
  <2>2. CASE i # cur
    <3>1. i \in DOMAIN list /\ new[i] = list[i] /\ new[i].name # Default
      BY <1>2, <1>5, <1>7, <2>2
    <3>2. PICK a \in 1..k : EntryOf(kind, blocks, k, a, list[i])
      BY <3>1 DEF ListMade
    <3>3. a \in 1..(k + 1) /\ EntryOf(kind, blocks, k + 1, a, new[i])
      BY <3>1, <3>2 DEF EntryOf
    <3> QED
      BY <3>3
  <2> QED
    BY <2>1, <2>2
<1>16. ListMade(kind, blocks, k + 1, new)
  BY <1>2, <1>9, <1>12, <1>13, <1>15 DEF ListMade
<1> QED
  BY <1>16 DEF new, block

\* A list of blocks that are all accepted is made of all of them.
LEMMA ListReads ==
  ASSUME NEW kind \in Told, NEW blocks, IsSequence(blocks),
         \A i \in DOMAIN blocks : IsSequence(blocks[i]),
         ReadList(kind, blocks).ok
  PROVE  ListMade(kind, blocks, Len(blocks), ReadList(kind, blocks).list)
<1> DEFINE n == Len(blocks)
           base == [ok |-> TRUE, list |-> << >>]
<1>1. n \in Nat /\ DOMAIN blocks = 1..n
  BY DEF IsSequence
<1>2. ReadList(kind, blocks) = InList!LeftFold(kind, base, blocks)
  BY DEF ReadList, InList!LeftFold, FoldLeft, InList!FoldLeft, MapThenFoldSet,
         InList!MapThenFoldSet, Max, InList!Max
<1> HIDE DEF n, base
<1>0. PICK r : InList!Stepwise(kind, base, n, blocks, r)
  BY <1>1, InList!FoldsStepwise
<1>3. /\ r[0] = base
      /\ \A k \in 1..n : r[k] = NextBlock(kind, r[k - 1], blocks[k])
      /\ InList!LeftFold(kind, base, blocks) = r[n]
  BY <1>0 DEF InList!Stepwise
<1> DEFINE S == {k \in 0..n : r[k].ok => ListMade(kind, blocks, k, r[k].list)}
<1>4. 0 \in S
  <2>1. ListMade(kind, blocks, 0, << >>)
    <3> DEFINE none == << >>
    <3>1. DOMAIN none = {} /\ none \in Seq({none[i] : i \in DOMAIN none}) /\ 1..0 = {}
      OBVIOUS
    <3> HIDE DEF none
    <3>2. ListMade(kind, blocks, 0, none)
      BY <3>1 DEF ListMade, Entries, IsSequence
    <3> QED
      BY <3>2 DEF none
  <2>2. r[0].list = << >> /\ 0 \in 0..n
    BY <1>1, <1>3 DEF base
  <2> QED
    BY <2>1, <2>2
<1>5. ASSUME NEW k \in 0..(n - 1), k \in S PROVE k + 1 \in S
  <2>1. k \in Nat /\ k + 1 \in 1..n /\ k + 1 \in 0..n /\ (k + 1) - 1 = k
    BY <1>1
  <2>2. r[k + 1] = NextBlock(kind, r[k], blocks[k + 1]) /\ IsSequence(blocks[k + 1])
    BY <1>1, <1>3, <2>1
  <2> SUFFICES ASSUME r[k + 1].ok PROVE ListMade(kind, blocks, k + 1, r[k + 1].list)
    BY <2>1
  <2>3. r[k].ok /\ r[k + 1] = ReadBlock(kind, r[k].list, blocks[k + 1])
    BY <2>2 DEF NextBlock
  <2>4. ListMade(kind, blocks, k, r[k].list)
    BY <1>5, <2>3
  <2> HIDE DEF S
  <2> QED
    BY <2>1, <2>2, <2>3, <2>4, ListNext
<1>6. n \in S
  <2>1. n \in 0..n
    BY <1>1
  <2> HIDE DEF S
  <2> QED
    BY <1>1, <1>4, <1>5, <2>1, InList!Induction
<1> QED
  BY <1>2, <1>3, <1>6 DEF n

\* The entry of a name is that of the last block with this name.
LEMMA EntryIsWritten ==
  ASSUME NEW kind \in Told, NEW blocks, IsSequence(blocks), NEW list,
         ListMade(kind, blocks, Len(blocks), list), NEW n, Find(list, n) # 0
  PROVE  \A e \in Plain(kind) :
           Made(kind, blocks, LastOfName(blocks, n), e, list[Find(list, n)][e])
<1> DEFINE m == Len(blocks)
           entry == list[Find(list, n)]
           places == {i \in DOMAIN blocks : NameOf(blocks[i]) = n}
<1>1. m \in Nat /\ DOMAIN blocks = 1..m
  BY DEF IsSequence
<1>2. Find(list, n) \in DOMAIN list /\ entry.name = n
  BY FindFinds DEF ListMade, Entries
<1>3. PICK a \in 1..m : EntryOf(kind, blocks, m, a, entry)
  BY <1>2 DEF ListMade
<1>4. a \in places /\ (n = Default => a = m)
  BY <1>1, <1>2, <1>3 DEF EntryOf
<1>5. \A b \in places : b \in 1..m /\ b <= a
  <2>1. \A b \in places : b \in 1..m /\ NameOf(blocks[b]) = n
    BY <1>1
  <2>2. \A b \in places : b = a \/ n = Default
    BY <1>4, <2>1 DEF ListMade
  <2> QED
    BY <1>1, <1>4, <2>1, <2>2
<1>6. LastOfName(blocks, n) = a
  <2>1. places \subseteq Nat
    BY <1>1
  <2>2. Max(places) = a
    <3> HIDE DEF places
    <3> QED
      BY <1>4, <1>5, <2>1, GreatestIsMax
  <2> QED
    BY <2>2 DEF LastOfName
<1> QED
  BY <1>3, <1>6 DEF EntryOf

--------------------------------------------------------------------------------
(* A file that ezstream-cfgmigrate prints is lists of blocks, too. *)

InSettings == INSTANCE FoldLaws WITH op <- NextSetting
InStrings == INSTANCE FoldLaws WITH op <- NextString

\* Two sequences behind each other are one.
LEMMA Joined ==
  ASSUME NEW s, IsSequence(s), NEW t, IsSequence(t)
  PROVE  IsSequence(s \o t)
<1> DEFINE S == {s[i] : i \in DOMAIN s} \cup {t[i] : i \in DOMAIN t}
           both == s \o t
<1>1. s \in Seq(S) /\ t \in Seq(S)
  BY DEF IsSequence
<1> HIDE DEF S
<1>2. both \in Seq(S)
  BY <1>1
<1> HIDE DEF both
<1>3. both \in Seq({both[i] : i \in DOMAIN both})
  BY <1>2
<1> QED
  BY <1>3 DEF both, IsSequence

\* So are none, one, and what is printed of one element.
LEMMA Short ==
  ASSUME NEW x
  PROVE  /\ IsSequence(<< >>) /\ IsSequence(<<x>>)
         /\ \A if, n, v : IsSequence(Elem(if, n, v))
<1>1. IsSequence(<< >>)
  BY DEF IsSequence
<1>2. \A y : IsSequence(<<y>>)
  BY DEF IsSequence
<1> QED
  BY <1>1, <1>2 DEF Elem

\* What is printed of some strings is a sequence of elements.
LEMMA StringsPrinted ==
  ASSUME NEW entry, NEW names, IsSequence(names)
  PROVE  IsSequence(Strings(entry, names))
<1> DEFINE n == Len(names)
           none == << >>
<1>1. n \in Nat /\ DOMAIN names = 1..n
  BY DEF IsSequence
<1>2. Strings(entry, names) = InStrings!LeftFold(entry, none, names)
  BY DEF Strings, InStrings!LeftFold, FoldLeft, InStrings!FoldLeft, MapThenFoldSet,
         InStrings!MapThenFoldSet, Max, InStrings!Max
<1>3. IsSequence(none)
  BY Short
<1> HIDE DEF n, none
<1>0. PICK r : InStrings!Stepwise(entry, none, n, names, r)
  BY <1>1, InStrings!FoldsStepwise
<1>4. /\ r[0] = none
      /\ \A k \in 1..n : r[k] = NextString(entry, r[k - 1], names[k])
      /\ InStrings!LeftFold(entry, none, names) = r[n]
  BY <1>0 DEF InStrings!Stepwise
<1> DEFINE S == {k \in 0..n : IsSequence(r[k])}
<1>5. ASSUME NEW k \in 0..(n - 1), k \in S PROVE k + 1 \in S
  <2>1. k + 1 \in 1..n /\ k + 1 \in 0..n /\ (k + 1) - 1 = k
    BY <1>1
  <2>2. r[k + 1] = NextString(entry, r[k], names[k + 1])
    BY <1>4, <2>1
  <2>3. IsSequence(r[k + 1])
    BY <1>5, <2>2, Short, Joined DEF NextString
  <2> QED
    BY <2>1, <2>3
<1>6. 0 \in S /\ n \in 0..n
  BY <1>1, <1>3, <1>4
<1>7. n \in S
  <2> HIDE DEF S
  <2> QED
    BY <1>1, <1>5, <1>6, InStrings!Induction
<1> QED
  BY <1>2, <1>4, <1>7

\* What is printed of a server is a sequence of elements,
LEMMA ServerPrinted ==
  ASSUME NEW s
  PROVE  IsSequence(PrintServer(s))
<1> DEFINE more == <<"tls_cipher_suite", "ca_dir", "ca_file", "client_cert">>
           p1 == PrintedName(s)
           p2 == Elem(TRUE, "protocol", s.protocol)
           p3 == Strings(s, <<"hostname">>)
           p4 == Elem(GetPort(s) # 8000, "port", Numeral(GetPort(s)))
           p5 == Elem(GetUser(s) # "source", "user", GetUser(s))
           p6 == Strings(s, <<"password">>)
           p7 == Elem(GetTls(s) # "may", "tls", GetTls(s))
           p8 == Strings(s, more)
           p9 == Elem(s.reconnect_attempts # 0, "reconnect_attempts",
                      Numeral(s.reconnect_attempts))
<1>1. IsSequence(<<"hostname">>) /\ IsSequence(<<"password">>) /\ IsSequence(more)
  BY DEF IsSequence
<1>2. /\ IsSequence(p1) /\ IsSequence(p2) /\ IsSequence(p4) /\ IsSequence(p5)
      /\ IsSequence(p7) /\ IsSequence(p9)
  <2>1. \A if, n, v : IsSequence(Elem(if, n, v))
    BY Short
  <2>2. IsSequence(p1)
    BY <2>1 DEF PrintedName
  <2>3. IsSequence(p2)
    BY <2>1
  <2>4. IsSequence(p4)
    BY <2>1
  <2>5. IsSequence(p5)
    BY <2>1
  <2>6. IsSequence(p7)
    BY <2>1
  <2>7. IsSequence(p9)
    BY <2>1
  <2> HIDE DEF p1, p2, p4, p5, p7, p9
  <2> QED
    BY <2>2, <2>3, <2>4, <2>5, <2>6, <2>7
<1>3. IsSequence(p3) /\ IsSequence(p6) /\ IsSequence(p8)
  BY <1>1, StringsPrinted
<1>4. PrintServer(s) = p1 \o p2 \o p3 \o p4 \o p5 \o p6 \o p7 \o p8 \o p9
  BY DEF PrintServer
<1> HIDE DEF p1, p2, p3, p4, p5, p6, p7, p8, p9
<1>5. IsSequence(p1 \o p2 \o p3)
  BY <1>2, <1>3, Joined
<1>6. IsSequence(p1 \o p2 \o p3 \o p4 \o p5)
  BY <1>2, <1>5, Joined
<1>7. IsSequence(p1 \o p2 \o p3 \o p4 \o p5 \o p6 \o p7)
  BY <1>2, <1>3, <1>6, Joined
<1>8. IsSequence(p1 \o p2 \o p3 \o p4 \o p5 \o p6 \o p7 \o p8 \o p9)
  BY <1>2, <1>3, <1>7, Joined
<1> QED
  BY <1>4, <1>8

\* of a stream,
LEMMA StreamPrinted ==
  ASSUME NEW s
  PROVE  IsSequence(PrintStream(s))
<1> DEFINE some == <<"mountpoint", "intake", "server">>
           more == <<"encoder", "stream_name", "stream_url", "stream_genre",
                     "stream_description", "stream_quality", "stream_bitrate",
                     "stream_samplerate", "stream_channels">>
           p1 == PrintedName(s)
           p2 == Strings(s, some)
           p3 == Elem(s.public, "public", "yes")
           p4 == Elem(TRUE, "format", s.format)
           p5 == Strings(s, more)
<1>1. IsSequence(some) /\ IsSequence(more)
  BY DEF IsSequence
<1>2. IsSequence(p1) /\ IsSequence(p3) /\ IsSequence(p4)
  BY Short DEF PrintedName
<1>3. IsSequence(p2) /\ IsSequence(p5)
  BY <1>1, StringsPrinted
<1>4. PrintStream(s) = p1 \o p2 \o p3 \o p4 \o p5
  BY DEF PrintStream
<1> HIDE DEF p1, p2, p3, p4, p5
<1>5. IsSequence(p1 \o p2 \o p3)
  BY <1>2, <1>3, Joined
<1>6. IsSequence(p1 \o p2 \o p3 \o p4 \o p5)
  BY <1>2, <1>3, <1>5, Joined
<1> QED
  BY <1>4, <1>6

\* and of an intake.
LEMMA IntakePrinted ==
  ASSUME NEW i
  PROVE  IsSequence(PrintIntake(i))
<1> DEFINE p1 == PrintedName(i)
           p2 == Elem(i.type # "autodetect", "type", i.type)
           p3 == Strings(i, <<"filename">>)
           p4 == Elem(i.shuffle, "shuffle", "yes")
           p5 == Elem(i.stream_once, "stream_once", "yes")
<1>1. IsSequence(<<"filename">>)
  BY DEF IsSequence
<1>2. IsSequence(p1) /\ IsSequence(p2) /\ IsSequence(p4) /\ IsSequence(p5)
  BY Short DEF PrintedName
<1>3. IsSequence(p3)
  BY <1>1, StringsPrinted
<1>4. PrintIntake(i) = p1 \o p2 \o p3 \o p4 \o p5
  BY DEF PrintIntake
<1> HIDE DEF p1, p2, p3, p4, p5
<1>5. IsSequence(p1 \o p2 \o p3)
  BY <1>2, <1>3, Joined
<1>6. IsSequence(p1 \o p2 \o p3 \o p4 \o p5)
  BY <1>2, <1>3, <1>5, Joined
<1> QED
  BY <1>4, <1>6

\* The names of the elements of a block.
Names(els) == {els[i][1] : i \in DOMAIN els}

\* Two blocks behind each other have the names of both.
LEMMA NamesOfBoth ==
  ASSUME NEW s, IsSequence(s), NEW t, IsSequence(t)
  PROVE  Names(s \o t) = Names(s) \cup Names(t)
<1> DEFINE n == Len(s)
           m == Len(t)
           both == s \o t
<1>1. s \in Seq({s[i] : i \in DOMAIN s}) /\ t \in Seq({t[i] : i \in DOMAIN t})
  BY DEF IsSequence
<1>2. /\ n \in Nat /\ DOMAIN s = 1..n /\ m \in Nat /\ DOMAIN t = 1..m
      /\ DOMAIN both = 1..(n + m)
  BY <1>1
<1>3. (\A k \in 1..n : both[k] = s[k]) /\ (\A k \in 1..m : both[n + k] = t[k])
  BY <1>1
<1> HIDE DEF n, m, both
<1>4. \A k \in 1..(n + m) : k \in 1..n \/ (k - n \in 1..m /\ k = n + (k - n))
  BY <1>2
<1>5. \A k \in 1..(n + m) : both[k][1] \in Names(s) \cup Names(t)
  <2> SUFFICES ASSUME NEW k \in 1..(n + m) PROVE both[k][1] \in Names(s) \cup Names(t)
    OBVIOUS
  <2>1. CASE k \in 1..n
    BY <1>2, <1>3, <2>1 DEF Names
  <2>2. CASE k - n \in 1..m /\ k = n + (k - n)
    <3>1. both[k] = t[k - n]
      BY <1>3, <2>2
    <3> QED
      BY <1>2, <2>2, <3>1 DEF Names
  <2> QED
    BY <1>4, <2>1, <2>2
<1>6. (\A k \in 1..n : k \in 1..(n + m)) /\ (\A k \in 1..m : n + k \in 1..(n + m))
  BY <1>2
<1>7. (\A k \in 1..n : s[k][1] \in Names(both)) /\ (\A k \in 1..m : t[k][1] \in Names(both))
  BY <1>2, <1>3, <1>6 DEF Names
<1> QED
  BY <1>2, <1>5, <1>7 DEF Names, both

\* None, and one element.
LEMMA NamesOfFew ==
  ASSUME NEW x
  PROVE  Names(<< >>) = {} /\ Names(<<x>>) = {x[1]}
BY DEF Names

--------------------------------------------------------------------------------
(* Settings that are made one after the other, whether they are accepted or not. *)

\* What becomes of an element.
Outcome(class, raw, old) ==
  IF Accepts(class, << >>, 1, raw) THEN Converted(class, raw)
  ELSE IF class = "buffer" /\ raw # NoValue THEN Truncated[raw] ELSE old

\* A list of one entry.
One(kind, list) == Entries(kind, list) /\ DOMAIN list = {1}

\* Another list with one entry, of which an element may have changed.
Tried(kind, list, el, new) ==
  /\ One(kind, new)
  /\ \A e \in Elements(kind) \ {el[1]} : new[1][e] = list[1][e]
  /\ el[1] \in Elements(kind) \ {"name"} =>
       new[1][el[1]] = Outcome(Setter[kind][el[1]], el[2], list[1][el[1]])

LEMMA SettingTries ==
  ASSUME NEW kind \in Told, NEW list, One(kind, list), NEW el
  PROVE  Tried(kind, list, el, NextSetting(<<kind, 1>>, list, el))
<1> DEFINE e == el[1]
           raw == el[2]
           class == Setter[kind][e]
           ok == Accepts(class, list, 1, raw)
           new == Set(kind, list, 1, e, raw).list
<1>1. NextSetting(<<kind, 1>>, list, el) = new
  BY DEF NextSetting
<1>2. 1 \in DOMAIN list /\ Entries(kind, list)
  BY DEF One
<1>3. new = CASE ok /\ class = "ext" -> Relocated(list, 1, raw)
              [] ok /\ class # "ext" -> [list EXCEPT ![1][e] = Converted(class, raw)]
              [] ~ok /\ class = "buffer" /\ raw # NoValue ->
                   [list EXCEPT ![1][e] = Truncated[raw]]
              [] OTHER -> list
  BY DEF Set
<1>4. e \in Elements(kind) \ {"name"} => class # "name" /\ class # "ext"
  BY ToldSetters
<1>5. class # "name" => Accepts(class, << >>, 1, raw) = ok
  BY DEF Accepts
<1> SUFFICES Tried(kind, list, el, new)
  BY <1>1
<1> HIDE DEF e, raw, class, ok, new
<1>6. ASSUME NEW v, new = [list EXCEPT ![1][e] = v],
             e \in Elements(kind) \ {"name"} => v = Outcome(class, raw, list[1][e])
      PROVE  Tried(kind, list, el, new)
  <2>1. ChangedTo(kind, list, 1, e, v, new)
    BY <1>2, <1>6, EntryChanges
  <2> QED
    BY <1>6, <2>1 DEF ChangedTo, Tried, One, e, raw, class
<1>7. ASSUME new = list,
             e \in Elements(kind) \ {"name"} => list[1][e] = Outcome(class, raw, list[1][e])
      PROVE  Tried(kind, list, el, new)
  BY <1>7 DEF Tried, e, raw, class
<1>8. CASE ok /\ class = "ext"
  <2>1. new = list
    BY <1>2, <1>3, <1>8, NothingRelocated
  <2> QED
    BY <1>4, <1>7, <1>8, <2>1
<1>9. CASE ok /\ class # "ext"
  BY <1>3, <1>4, <1>5, <1>6, <1>9 DEF Outcome
<1>10. CASE ~ok /\ class = "buffer" /\ raw # NoValue
  BY <1>3, <1>4, <1>5, <1>6, <1>10 DEF Outcome
<1>11. CASE ~ok /\ ~(class = "buffer" /\ raw # NoValue)
  <2>1. new = list
    BY <1>3, <1>11
  <2>2. e \in Elements(kind) \ {"name"} => list[1][e] = Outcome(class, raw, list[1][e])
    BY <1>4, <1>5, <1>11 DEF Outcome
  <2> QED
    BY <1>7, <2>1, <2>2
<1> QED
  BY <1>8, <1>9, <1>10, <1>11

\* After all of them there is one entry still; what no setting is of stays as it is.
LEMMA SetAllTries ==
  ASSUME NEW kind \in Told, NEW list, One(kind, list), NEW els, IsSequence(els)
  PROVE  /\ One(kind, SetAll(kind, list, 1, els))
         /\ \A e \in Elements(kind) \ Names(els) :
              SetAll(kind, list, 1, els)[1][e] = list[1][e]
<1> DEFINE n == Len(els)
           of == <<kind, 1>>
<1>1. n \in Nat /\ DOMAIN els = 1..n
  BY DEF IsSequence
<1>2. SetAll(kind, list, 1, els) = InSettings!LeftFold(of, list, els)
  BY DEF SetAll, InSettings!LeftFold, FoldLeft, InSettings!FoldLeft, MapThenFoldSet,
         InSettings!MapThenFoldSet, Max, InSettings!Max
<1>3. \A l, el : One(kind, l) => Tried(kind, l, el, NextSetting(of, l, el))
  BY SettingTries
<1> HIDE DEF n, of
<1>0. PICK r : InSettings!Stepwise(of, list, n, els, r)
  BY <1>1, InSettings!FoldsStepwise
<1>4. /\ r[0] = list
      /\ \A k \in 1..n : r[k] = NextSetting(of, r[k - 1], els[k])
      /\ InSettings!LeftFold(of, list, els) = r[n]
  BY <1>0 DEF InSettings!Stepwise
<1> DEFINE Same(l) == \A e \in Elements(kind) \ Names(els) : l[1][e] = list[1][e]
           S == {k \in 0..n : One(kind, r[k]) /\ Same(r[k])}
<1>5. ASSUME NEW k \in 0..(n - 1), k \in S PROVE k + 1 \in S
  <2>1. k + 1 \in 1..n /\ k + 1 \in 0..n /\ (k + 1) - 1 = k
    BY <1>1
  <2>2. r[k + 1] = NextSetting(of, r[k], els[k + 1]) /\ els[k + 1][1] \in Names(els)
    BY <1>1, <1>4, <2>1 DEF Names
  <2>3. Tried(kind, r[k], els[k + 1], r[k + 1])
    BY <1>3, <1>5, <2>2
  <2>4. One(kind, r[k + 1]) /\ Same(r[k + 1])
    BY <1>5, <2>2, <2>3 DEF Tried
  <2> QED
    BY <2>1, <2>4
<1>6. 0 \in S /\ n \in 0..n
  BY <1>1, <1>4
<1>7. n \in S
  <2> HIDE DEF S
  <2> QED
    BY <1>1, <1>5, <1>6, InSettings!Induction
<1> QED
  BY <1>2, <1>4, <1>7

\* What one entry has become after some settings.
SetTo(kind, els) == SetAll(kind, <<NewEntry(kind)>>, 1, els)[1]

LEMMA NewOne == ASSUME NEW kind \in Told PROVE One(kind, <<NewEntry(kind)>>)
<1> DEFINE entry == NewEntry(kind)
           list == <<entry>>
<1>1. entry = [e \in Elements(kind) |-> entry[e]]
  BY DEF NewEntry, Elements
<1> HIDE DEF entry
<1>2. IsSequence(list)
  BY Short
<1> QED
  BY <1>1, <1>2 DEF One, Entries, IsEntry, entry

\* Nothing is set yet.
LEMMA SetNothing ==
  ASSUME NEW kind \in Told, NEW e \in Elements(kind)
  PROVE  SetTo(kind, << >>)[e] = Unset(Setter[kind][e])
<1>1. IsSequence(<< >>) /\ Names(<< >>) = {}
  BY Short, NamesOfFew
<1>2. SetTo(kind, << >>)[e] = <<NewEntry(kind)>>[1][e]
  BY <1>1, NewOne, SetAllTries DEF SetTo
<1> QED
  BY <1>2 DEF NewEntry, Elements

\* Settings that come behind others change the elements that they have the names of.
SetsOn(kind, s, t) ==
  /\ IsSequence(s \o t) /\ Names(s \o t) = Names(s) \cup Names(t)
  /\ \A e \in Elements(kind) \ Names(t) : SetTo(kind, s \o t)[e] = SetTo(kind, s)[e]

LEMMA SetsTwice ==
  ASSUME NEW kind, NEW list, NEW cur, NEW s, IsSequence(s), NEW t, IsSequence(t)
  PROVE  SetAll(kind, list, cur, s \o t) = SetAll(kind, SetAll(kind, list, cur, s), cur, t)
<1> DEFINE X == {s[i] : i \in DOMAIN s} \cup {t[i] : i \in DOMAIN t}
           of == <<kind, cur>>
<1>1. s \in Seq(X) /\ t \in Seq(X)
  BY DEF IsSequence
<1>2. \A l, els : SetAll(kind, l, cur, els) = InSettings!LeftFold(of, l, els)
  BY DEF SetAll, InSettings!LeftFold, FoldLeft, InSettings!FoldLeft, MapThenFoldSet,
         InSettings!MapThenFoldSet, Max, InSettings!Max
<1> HIDE DEF X, of
<1>3. InSettings!LeftFold(of, list, s \o t)
        = InSettings!LeftFold(of, InSettings!LeftFold(of, list, s), t)
  BY <1>1, InSettings!FoldOfBoth
<1> QED
  BY <1>2, <1>3

LEMMA SetsOnce ==
  ASSUME NEW kind, NEW list, NEW cur, NEW el
  PROVE  SetAll(kind, list, cur, <<el>>) = NextSetting(<<kind, cur>>, list, el)
<1> DEFINE of == <<kind, cur>>
           n == 1
           t == <<el>>
<1>1. n \in Nat /\ DOMAIN t = 1..n /\ 1 \in 1..n /\ n - 1 = 0 /\ t[n] = el /\ n \in 1..n
  OBVIOUS
<1>2. SetAll(kind, list, cur, t) = InSettings!LeftFold(of, list, t)
  BY DEF SetAll, InSettings!LeftFold, FoldLeft, InSettings!FoldLeft, MapThenFoldSet,
         InSettings!MapThenFoldSet, Max, InSettings!Max
<1> HIDE DEF of, n, t
<1>3. PICK r : InSettings!Stepwise(of, list, n, t, r)
  BY <1>1, InSettings!FoldsStepwise
<1>4. /\ r[0] = list
      /\ \A k \in 1..n : r[k] = NextSetting(of, r[k - 1], t[k])
      /\ InSettings!LeftFold(of, list, t) = r[n]
  BY <1>3 DEF InSettings!Stepwise
<1>5. r[n] = NextSetting(of, list, el)
  BY <1>1, <1>4
<1>6. SetAll(kind, list, cur, t) = NextSetting(of, list, el)
  BY <1>2, <1>4, <1>5
<1> QED
  BY <1>6 DEF of, t

LEMMA SetMore ==
  ASSUME NEW kind \in Told, NEW s, IsSequence(s), NEW t, IsSequence(t)
  PROVE  SetsOn(kind, s, t)
<1> DEFINE old == SetAll(kind, <<NewEntry(kind)>>, 1, s)
<1>1. One(kind, old)
  BY NewOne, SetAllTries
<1>2. SetAll(kind, <<NewEntry(kind)>>, 1, s \o t) = SetAll(kind, old, 1, t)
  BY SetsTwice
<1> HIDE DEF old
<1>3. \A e \in Elements(kind) \ Names(t) : SetAll(kind, old, 1, t)[1][e] = old[1][e]
  BY <1>1, SetAllTries
<1>4. IsSequence(s \o t) /\ Names(s \o t) = Names(s) \cup Names(t)
  BY Joined, NamesOfBoth
<1> QED
  BY <1>2, <1>3, <1>4 DEF SetsOn, SetTo, old

\* One more setting, and one that is only made if there is something to set.
LEMMA SetOne ==
  ASSUME NEW kind \in Told, NEW s, IsSequence(s), NEW e \in Elements(kind) \ {"name"}, NEW v
  PROVE  SetTo(kind, s \o <<<<e, v>>>>)[e] = Outcome(Setter[kind][e], v, SetTo(kind, s)[e])
<1> DEFINE old == SetAll(kind, <<NewEntry(kind)>>, 1, s)
           el == <<e, v>>
           t == <<el>>
<1>1. One(kind, old)
  BY NewOne, SetAllTries
<1>2. IsSequence(t)
  BY Short
<1>3. SetAll(kind, <<NewEntry(kind)>>, 1, s \o t) = SetAll(kind, old, 1, t)
  BY <1>2, SetsTwice
<1> HIDE DEF old
<1>4. SetAll(kind, old, 1, t) = NextSetting(<<kind, 1>>, old, el)
  BY SetsOnce
<1>5. Tried(kind, old, el, NextSetting(<<kind, 1>>, old, el))
  BY <1>1, SettingTries
<1> QED
  BY <1>3, <1>4, <1>5 DEF Tried, SetTo, old

LEMMA SetIfGiven ==
  ASSUME NEW kind \in Told, NEW s, IsSequence(s), NEW e \in Elements(kind) \ {"name"},
         NEW given \in BOOLEAN, NEW v, NEW t, t = IF given THEN <<<<e, v>>>> ELSE << >>
  PROVE  /\ SetsOn(kind, s, t) /\ Names(t) \subseteq {e}
         /\ SetTo(kind, s \o t)[e] = IF given
                                     THEN Outcome(Setter[kind][e], v, SetTo(kind, s)[e])
                                     ELSE SetTo(kind, s)[e]
<1>1. IsSequence(t) /\ Names(t) \subseteq {e}
  BY Short, NamesOfFew
<1>2. SetsOn(kind, s, t)
  BY <1>1, SetMore
<1>3. CASE given
  <2>1. SetTo(kind, s \o <<<<e, v>>>>)[e] = Outcome(Setter[kind][e], v, SetTo(kind, s)[e])
    BY SetOne
  <2> QED
    BY <1>1, <1>2, <1>3, <2>1
<1>4. CASE ~given
  <2>1. Names(t) = {}
    BY <1>4, NamesOfFew
  <2> QED
    BY <1>1, <1>2, <1>4, <2>1 DEF SetsOn
<1> QED
  BY <1>3, <1>4

--------------------------------------------------------------------------------
(* The server, the stream and the intake that ezstream-cfgmigrate makes. *)

\* What has become of the elements that are looked at, after some settings.
ServerSet(els, host, port, user, password) ==
  /\ IsSequence(els) /\ SetTo("server", els)["name"] = Default
  /\ SetTo("server", els)["hostname"] = host /\ SetTo("server", els)["port"] = port
  /\ SetTo("server", els)["user"] = user /\ SetTo("server", els)["password"] = password

StreamSet(els, mount, public) ==
  /\ IsSequence(els) /\ SetTo("stream", els)["name"] = Default
  /\ SetTo("stream", els)["intake"] = NULL /\ SetTo("stream", els)["server"] = NULL
  /\ SetTo("stream", els)["mountpoint"] = mount /\ SetTo("stream", els)["public"] = public

IntakeSet(els, filename) ==
  /\ IsSequence(els) /\ SetTo("intake", els)["name"] = Default
  /\ SetTo("intake", els)["filename"] = filename

\* What is made of a legacy element that was given, or not.
From0Made(class, ez, e) ==
  IF ez.set[e] # NULL THEN Outcome(class, ez.set[e], NULL) ELSE NULL

\* Nothing is set at first.
LEMMA SetAtFirst ==
  /\ ServerSet(<< >>, NULL, 0, NULL, NULL)
  /\ StreamSet(<< >>, NULL, FALSE)
  /\ IntakeSet(<< >>, NULL)
<1> DEFINE none == << >>
<1>1. \A kind \in Told : \A e \in Elements(kind) : SetTo(kind, none)[e] = Unset(Setter[kind][e])
  BY SetNothing
<1>2. IsSequence(none)
  BY Short
<1> HIDE DEF none
<1>3. /\ Unset("name") = Default /\ Unset("buffer") = NULL /\ Unset("string") = NULL
      /\ Unset("port") = 0 /\ Unset("boolean") = FALSE
  BY DEF Unset
<1>4. ServerSet(none, NULL, 0, NULL, NULL)
  <2>1. "server" \in Told /\ {"name", "hostname", "port", "user", "password"} \subseteq Elements("server")
    BY DEF Told, Elements, Setter, ServerElements
  <2>2. /\ Setter["server"]["name"] = "name" /\ Setter["server"]["port"] = "port"
        /\ \A e \in {"hostname", "user", "password"} : Setter["server"][e] = "buffer"
    BY DEF Setter, ServerElements
  <2> QED
    BY <1>1, <1>2, <1>3, <2>1, <2>2 DEF ServerSet
<1>5. StreamSet(none, NULL, FALSE)
  <2>1. "stream" \in Told /\ {"name", "intake", "server", "mountpoint", "public"} \subseteq Elements("stream")
    BY DEF Told, Elements, Setter, StreamElements
  <2>2. /\ Setter["stream"]["name"] = "name" /\ Setter["stream"]["public"] = "boolean"
        /\ \A e \in {"intake", "server", "mountpoint"} : Setter["stream"][e] = "string"
    BY DEF Setter, StreamElements
  <2> QED
    BY <1>1, <1>2, <1>3, <2>1, <2>2 DEF StreamSet
<1>6. IntakeSet(none, NULL)
  <2>1. "intake" \in Told /\ {"name", "filename"} \subseteq Elements("intake")
    BY DEF Told, Elements, Setter, IntakeElements
  <2>2. Setter["intake"]["name"] = "name" /\ Setter["intake"]["filename"] = "buffer"
    BY DEF Setter, IntakeElements
  <2> QED
    BY <1>1, <1>2, <1>3, <2>1, <2>2 DEF IntakeSet
<1> QED
  BY <1>4, <1>5, <1>6 DEF none

\* No settings, and some.
LEMMA NoneBefore == ASSUME NEW t, IsSequence(t) PROVE << >> \o t = t
<1>1. t \in Seq({t[i] : i \in DOMAIN t})
  BY DEF IsSequence
<1> QED
  BY <1>1

\* A server becomes that of the address, with the user and the password.
LEMMA ServerMade ==
  ASSUME NEW ez, NEW url
  PROVE  \E els : /\ ServerFrom(ez, url) = SetAll("server", <<NewEntry("server")>>, 1, els)
                  /\ ServerSet(els, Outcome("buffer", url.host, NULL), Outcome("port", url.port, 0),
                               From0Made("buffer", ez, "sourceuser"),
                               From0Made("buffer", ez, "sourcepassword"))
<1> DEFINE host == Outcome("buffer", url.host, NULL)
           port == Outcome("port", url.port, 0)
           user == From0Made("buffer", ez, "sourceuser")
           password == From0Made("buffer", ez, "sourcepassword")
           q1 == << >> \o <<<<"protocol", "http">>>>
           q2 == q1 \o <<<<"hostname", url.host>>>>
           q3 == q2 \o <<<<"port", url.port>>>>
           q4 == q3 \o From0(ez, "sourceuser", "user")
           q5 == q4 \o From0(ez, "sourcepassword", "password")
           q6 == q5 \o From0(ez, "reconnect_tries", "reconnect_attempts")
<1>1. /\ "server" \in Told
      /\ {"protocol", "hostname", "port", "user", "password", "reconnect_attempts"}
           \subseteq Elements("server") \ {"name"}
      /\ {"name", "hostname", "port", "user", "password"} \subseteq Elements("server")
      /\ Setter["server"]["port"] = "port"
      /\ \A e \in {"hostname", "user", "password"} : Setter["server"][e] = "buffer"
  BY DEF Told, Elements, Setter, ServerElements
<1>2. ASSUME NEW q, IsSequence(q), NEW e \in Elements("server") \ {"name"}, NEW v
      PROVE  LET t == <<<<e, v>>>>
             IN /\ SetsOn("server", q, t) /\ Names(t) = {e}
                /\ SetTo("server", q \o t)[e] = Outcome(Setter["server"][e], v, SetTo("server", q)[e])
  <2>1. IsSequence(<<<<e, v>>>>) /\ Names(<<<<e, v>>>>) = {e}
    BY Short, NamesOfFew
  <2> QED
    BY <1>1, <1>2, <2>1, SetMore, SetOne
<1>3. ASSUME NEW q, IsSequence(q), NEW e \in Elements("server") \ {"name"}, NEW e0
      PROVE  LET t == From0(ez, e0, e)
             IN /\ SetsOn("server", q, t) /\ Names(t) \subseteq {e}
                /\ SetTo("server", q \o t)[e]
                     = IF ez.set[e0] # NULL
                       THEN Outcome(Setter["server"][e], ez.set[e0], SetTo("server", q)[e])
                       ELSE SetTo("server", q)[e]
  <2> DEFINE given == ez.set[e0] # NULL
             t == From0(ez, e0, e)
  <2>1. t = IF given THEN <<<<e, ez.set[e0]>>>> ELSE << >>
    BY DEF From0
  <2>2. given \in BOOLEAN
    OBVIOUS
  <2> HIDE DEF given, t
  <2>3. /\ SetsOn("server", q, t) /\ Names(t) \subseteq {e}
        /\ SetTo("server", q \o t)[e]
             = IF given THEN Outcome(Setter["server"][e], ez.set[e0], SetTo("server", q)[e])
               ELSE SetTo("server", q)[e]
    BY <1>1, <1>3, <2>1, <2>2, SetIfGiven
  <2> QED
    BY <2>3 DEF given, t
<1>4. ServerSet(q1, NULL, 0, NULL, NULL)
  <2>1. ServerSet(<< >>, NULL, 0, NULL, NULL)
    BY SetAtFirst
  <2> DEFINE t == <<<<"protocol", "http">>>>
  <2>2. SetsOn("server", << >>, t) /\ Names(t) = {"protocol"}
    BY <1>1, <1>2, <2>1 DEF ServerSet
  <2> HIDE DEF t
  <2> QED
    BY <1>1, <2>1, <2>2 DEF ServerSet, SetsOn, t
<1> HIDE DEF q1
<1>5. ServerSet(q2, host, 0, NULL, NULL)
  <2> DEFINE t == <<<<"hostname", url.host>>>>
  <2>1. /\ SetsOn("server", q1, t) /\ Names(t) = {"hostname"}
        /\ SetTo("server", q1 \o t)["hostname"]
             = Outcome("buffer", url.host, SetTo("server", q1)["hostname"])
    BY <1>1, <1>2, <1>4 DEF ServerSet
  <2> HIDE DEF t
  <2> QED
    BY <1>1, <1>4, <2>1 DEF ServerSet, SetsOn, t
<1> HIDE DEF q2, host
<1>6. ServerSet(q3, host, port, NULL, NULL)
  <2> DEFINE t == <<<<"port", url.port>>>>
  <2>1. /\ SetsOn("server", q2, t) /\ Names(t) = {"port"}
        /\ SetTo("server", q2 \o t)["port"]
             = Outcome("port", url.port, SetTo("server", q2)["port"])
    BY <1>1, <1>2, <1>5 DEF ServerSet
  <2> HIDE DEF t
  <2> QED
    BY <1>1, <1>5, <2>1 DEF ServerSet, SetsOn, t
<1> HIDE DEF q3, port
<1>7. ServerSet(q4, host, port, user, NULL)
  <2> DEFINE t == From0(ez, "sourceuser", "user")
  <2>1. /\ SetsOn("server", q3, t) /\ Names(t) \subseteq {"user"}
        /\ SetTo("server", q3 \o t)["user"] = From0Made("buffer", ez, "sourceuser")
    BY <1>1, <1>3, <1>6 DEF ServerSet, From0Made
  <2> HIDE DEF t
  <2> QED
    BY <1>1, <1>6, <2>1 DEF ServerSet, SetsOn, t
<1> HIDE DEF q4, user
<1>8. ServerSet(q5, host, port, user, password)
  <2> DEFINE t == From0(ez, "sourcepassword", "password")
  <2>1. /\ SetsOn("server", q4, t) /\ Names(t) \subseteq {"password"}
        /\ SetTo("server", q4 \o t)["password"] = From0Made("buffer", ez, "sourcepassword")
    BY <1>1, <1>3, <1>7 DEF ServerSet, From0Made
  <2> HIDE DEF t
  <2> QED
    BY <1>1, <1>7, <2>1 DEF ServerSet, SetsOn, t
<1> HIDE DEF q5, password
<1>9. ServerSet(q6, host, port, user, password)
  <2> DEFINE t == From0(ez, "reconnect_tries", "reconnect_attempts")
  <2>1. SetsOn("server", q5, t) /\ Names(t) \subseteq {"reconnect_attempts"}
    BY <1>1, <1>3, <1>8 DEF ServerSet
  <2> HIDE DEF t
  <2> QED
    BY <1>1, <1>8, <2>1 DEF ServerSet, SetsOn, t
<1>10. << >> \o <<<<"protocol", "http">>>> = <<<<"protocol", "http">>>>
  BY Short, NoneBefore
<1>11. ServerFrom(ez, url) = SetAll("server", <<NewEntry("server")>>, 1, q6)
  BY <1>10 DEF ServerFrom, q1, q2, q3, q4, q5
<1> QED
  BY <1>9, <1>11 DEF host, port, user, password

\* A setting of another element leaves the ones that are looked at as they are.
LEMMA StreamSetOn ==
  ASSUME NEW q, NEW mount, NEW public, StreamSet(q, mount, public), NEW t, IsSequence(t),
         Names(t) \cap {"name", "intake", "server", "mountpoint", "public"} = {}
  PROVE  StreamSet(q \o t, mount, public)
<1>1. "stream" \in Told /\ {"name", "intake", "server", "mountpoint", "public"} \subseteq Elements("stream")
  BY DEF Told, Elements, Setter, StreamElements
<1>2. SetsOn("stream", q, t)
  BY <1>1, SetMore DEF StreamSet
<1> QED
  BY <1>1, <1>2 DEF StreamSet, SetsOn

LEMMA IntakeSetOn ==
  ASSUME NEW q, NEW filename, IntakeSet(q, filename), NEW t, IsSequence(t),
         Names(t) \cap {"name", "filename"} = {}
  PROVE  IntakeSet(q \o t, filename)
<1>1. "intake" \in Told /\ {"name", "filename"} \subseteq Elements("intake")
  BY DEF Told, Elements, Setter, IntakeElements
<1>2. SetsOn("intake", q, t)
  BY <1>1, SetMore DEF IntakeSet
<1> QED
  BY <1>1, <1>2 DEF IntakeSet, SetsOn

\* What is made of a legacy element is of one element at most.
LEMMA PartsMade ==
  ASSUME NEW ez
  PROVE  /\ \A e, el : IsSequence(From0(ez, e, el)) /\ Names(From0(ez, e, el)) \subseteq {el}
         /\ \A e, el : IsSequence(Switch(ez, e, el)) /\ Names(Switch(ez, e, el)) = {el}
         /\ \A el, v : IsSequence(<<<<el, v>>>>) /\ Names(<<<<el, v>>>>) = {el}
<1>1. \A x : IsSequence(<<x>>) /\ Names(<<x>>) = {x[1]}
  BY Short, NamesOfFew
<1>2. IsSequence(<< >>) /\ Names(<< >>) = {}
  BY Short, NamesOfFew
<1>3. \A el, v : IsSequence(<<<<el, v>>>>) /\ Names(<<<<el, v>>>>) = {el}
  BY <1>1
<1> QED
  BY <1>2, <1>3 DEF From0, Switch

\* A stream gets the mountpoint of the address, and is as public as the legacy one.
LEMMA StreamMade ==
  ASSUME NEW ez, NEW url
  PROVE  \E els : /\ StreamFrom(ez, url) = SetAll("stream", <<NewEntry("stream")>>, 1, els)
                  /\ StreamSet(els, Outcome("string", url.mount, NULL),
                               Value0(ez, "svrinfopublic") = 1)
<1> DEFINE mount == Outcome("string", url.mount, NULL)
           public == Value0(ez, "svrinfopublic") = 1
           format == IF ez.set["format"] = NULL THEN << >>
                     ELSE <<<<"format", NewFormat(ez.set["format"])>>>>
           encoder == IF Value0(ez, "enable") = 1
                      THEN <<<<"encoder", NewFormat(ez.set["format"])>>>> ELSE << >>
           q1 == <<<<"mountpoint", url.mount>>>>
           q2 == q1 \o format
           q3 == q2 \o From0(ez, "svrinfoname", "stream_name")
           q4 == q3 \o From0(ez, "svrinfourl", "stream_url")
           q5 == q4 \o From0(ez, "svrinfogenre", "stream_genre")
           q6 == q5 \o From0(ez, "svrinfodescription", "stream_description")
           q7 == q6 \o From0(ez, "svrinfobitrate", "stream_bitrate")
           q8 == q7 \o From0(ez, "svrinfochannels", "stream_channels")
           q9 == q8 \o From0(ez, "svrinfosamplerate", "stream_samplerate")
           q10 == q9 \o From0(ez, "svrinfoquality", "stream_quality")
           q11 == q10 \o Switch(ez, "svrinfopublic", "public")
           q12 == q11 \o encoder
<1>1. /\ "stream" \in Told
      /\ {"name", "intake", "server", "mountpoint", "public"} \subseteq Elements("stream")
      /\ Setter["stream"]["mountpoint"] = "string" /\ Setter["stream"]["public"] = "boolean"
  BY DEF Told, Elements, Setter, StreamElements
<1>2. StreamFrom(ez, url) = SetAll("stream", <<NewEntry("stream")>>, 1, q12)
  BY DEF StreamFrom
<1>3. IsSequence(format) /\ Names(format) \subseteq {"format"}
  BY PartsMade, Short, NamesOfFew
<1>4. IsSequence(encoder) /\ Names(encoder) \subseteq {"encoder"}
  BY PartsMade, Short, NamesOfFew
<1> HIDE DEF format, encoder
<1>5. StreamSet(q1, mount, FALSE)
  <2> DEFINE none == << >>
  <2>1. StreamSet(none, NULL, FALSE)
    BY SetAtFirst
  <2>2. IsSequence(q1) /\ Names(q1) = {"mountpoint"}
    BY PartsMade
  <2>3. none \o q1 = q1
    BY <2>2, NoneBefore
  <2>4. SetTo("stream", none \o q1)["mountpoint"]
          = Outcome("string", url.mount, SetTo("stream", none)["mountpoint"])
    <3>1. IsSequence(none) /\ "mountpoint" \in Elements("stream") \ {"name"}
      BY <1>1, <2>1 DEF StreamSet
    <3> HIDE DEF none
    <3> QED
      BY <1>1, <3>1, SetOne
  <2> HIDE DEF q1, none
  <2>5. SetsOn("stream", none, q1)
    BY <1>1, <2>1, <2>2, SetMore DEF StreamSet
  <2> QED
    BY <1>1, <2>1, <2>2, <2>3, <2>4, <2>5 DEF StreamSet, SetsOn
<1> HIDE DEF q1, mount
<1>0. ASSUME NEW q, StreamSet(q, mount, FALSE), NEW e, NEW el,
             el \notin {"name", "intake", "server", "mountpoint", "public"}
      PROVE  StreamSet(q \o From0(ez, e, el), mount, FALSE)
  <2> DEFINE t == From0(ez, e, el)
  <2>1. IsSequence(t) /\ Names(t) \subseteq {el}
    BY PartsMade
  <2> HIDE DEF t
  <2>2. StreamSet(q \o t, mount, FALSE)
    BY <1>0, <2>1, StreamSetOn
  <2> QED
    BY <2>2 DEF t
<1>6. StreamSet(q2, mount, FALSE)
  BY <1>3, <1>5, StreamSetOn
<1> HIDE DEF q2
<1>7. StreamSet(q3, mount, FALSE)
  BY <1>0, <1>6
<1> HIDE DEF q3
<1>8. StreamSet(q4, mount, FALSE)
  BY <1>0, <1>7
<1> HIDE DEF q4
<1>9. StreamSet(q5, mount, FALSE)
  BY <1>0, <1>8
<1> HIDE DEF q5
<1>10. StreamSet(q6, mount, FALSE)
  BY <1>0, <1>9
<1> HIDE DEF q6
<1>11. StreamSet(q7, mount, FALSE)
  BY <1>0, <1>10
<1> HIDE DEF q7
<1>12. StreamSet(q8, mount, FALSE)
  BY <1>0, <1>11
<1> HIDE DEF q8
<1>13. StreamSet(q9, mount, FALSE)
  BY <1>0, <1>12
<1> HIDE DEF q9
<1>14. StreamSet(q10, mount, FALSE)
  BY <1>0, <1>13
<1> HIDE DEF q10
<1>15. StreamSet(q11, mount, public)
  <2> DEFINE t == Switch(ez, "svrinfopublic", "public")
             v == IF public THEN "1" ELSE "0"
  <2>1. t = <<<<"public", v>>>> /\ IsSequence(t) /\ Names(t) = {"public"}
    BY PartsMade DEF Switch
  <2>2. SetTo("stream", q10 \o <<<<"public", v>>>>)["public"]
          = Outcome("boolean", v, SetTo("stream", q10)["public"])
    BY <1>1, <1>14, SetOne DEF StreamSet
  <2>3. SetsOn("stream", q10, t)
    BY <1>1, <1>14, <2>1, SetMore DEF StreamSet
  <2>4. Outcome("boolean", v, FALSE) = public
    <3>1. v \in True <=> public
      BY DEF True
    <3>2. v \in True => v # NoValue
      BY SettingsAssumption
    <3>3. public \in BOOLEAN /\ "boolean" \notin DOMAIN OneOf
      BY DEF OneOf
    <3> HIDE DEF v, public
    <3>4. CASE public
      <4>1. Accepts("boolean", << >>, 1, v)
        BY <3>1, <3>2, <3>3, <3>4 DEF Accepts
      <4>2. Converted("boolean", v) = TRUE
        BY <3>1, <3>4 DEF Converted
      <4>3. Outcome("boolean", v, FALSE) = Converted("boolean", v)
        BY <4>1 DEF Outcome
      <4>4. public = TRUE
        BY <3>3, <3>4
      <4> QED
        BY <4>2, <4>3, <4>4
    <3>5. CASE ~public
      <4>1. Converted("boolean", v) = FALSE
        BY <3>1, <3>5 DEF Converted
      <4>2. Outcome("boolean", v, FALSE) = FALSE
        <5> DEFINE made == Converted("boolean", v)
        <5>1. made = FALSE
          BY <4>1
        <5> HIDE DEF made
        <5>2. Outcome("boolean", v, FALSE) \in {made, FALSE}
          BY Zenon DEF Outcome, made
        <5> QED
          BY <5>1, <5>2
      <4>3. public = FALSE
        BY <3>3, <3>5
      <4> QED
        BY <4>2, <4>3
    <3> QED
      BY <3>3, <3>4, <3>5
  <2> HIDE DEF t, v, public
  <2> QED
    BY <1>1, <1>14, <2>1, <2>2, <2>3, <2>4 DEF StreamSet, SetsOn, t
<1> HIDE DEF q11, public
<1>16. StreamSet(q12, mount, public)
  BY <1>4, <1>15, StreamSetOn
<1> QED
  BY <1>2, <1>16 DEF mount, public

\* An intake gets the file of the legacy configuration, unless it is the standard input.
LEMMA IntakeMade ==
  ASSUME NEW ez
  PROVE  \E els : /\ IntakeFrom(ez) = SetAll("intake", <<NewEntry("intake")>>, 1, els)
                  /\ IntakeSet(els, IF ez.set["filename"] = "stdin" THEN NULL
                                    ELSE From0Made("buffer", ez, "filename"))
<1> DEFINE program == IF Value0(ez, "playlist_program") = 1 THEN <<<<"type", "program">>>>
                      ELSE << >>
           filename == IF ez.set["filename"] = "stdin" THEN NULL
                       ELSE From0Made("buffer", ez, "filename")
           q1 == FileFrom(ez)
           q2 == q1 \o program
           q3 == q2 \o Switch(ez, "shuffle", "shuffle")
           q4 == q3 \o Switch(ez, "stream_once", "stream_once")
<1>1. /\ "intake" \in Told /\ {"name", "filename"} \subseteq Elements("intake")
      /\ Setter["intake"]["filename"] = "buffer"
  BY DEF Told, Elements, Setter, IntakeElements
<1>2. IntakeFrom(ez) = SetAll("intake", <<NewEntry("intake")>>, 1, q4)
  BY DEF IntakeFrom
<1>3. IsSequence(program) /\ Names(program) \subseteq {"type"}
  BY PartsMade, Short, NamesOfFew
<1> HIDE DEF program
<1>4. IntakeSet(q1, filename)
  <2> DEFINE none == << >>
  <2>1. IntakeSet(none, NULL)
    BY SetAtFirst
  <2>2. IsSequence(q1) /\ none \o q1 = q1
    <3>1. IsSequence(q1)
      BY PartsMade DEF FileFrom
    <3> QED
      BY <3>1, NoneBefore
  <2>3. CASE ez.set["filename"] = "stdin"
    <3>1. q1 = <<<<"type", "stdin">>>>
      BY <2>3 DEF FileFrom
    <3>2. Names(q1) = {"type"}
      BY <3>1, PartsMade
    <3> HIDE DEF q1, none
    <3> QED
      BY <2>1, <2>2, <2>3, <3>2, IntakeSetOn
  <2>4. CASE ez.set["filename"] # "stdin"
    <3> DEFINE given == ez.set["filename"] # NULL
               v == ez.set["filename"]
               e == "filename"
    <3>1. q1 = IF given THEN <<<<e, v>>>> ELSE << >>
      BY <2>4 DEF FileFrom, From0
    <3>2. given \in BOOLEAN
      OBVIOUS
    <3>4. IsSequence(none) /\ e \in Elements("intake") \ {"name"}
      BY <1>1, <2>1 DEF IntakeSet
    <3> HIDE DEF q1, none, given, v, e
    <3>3. /\ SetsOn("intake", none, q1) /\ Names(q1) \subseteq {e}
          /\ SetTo("intake", none \o q1)[e]
               = IF given THEN Outcome(Setter["intake"][e], v, SetTo("intake", none)[e])
                 ELSE SetTo("intake", none)[e]
      BY <1>1, <3>1, <3>2, <3>4, SetIfGiven
    <3> QED
      BY <1>1, <2>1, <2>2, <2>4, <3>3 DEF IntakeSet, SetsOn, From0Made, given, v, e
  <2> QED
    BY <2>3, <2>4
<1> HIDE DEF q1, filename
<1>0. ASSUME NEW q, IntakeSet(q, filename), NEW e, NEW el, el \notin {"name", "filename"}
      PROVE  IntakeSet(q \o Switch(ez, e, el), filename)
  <2> DEFINE t == Switch(ez, e, el)
  <2>1. IsSequence(t) /\ Names(t) = {el}
    BY PartsMade
  <2> HIDE DEF t
  <2>2. IntakeSet(q \o t, filename)
    BY <1>0, <2>1, IntakeSetOn
  <2> QED
    BY <2>2 DEF t
<1>5. IntakeSet(q2, filename)
  BY <1>3, <1>4, IntakeSetOn
<1> HIDE DEF q2
<1>6. IntakeSet(q3, filename)
  BY <1>0, <1>5
<1> HIDE DEF q3
<1>7. IntakeSet(q4, filename)
  BY <1>0, <1>6
<1> QED
  BY <1>2, <1>7 DEF filename

\* The configuration that is made of a legacy one has one server, one stream and one
\* intake, which have no names.
MigratedAs(ez, url, c) ==
  LET server == c["server"][1]
      stream == c["stream"][1]
      intake == c["intake"][1]
  IN /\ \A kind \in Told : One(kind, c[kind]) /\ c[kind][1]["name"] = Default
     /\ server["hostname"] = Outcome("buffer", url.host, NULL) /\ server["hostname"] # NULL
     /\ server["port"] = Outcome("port", url.port, 0)
     /\ server["user"] = From0Made("buffer", ez, "sourceuser")
     /\ server["password"] = From0Made("buffer", ez, "sourcepassword")
     /\ stream["intake"] = NULL /\ stream["server"] = NULL
     /\ stream["mountpoint"] = Outcome("string", url.mount, NULL)
     /\ stream["public"] = (Value0(ez, "svrinfopublic") = 1)
     /\ intake["filename"] = IF ez.set["filename"] = "stdin" THEN NULL
                             ELSE From0Made("buffer", ez, "filename")

LEMMA MigratedLists ==
  ASSUME NEW ez, Migrated(ez) # NULL
  PROVE  ez.set["url"] # NULL /\ MigratedAs(ez, UrlParts(ez.set["url"]), Migrated(ez))
<1> DEFINE url == IF ez.set["url"] = NULL THEN NULL ELSE UrlParts(ez.set["url"])
           stream == StreamFrom(ez, url)
           server == ServerFrom(ez, url)
           intake == IntakeFrom(ez)
           c == Migrated(ez)
           mount == Outcome("string", url.mount, NULL)
           public == Value0(ez, "svrinfopublic") = 1
           filename == IF ez.set["filename"] = "stdin" THEN NULL
                       ELSE From0Made("buffer", ez, "filename")
<1>1. /\ c["server"] = server /\ c["intake"] = intake
      /\ c["stream"] = stream \/ c["stream"] = [stream EXCEPT ![1]["encoder"] = NULL]
      /\ url # NULL /\ Valid("server", server[1])
  BY DEF Migrated
<1>2. ez.set["url"] # NULL /\ url = UrlParts(ez.set["url"])
  BY <1>1
<1> HIDE DEF stream, server, intake, url, c
<1>3. /\ One("server", server) /\ server[1]["name"] = Default
      /\ server[1]["hostname"] = Outcome("buffer", url.host, NULL)
      /\ server[1]["port"] = Outcome("port", url.port, 0)
      /\ server[1]["user"] = From0Made("buffer", ez, "sourceuser")
      /\ server[1]["password"] = From0Made("buffer", ez, "sourcepassword")
  <2>1. PICK els :
          /\ server = SetAll("server", <<NewEntry("server")>>, 1, els)
          /\ ServerSet(els, Outcome("buffer", url.host, NULL), Outcome("port", url.port, 0),
                       From0Made("buffer", ez, "sourceuser"),
                       From0Made("buffer", ez, "sourcepassword"))
    BY ServerMade DEF server
  <2>2. "server" \in Told /\ IsSequence(els)
    BY <2>1 DEF Told, ServerSet
  <2>3. One("server", server)
    BY <2>1, <2>2, NewOne, SetAllTries
  <2>4. server[1] = SetTo("server", els)
    BY <2>1 DEF SetTo
  <2> QED
    BY <2>1, <2>3, <2>4 DEF ServerSet
<1> HIDE DEF mount, public, filename
<1>4. /\ One("stream", stream) /\ stream[1]["name"] = Default
      /\ stream[1]["intake"] = NULL /\ stream[1]["server"] = NULL
      /\ stream[1]["mountpoint"] = mount /\ stream[1]["public"] = public
  <2>1. PICK els :
          /\ stream = SetAll("stream", <<NewEntry("stream")>>, 1, els)
          /\ StreamSet(els, mount, public)
    BY StreamMade DEF stream, mount, public
  <2>2. "stream" \in Told /\ IsSequence(els)
    BY <2>1 DEF Told, StreamSet
  <2>3. One("stream", stream)
    BY <2>1, <2>2, NewOne, SetAllTries
  <2>4. stream[1] = SetTo("stream", els)
    BY <2>1 DEF SetTo
  <2> QED
    BY <2>1, <2>3, <2>4 DEF StreamSet
<1>5. /\ One("intake", intake) /\ intake[1]["name"] = Default
      /\ intake[1]["filename"] = filename
  <2>1. PICK els :
          /\ intake = SetAll("intake", <<NewEntry("intake")>>, 1, els)
          /\ IntakeSet(els, filename)
    BY IntakeMade DEF intake, filename
  <2>2. "intake" \in Told /\ IsSequence(els)
    BY <2>1 DEF Told, IntakeSet
  <2>3. One("intake", intake)
    BY <2>1, <2>2, NewOne, SetAllTries
  <2>4. intake[1] = SetTo("intake", els)
    BY <2>1 DEF SetTo
  <2> QED
    BY <2>1, <2>3, <2>4 DEF IntakeSet
<1>6. /\ One("stream", c["stream"]) /\ c["stream"][1]["name"] = Default
      /\ c["stream"][1]["intake"] = NULL /\ c["stream"][1]["server"] = NULL
      /\ c["stream"][1]["mountpoint"] = mount /\ c["stream"][1]["public"] = public
  <2>1. CASE c["stream"] = stream
    BY <1>4, <2>1
  <2>2. CASE c["stream"] = [stream EXCEPT ![1]["encoder"] = NULL]
    <3> DEFINE new == c["stream"]
    <3>1. ChangedTo("stream", stream, 1, "encoder", NULL, new)
      <4> DEFINE cur == 1
                 e == "encoder"
                 v == NULL
      <4>1. new = [stream EXCEPT ![cur][e] = v]
        BY <2>2
      <4>2. Entries("stream", stream) /\ cur \in DOMAIN stream
        BY <1>4 DEF One
      <4> HIDE DEF new, cur, e, v
      <4>3. ChangedTo("stream", stream, cur, e, v, [stream EXCEPT ![cur][e] = v])
        BY <4>2, EntryChanges
      <4> QED
        BY <4>1, <4>3 DEF cur, e, v
    <3>2. {"name", "intake", "server", "mountpoint", "public"} \subseteq Elements("stream")
      BY DEF Elements, Setter, StreamElements
    <3> HIDE DEF new
    <3>3. /\ One("stream", new)
          /\ \A d \in {"name", "intake", "server", "mountpoint", "public"} :
               new[1][d] = stream[1][d]
      BY <1>4, <3>1, <3>2 DEF ChangedTo, One
    <3>4. /\ One("stream", new) /\ new[1]["name"] = Default
          /\ new[1]["intake"] = NULL /\ new[1]["server"] = NULL
          /\ new[1]["mountpoint"] = mount /\ new[1]["public"] = public
      BY <1>4, <3>3
    <3> QED
      BY <3>4 DEF new
  <2> QED
    BY <1>1, <2>1, <2>2
<1>7. server[1]["hostname"] # NULL
  BY <1>1 DEF Valid, ServerValid
<1>8. \A kind \in Told : One(kind, c[kind]) /\ c[kind][1]["name"] = Default
  BY <1>1, <1>3, <1>5, <1>6 DEF Told
<1>9. MigratedAs(ez, url, c)
  BY <1>1, <1>3, <1>5, <1>6, <1>7, <1>8 DEF MigratedAs, mount, public, filename
<1> QED
  BY <1>2, <1>9 DEF c

--------------------------------------------------------------------------------
(* What a printed block says, when it is read as any other. *)

\* A block that comes behind another has the last word, where it has one.
SaysOn(s, t) ==
  /\ IsSequence(s \o t) /\ Names(s \o t) = Names(s) \cup Names(t)
  /\ \A e : LastValue(s \o t, e) = IF Giving(t, e) # {} THEN LastValue(t, e)
                                   ELSE LastValue(s, e)

\* The last place where an element is given a value.
LEMMA LastGiven ==
  ASSUME NEW t, IsSequence(t), NEW e, Giving(t, e) # {}
  PROVE  /\ Max(Giving(t, e)) \in Giving(t, e)
         /\ \A i \in Giving(t, e) : i <= Max(Giving(t, e))
<1> DEFINE n == Len(t)
           places == Giving(t, e)
<1>1. n \in Nat /\ DOMAIN t = 1..n
  BY DEF IsSequence
<1>2. places \subseteq 1..n /\ places # {}
  BY <1>1 DEF Giving
<1> HIDE DEF n, places
<1>3. Max(places) = InBlock!Max(places)
  BY DEF Max, InBlock!Max
<1>4. Max(places) \in places /\ \A i \in places : i <= Max(places)
  BY <1>1, <1>2, <1>3, InBlock!MaxOf
<1> QED
  BY <1>1, <1>2, <1>4 DEF places

LEMMA BothSay ==
  ASSUME NEW s, IsSequence(s), NEW t, IsSequence(t)
  PROVE  SaysOn(s, t)
<1> DEFINE n == Len(s)
           m == Len(t)
           both == s \o t
<1>1. s \in Seq({s[i] : i \in DOMAIN s}) /\ t \in Seq({t[i] : i \in DOMAIN t})
  BY DEF IsSequence
<1>2. /\ n \in Nat /\ DOMAIN s = 1..n /\ m \in Nat /\ DOMAIN t = 1..m
      /\ DOMAIN both = 1..(n + m)
  BY <1>1
<1>3. (\A k \in 1..n : both[k] = s[k]) /\ (\A k \in 1..m : both[n + k] = t[k])
  BY <1>1
<1>4. IsSequence(both) /\ Names(both) = Names(s) \cup Names(t)
  BY Joined, NamesOfBoth
<1> HIDE DEF n, m, both
<1>5. ASSUME NEW e
      PROVE  LastValue(both, e) = IF Giving(t, e) # {} THEN LastValue(t, e) ELSE LastValue(s, e)
  <2>1. /\ Giving(s, e) = {i \in 1..n : s[i][1] = e /\ s[i][2] # NoValue}
        /\ Giving(t, e) = {i \in 1..m : t[i][1] = e /\ t[i][2] # NoValue}
        /\ Giving(both, e) = {i \in 1..(n + m) : both[i][1] = e /\ both[i][2] # NoValue}
    BY <1>2 DEF Giving
  <2>2. CASE Giving(t, e) # {}
    <3> DEFINE last == Max(Giving(t, e))
    <3>1. last \in Giving(t, e) /\ \A i \in Giving(t, e) : i <= last
      BY <2>2, LastGiven
    <3> HIDE DEF last
    <3>3. n + last \in Giving(both, e) /\ both[n + last] = t[last]
      <4>1. last \in 1..m
        BY <2>1, <3>1
      <4>2. n + last \in 1..(n + m)
        BY <1>2, <4>1
      <4> QED
        BY <1>3, <2>1, <3>1, <4>1, <4>2
    <3>4. \A i \in Giving(both, e) : i <= n + last
      <4>0. last \in 1..m /\ Giving(both, e) \subseteq 1..(n + m)
        BY <2>1, <3>1
      <4> SUFFICES ASSUME NEW i \in Giving(both, e), i > n + last PROVE FALSE
        BY <1>2, <4>0
      <4>1. i - n \in 1..m /\ i = n + (i - n) /\ i - n > last
        BY <1>2, <4>0
      <4>2. i - n \in Giving(t, e)
        BY <1>3, <2>1, <4>1
      <4> QED
        BY <1>2, <2>1, <3>1, <4>1, <4>2
    <3>5. Max(Giving(both, e)) = n + last
      <4>1. Giving(both, e) \subseteq Nat
        BY <1>2, <2>1
      <4> QED
        BY <3>3, <3>4, <4>1, GreatestIsMax
    <3> QED
      BY <2>2, <3>3, <3>5 DEF LastValue, last
  <2>3. CASE Giving(t, e) = {}
    <3>1. Giving(both, e) = Giving(s, e)
      <4>1. \A i \in 1..(n + m) : i \in 1..n \/ (i - n \in 1..m /\ i = n + (i - n))
        BY <1>2
      <4>2. \A i \in 1..m : ~(both[n + i][1] = e /\ both[n + i][2] # NoValue)
        BY <1>3, <2>1, <2>3
      <4>3. \A i \in 1..n : i \in 1..(n + m) /\ both[i] = s[i]
        BY <1>2, <1>3
      <4> QED
        BY <2>1, <4>1, <4>2, <4>3
    <3>2. CASE Giving(s, e) = {}
      BY <2>3, <3>1, <3>2 DEF LastValue
    <3>3. CASE Giving(s, e) # {}
      <4> DEFINE last == Max(Giving(s, e))
      <4>1. last \in Giving(s, e)
        BY <3>3, LastGiven
      <4> HIDE DEF last
      <4>2. both[last] = s[last]
        BY <1>3, <2>1, <4>1
      <4> QED
        BY <2>3, <3>1, <3>3, <4>2 DEF LastValue, last
    <3> QED
      BY <3>2, <3>3
  <2> QED
    BY <2>2, <2>3
<1> QED
  BY <1>4, <1>5 DEF SaysOn, both

\* What is said of an element that is not named, and of the one that is.
Shown(v) == IF v = NoValue THEN NULL ELSE v

LEMMA SaysLittle ==
  /\ \A t, e : e \notin Names(t) => Giving(t, e) = {} /\ LastValue(t, e) = NULL
  /\ \A if, n, v : Names(Elem(if, n, v)) \subseteq {n}
  /\ \A if \in BOOLEAN : \A n, v : LastValue(Elem(if, n, v), n) = IF if THEN Shown(v) ELSE NULL
<1>1. ASSUME NEW t, NEW e, e \notin Names(t) PROVE Giving(t, e) = {} /\ LastValue(t, e) = NULL
  BY <1>1 DEF Names, Giving, LastValue
<1>2. ASSUME NEW if, NEW n, NEW v PROVE Names(Elem(if, n, v)) \subseteq {n}
  BY NamesOfFew DEF Elem
<1>3. ASSUME NEW n, NEW v PROVE LastValue(<<<<n, v>>>>, n) = Shown(v)
  <2> DEFINE t == <<<<n, v>>>>
  <2>1. DOMAIN t = {1} /\ t[1][1] = n /\ t[1][2] = v
    OBVIOUS
  <2> HIDE DEF t
  <2>2. CASE v = NoValue
    <3>1. Giving(t, n) = {}
      BY <2>1, <2>2 DEF Giving
    <3> QED
      BY <2>2, <3>1 DEF LastValue, Shown, t
  <2>3. CASE v # NoValue
    <3> DEFINE places == Giving(t, n)
    <3>1. places = {1}
      BY <2>1, <2>3 DEF Giving
    <3> HIDE DEF places
    <3>2. Max(places) = 1
      BY <3>1, GreatestIsMax
    <3>3. LastValue(t, n) = v
      BY <2>1, <3>1, <3>2 DEF LastValue, places
    <3> QED
      BY <2>3, <3>3 DEF Shown, t
  <2> QED
    BY <2>2, <2>3
<1>4. ASSUME NEW if \in BOOLEAN, NEW n, NEW v
      PROVE  LastValue(Elem(if, n, v), n) = IF if THEN Shown(v) ELSE NULL
  <2>1. CASE if
    BY <1>3, <2>1 DEF Elem
  <2>2. CASE ~if
    <3>1. n \notin Names(<< >>)
      BY NamesOfFew
    <3>2. LastValue(<< >>, n) = NULL
      BY <1>1, <3>1
    <3> QED
      BY <2>2, <3>2 DEF Elem
  <2> QED
    BY <2>1, <2>2
<1> QED
  BY <1>1, <1>2, <1>4

\* The strings that are printed are those that are set.
LEMMA StringsSay ==
  ASSUME NEW entry, NEW names, IsSequence(names)
  PROVE  /\ Names(Strings(entry, names)) \subseteq {names[i] : i \in DOMAIN names}
         /\ \A i \in DOMAIN names :
              LastValue(Strings(entry, names), names[i]) = Shown(entry[names[i]])
<1> DEFINE n == Len(names)
           none == << >>
           of(k) == {names[i] : i \in 1..k}
<1>1. n \in Nat /\ DOMAIN names = 1..n
  BY DEF IsSequence
<1>2. Strings(entry, names) = InStrings!LeftFold(entry, none, names)
  BY DEF Strings, InStrings!LeftFold, FoldLeft, InStrings!FoldLeft, MapThenFoldSet,
         InStrings!MapThenFoldSet, Max, InStrings!Max
<1>3. IsSequence(none) /\ Names(none) = {}
  BY Short, NamesOfFew
<1>7. Shown(NULL) = NULL
  BY DEF Shown
<1> HIDE DEF n, none
<1>0. PICK r : InStrings!Stepwise(entry, none, n, names, r)
  BY <1>1, InStrings!FoldsStepwise
<1>4. /\ r[0] = none
      /\ \A k \in 1..n : r[k] = NextString(entry, r[k - 1], names[k])
      /\ InStrings!LeftFold(entry, none, names) = r[n]
  BY <1>0 DEF InStrings!Stepwise
<1> DEFINE Good(els, some) == /\ IsSequence(els) /\ Names(els) \subseteq some
                              /\ \A e \in some : LastValue(els, e) = Shown(entry[e])
           S == {k \in 0..n : Good(r[k], of(k))}
<1>5. ASSUME NEW k \in 0..(n - 1), k \in S PROVE k + 1 \in S
  <2> DEFINE x == names[k + 1]
             els == r[k]
             t == Elem(entry[x] # NULL, x, entry[x])
             some == of(k)
             v == entry[x]
  <2>1. k + 1 \in 1..n /\ k + 1 \in 0..n /\ (k + 1) - 1 = k
    BY <1>1
  <2>2. r[k + 1] = els \o t
    BY <1>4, <2>1 DEF NextString
  <2>3. of(k + 1) = some \cup {x}
    <3>1. \A i : i \in 1..(k + 1) <=> i \in 1..k \/ i = k + 1
      BY <2>1
    <3> QED
      BY <3>1
  <2>4. /\ IsSequence(els) /\ Names(els) \subseteq some
        /\ \A e \in some : LastValue(els, e) = Shown(entry[e])
    BY <1>5
  <2> HIDE DEF S, x, els, t, some, of
  <2>5. IsSequence(t) /\ Names(t) \subseteq {x}
        /\ LastValue(t, x) = IF v # NULL THEN Shown(v) ELSE NULL
    <3>1. (entry[x] # NULL) \in BOOLEAN
      OBVIOUS
    <3> QED
      BY <3>1, Short, SaysLittle DEF t
  <2>6. SaysOn(els, t)
    BY <2>4, <2>5, BothSay
  <2>7. /\ IsSequence(els \o t) /\ Names(els \o t) \subseteq some \cup {x}
        /\ \A e : LastValue(els \o t, e)
                    = IF Giving(t, e) # {} THEN LastValue(t, e) ELSE LastValue(els, e)
    BY <2>4, <2>5, <2>6 DEF SaysOn
  <2>8. \A e : e # x => Giving(t, e) = {}
    BY <2>5, SaysLittle
  <2>9. Giving(t, x) = {} => Shown(v) = NULL
    BY <1>7, <2>5 DEF LastValue
  <2>10. Giving(t, x) # {} => LastValue(t, x) = Shown(v)
    BY <1>7, <2>5
  <2>11. LastValue(els, x) \in {NULL, Shown(v)}
    BY <2>4, SaysLittle DEF x, v
  <2>12. \A e \in some \cup {x} : LastValue(els \o t, e) = Shown(entry[e])
    BY <2>4, <2>7, <2>8, <2>9, <2>10, <2>11 DEF x, v
  <2>13. Good(r[k + 1], of(k + 1))
    BY <2>2, <2>3, <2>7, <2>12
  <2> QED
    BY <2>1, <2>13 DEF S
<1>6. 0 \in S /\ n \in 0..n
  <2>1. of(0) = {}
    OBVIOUS
  <2> HIDE DEF of
  <2> QED
    BY <1>1, <1>3, <1>4, <2>1
<1>8. n \in S
  <2> HIDE DEF S
  <2> QED
    BY <1>1, <1>5, <1>6, InStrings!Induction
<1>9. /\ Names(r[n]) \subseteq of(n) /\ \A e \in of(n) : LastValue(r[n], e) = Shown(entry[e])
  BY <1>8
<1> QED
  BY <1>1, <1>2, <1>4, <1>9

\* A part that comes behind is all that is said of its elements, if nothing was before.
PartSays(q, t, els) ==
  /\ IsSequence(q \o t) /\ Names(q \o t) \subseteq Names(q) \cup els
  /\ \A e : LastValue(q \o t, e) = IF e \in els THEN LastValue(t, e) ELSE LastValue(q, e)

LEMMA PartsSay ==
  ASSUME NEW q, IsSequence(q), NEW t, IsSequence(t), NEW els, Names(t) \subseteq els,
         \A e \in els : LastValue(q, e) = NULL
  PROVE  PartSays(q, t, els)
<1> DEFINE both == q \o t
<1>1. SaysOn(q, t)
  BY BothSay
<1>2. /\ IsSequence(both) /\ Names(both) = Names(q) \cup Names(t)
      /\ \A e : LastValue(both, e)
                  = IF Giving(t, e) # {} THEN LastValue(t, e) ELSE LastValue(q, e)
  BY <1>1 DEF SaysOn
<1>3. \A e : e \notin els => Giving(t, e) = {}
  BY SaysLittle
<1>4. \A e : Giving(t, e) = {} => LastValue(t, e) = NULL
  BY DEF LastValue
<1> HIDE DEF both
<1>5. \A e : LastValue(both, e) = IF e \in els THEN LastValue(t, e) ELSE LastValue(q, e)
  BY <1>2, <1>3, <1>4
<1> QED
  BY <1>2, <1>5 DEF PartSays, both

\* The parts that are printed.
LEMMA PrintedParts ==
  /\ \A if, n, v : IsSequence(Elem(if, n, v)) /\ Names(Elem(if, n, v)) \subseteq {n}
  /\ \A entry, n : /\ IsSequence(Strings(entry, <<n>>))
                   /\ Names(Strings(entry, <<n>>)) \subseteq {n}
                   /\ LastValue(Strings(entry, <<n>>), n) = Shown(entry[n])
<1>1. \A if, n, v : IsSequence(Elem(if, n, v)) /\ Names(Elem(if, n, v)) \subseteq {n}
  BY Short, SaysLittle
<1>2. ASSUME NEW entry, NEW n
      PROVE  /\ IsSequence(Strings(entry, <<n>>))
             /\ Names(Strings(entry, <<n>>)) \subseteq {n}
             /\ LastValue(Strings(entry, <<n>>), n) = Shown(entry[n])
  <2> DEFINE names == <<n>>
             els == Strings(entry, names)
  <2>1. IsSequence(names) /\ DOMAIN names = {1} /\ names[1] = n
    BY Short
  <2>2. IsSequence(els)
    BY <2>1, StringsPrinted
  <2> HIDE DEF names
  <2>3. /\ Names(els) \subseteq {names[i] : i \in DOMAIN names}
        /\ \A i \in DOMAIN names : LastValue(els, names[i]) = Shown(entry[names[i]])
    BY <2>1, StringsSay
  <2> HIDE DEF els
  <2>4. Names(els) \subseteq {n} /\ LastValue(els, n) = Shown(entry[n])
    BY <2>1, <2>3
  <2> QED
    BY <2>2, <2>4 DEF els, names
<1> QED
  BY <1>1, <1>2

\* What a block says of the elements that are looked at; it has no name.
ServerSays(els, host, port, user, password) ==
  /\ IsSequence(els) /\ "name" \notin Names(els)
  /\ LastValue(els, "hostname") = host /\ LastValue(els, "port") = port
  /\ LastValue(els, "user") = user /\ LastValue(els, "password") = password

StreamSays(els, mount, intake, server, public) ==
  /\ IsSequence(els) /\ "name" \notin Names(els)
  /\ LastValue(els, "mountpoint") = mount /\ LastValue(els, "intake") = intake
  /\ LastValue(els, "server") = server /\ LastValue(els, "public") = public

IntakeSays(els, filename) ==
  /\ IsSequence(els) /\ "name" \notin Names(els) /\ LastValue(els, "filename") = filename

\* A server is printed with its host name and its password, and with the port and the
\* user if they are not the default ones.
PortShown(s) == IF GetPort(s) # 8000 THEN Shown(Numeral(GetPort(s))) ELSE NULL
UserShown(s) == IF GetUser(s) # "source" THEN Shown(GetUser(s)) ELSE NULL

LEMMA ServerIsSaid ==
  ASSUME NEW s, s["name"] = Default
  PROVE  ServerSays(PrintServer(s), Shown(s["hostname"]), PortShown(s), UserShown(s),
                    Shown(s["password"]))
<1> DEFINE more == <<"tls_cipher_suite", "ca_dir", "ca_file", "client_cert">>
           port == PortShown(s)
           user == UserShown(s)
           p2 == Elem(TRUE, "protocol", s.protocol)
           p3 == Strings(s, <<"hostname">>)
           p4 == Elem(GetPort(s) # 8000, "port", Numeral(GetPort(s)))
           p5 == Elem(GetUser(s) # "source", "user", GetUser(s))
           p6 == Strings(s, <<"password">>)
           p7 == Elem(GetTls(s) # "may", "tls", GetTls(s))
           p8 == Strings(s, more)
           p9 == Elem(s.reconnect_attempts # 0, "reconnect_attempts",
                      Numeral(s.reconnect_attempts))
           q1 == PrintedName(s)
           q2 == q1 \o p2
           q3 == q2 \o p3
           q4 == q3 \o p4
           q5 == q4 \o p5
           q6 == q5 \o p6
           q7 == q6 \o p7
           q8 == q7 \o p8
           q9 == q8 \o p9
<1>1. PrintServer(s) = q9
  BY DEF PrintServer
<1>2. IsSequence(p2) /\ Names(p2) \subseteq {"protocol"}
  BY PrintedParts
<1>3. /\ IsSequence(p3) /\ Names(p3) \subseteq {"hostname"}
      /\ LastValue(p3, "hostname") = Shown(s["hostname"])
  BY PrintedParts
<1>4. IsSequence(p4) /\ Names(p4) \subseteq {"port"} /\ LastValue(p4, "port") = port
  <2> DEFINE if == GetPort(s) # 8000
             v == Numeral(GetPort(s))
  <2>1. if \in BOOLEAN
    OBVIOUS
  <2>2. p4 = Elem(if, "port", v) /\ port = IF if THEN Shown(v) ELSE NULL
    BY DEF PortShown
  <2> HIDE DEF if, v, p4, port
  <2> QED
    BY <2>1, <2>2, PrintedParts, SaysLittle
<1>5. IsSequence(p5) /\ Names(p5) \subseteq {"user"} /\ LastValue(p5, "user") = user
  <2> DEFINE if == GetUser(s) # "source"
             v == GetUser(s)
  <2>1. if \in BOOLEAN
    OBVIOUS
  <2>2. p5 = Elem(if, "user", v) /\ user = IF if THEN Shown(v) ELSE NULL
    BY DEF UserShown
  <2> HIDE DEF if, v, p5, user
  <2> QED
    BY <2>1, <2>2, PrintedParts, SaysLittle
<1>6. /\ IsSequence(p6) /\ Names(p6) \subseteq {"password"}
      /\ LastValue(p6, "password") = Shown(s["password"])
  BY PrintedParts
<1>7. IsSequence(p7) /\ Names(p7) \subseteq {"tls"}
  BY PrintedParts
<1>8. /\ IsSequence(p8)
      /\ Names(p8) \subseteq {"tls_cipher_suite", "ca_dir", "ca_file", "client_cert"}
  <2>1. /\ IsSequence(more)
        /\ {more[i] : i \in DOMAIN more}
             = {"tls_cipher_suite", "ca_dir", "ca_file", "client_cert"}
    <3>1. IsSequence(more)
      BY DEF IsSequence
    <3>2. DOMAIN more = 1..4
      OBVIOUS
    <3>3. /\ more[1] = "tls_cipher_suite" /\ more[2] = "ca_dir" /\ more[3] = "ca_file"
          /\ more[4] = "client_cert"
      OBVIOUS
    <3> HIDE DEF more
    <3>4. \A i : i \in 1..4 <=> i \in {1, 2, 3, 4}
      OBVIOUS
    <3> QED
      BY <3>1, <3>2, <3>3, <3>4
  <2> HIDE DEF more
  <2> QED
    BY <2>1, StringsPrinted, StringsSay
<1>9. IsSequence(p9) /\ Names(p9) \subseteq {"reconnect_attempts"}
  BY PrintedParts
<1> HIDE DEF p2, p3, p4, p5, p6, p7, p8, p9, port, user
<1>10. ServerSays(q1, NULL, NULL, NULL, NULL)
  <2>1. q1 = << >>
    BY DEF PrintedName, Elem
  <2>2. IsSequence(q1) /\ Names(q1) = {}
    BY <2>1, Short, NamesOfFew
  <2> QED
    BY <2>2, SaysLittle DEF ServerSays
<1> HIDE DEF q1
<1>11. ASSUME NEW q, NEW t, NEW els, NEW h, NEW p, NEW u, NEW w,
              ServerSays(q, h, p, u, w), IsSequence(t), Names(t) \subseteq els,
              els \cap {"name", "hostname", "port", "user", "password"} = {}
       PROVE  ServerSays(q \o t, h, p, u, w)
  <2>1. SaysOn(q, t)
    BY <1>11, BothSay DEF ServerSays
  <2>2. \A e \in {"hostname", "port", "user", "password"} : Giving(t, e) = {}
    BY <1>11, SaysLittle
  <2> QED
    BY <1>11, <2>1, <2>2 DEF ServerSays, SaysOn
<1>12. ServerSays(q2, NULL, NULL, NULL, NULL)
  BY <1>2, <1>10, <1>11
<1> HIDE DEF q2
<1>13. ServerSays(q3, Shown(s["hostname"]), NULL, NULL, NULL)
  <2>1. PartSays(q2, p3, {"hostname"})
    BY <1>3, <1>12, PartsSay DEF ServerSays
  <2> QED
    BY <1>3, <1>12, <2>1 DEF ServerSays, PartSays
<1> HIDE DEF q3
<1>14. ServerSays(q4, Shown(s["hostname"]), port, NULL, NULL)
  <2>1. PartSays(q3, p4, {"port"})
    BY <1>4, <1>13, PartsSay DEF ServerSays
  <2> QED
    BY <1>4, <1>13, <2>1 DEF ServerSays, PartSays
<1> HIDE DEF q4
<1>15. ServerSays(q5, Shown(s["hostname"]), port, user, NULL)
  <2>1. PartSays(q4, p5, {"user"})
    BY <1>5, <1>14, PartsSay DEF ServerSays
  <2> QED
    BY <1>5, <1>14, <2>1 DEF ServerSays, PartSays
<1> HIDE DEF q5
<1>16. ServerSays(q6, Shown(s["hostname"]), port, user, Shown(s["password"]))
  <2>1. PartSays(q5, p6, {"password"})
    BY <1>6, <1>15, PartsSay DEF ServerSays
  <2> QED
    BY <1>6, <1>15, <2>1 DEF ServerSays, PartSays
<1> HIDE DEF q6
<1>17. ServerSays(q7, Shown(s["hostname"]), port, user, Shown(s["password"]))
  BY <1>7, <1>11, <1>16
<1> HIDE DEF q7
<1>18. ServerSays(q8, Shown(s["hostname"]), port, user, Shown(s["password"]))
  BY <1>8, <1>11, <1>17
<1> HIDE DEF q8
<1>19. ServerSays(q9, Shown(s["hostname"]), port, user, Shown(s["password"]))
  BY <1>9, <1>11, <1>18
<1> QED
  BY <1>1, <1>19 DEF port, user

\* A stream is printed with its mountpoint and what it names, and with whether it is
\* public if it is.
LEMMA StreamIsSaid ==
  ASSUME NEW s, s["name"] = Default, s["public"] \in BOOLEAN
  PROVE  StreamSays(PrintStream(s), Shown(s["mountpoint"]), Shown(s["intake"]),
                    Shown(s["server"]), IF s["public"] THEN Shown("yes") ELSE NULL)
<1> DEFINE some == <<"mountpoint", "intake", "server">>
           more == <<"encoder", "stream_name", "stream_url", "stream_genre",
                     "stream_description", "stream_quality", "stream_bitrate",
                     "stream_samplerate", "stream_channels">>
           p2 == Strings(s, some)
           p3 == Elem(s.public, "public", "yes")
           p4 == Elem(TRUE, "format", s.format)
           p5 == Strings(s, more)
           public == IF s["public"] THEN Shown("yes") ELSE NULL
           q1 == PrintedName(s)
           q2 == q1 \o p2
           q3 == q2 \o p3
           q4 == q3 \o p4
           q5 == q4 \o p5
<1>1. PrintStream(s) = q5
  BY DEF PrintStream
<1>2. /\ IsSequence(p2) /\ Names(p2) \subseteq {"mountpoint", "intake", "server"}
      /\ \A e \in {"mountpoint", "intake", "server"} : LastValue(p2, e) = Shown(s[e])
  <2>1. IsSequence(some)
    BY DEF IsSequence
  <2>2. /\ DOMAIN some = 1..3
        /\ some[1] = "mountpoint" /\ some[2] = "intake" /\ some[3] = "server"
    OBVIOUS
  <2> HIDE DEF some
  <2>3. {some[i] : i \in DOMAIN some} = {"mountpoint", "intake", "server"}
    <3>1. \A i : i \in 1..3 <=> i \in {1, 2, 3}
      OBVIOUS
    <3> QED
      BY <2>2, <3>1
  <2>4. /\ Names(p2) \subseteq {some[i] : i \in DOMAIN some}
        /\ \A i \in DOMAIN some : LastValue(p2, some[i]) = Shown(s[some[i]])
    BY <2>1, StringsSay
  <2>5. IsSequence(p2)
    BY <2>1, StringsPrinted
  <2> HIDE DEF p2
  <2>6. 1 \in 1..3 /\ 2 \in 1..3 /\ 3 \in 1..3
    OBVIOUS
  <2> QED
    BY <2>2, <2>3, <2>4, <2>5, <2>6
<1>3. IsSequence(p3) /\ Names(p3) \subseteq {"public"} /\ LastValue(p3, "public") = public
  <2> DEFINE if == s["public"]
  <2> HIDE DEF if
  <2>1. /\ IsSequence(Elem(if, "public", "yes")) /\ Names(Elem(if, "public", "yes")) \subseteq {"public"}
        /\ if \in BOOLEAN => LastValue(Elem(if, "public", "yes"), "public")
                               = IF if THEN Shown("yes") ELSE NULL
    BY PrintedParts, SaysLittle
  <2> QED
    BY <2>1 DEF if
<1>4. IsSequence(p4) /\ Names(p4) \subseteq {"format"}
  BY PrintedParts
<1>5. /\ IsSequence(p5)
      /\ Names(p5) \cap {"name", "mountpoint", "intake", "server", "public"} = {}
  <2>1. IsSequence(more)
    BY DEF IsSequence
  <2>2. \A i \in DOMAIN more : more[i] \notin {"name", "mountpoint", "intake", "server", "public"}
    <3>1. DOMAIN more = 1..9
      OBVIOUS
    <3>2. /\ more[1] = "encoder" /\ more[2] = "stream_name" /\ more[3] = "stream_url"
          /\ more[4] = "stream_genre" /\ more[5] = "stream_description"
          /\ more[6] = "stream_quality" /\ more[7] = "stream_bitrate"
          /\ more[8] = "stream_samplerate" /\ more[9] = "stream_channels"
      OBVIOUS
    <3> HIDE DEF more
    <3>3. \A i \in 1..9 : i \in {1, 2, 3, 4, 5, 6, 7, 8, 9}
      OBVIOUS
    <3> QED
      BY <3>1, <3>2, <3>3
  <2> HIDE DEF more
  <2> QED
    BY <2>1, <2>2, StringsPrinted, StringsSay
<1> HIDE DEF p2, p3, p4, p5, public
<1>6. StreamSays(q1, NULL, NULL, NULL, NULL)
  <2>1. q1 = << >>
    BY DEF PrintedName, Elem
  <2>2. IsSequence(q1) /\ Names(q1) = {}
    BY <2>1, Short, NamesOfFew
  <2> QED
    BY <2>2, SaysLittle DEF StreamSays
<1> HIDE DEF q1
<1> DEFINE mount == Shown(s["mountpoint"])
           intake == Shown(s["intake"])
           server == Shown(s["server"])
<1>7. StreamSays(q2, mount, intake, server, NULL)
  <2>1. PartSays(q1, p2, {"mountpoint", "intake", "server"})
    BY <1>2, <1>6, PartsSay DEF StreamSays
  <2> QED
    BY <1>2, <1>6, <2>1 DEF StreamSays, PartSays
<1> HIDE DEF q2, mount, intake, server
<1>8. StreamSays(q3, mount, intake, server, public)
  <2>1. PartSays(q2, p3, {"public"})
    BY <1>3, <1>7, PartsSay DEF StreamSays
  <2> QED
    BY <1>3, <1>7, <2>1 DEF StreamSays, PartSays
<1> HIDE DEF q3
<1>9. ASSUME NEW q, NEW t, StreamSays(q, mount, intake, server, public), IsSequence(t),
             Names(t) \cap {"name", "mountpoint", "intake", "server", "public"} = {}
      PROVE  StreamSays(q \o t, mount, intake, server, public)
  <2>1. SaysOn(q, t)
    BY <1>9, BothSay DEF StreamSays
  <2>2. \A e \in {"mountpoint", "intake", "server", "public"} : Giving(t, e) = {}
    BY <1>9, SaysLittle
  <2> QED
    BY <1>9, <2>1, <2>2 DEF StreamSays, SaysOn
<1>10. StreamSays(q4, mount, intake, server, public)
  <2>1. Names(p4) \cap {"name", "mountpoint", "intake", "server", "public"} = {}
    BY <1>4
  <2> QED
    BY <1>4, <1>8, <1>9, <2>1
<1> HIDE DEF q4
<1>11. StreamSays(q5, mount, intake, server, public)
  BY <1>5, <1>9, <1>10
<1> QED
  BY <1>1, <1>11 DEF mount, intake, server, public

\* An intake is printed with its file name.
LEMMA IntakeIsSaid ==
  ASSUME NEW i, i["name"] = Default
  PROVE  IntakeSays(PrintIntake(i), Shown(i["filename"]))
<1> DEFINE p2 == Elem(i.type # "autodetect", "type", i.type)
           p3 == Strings(i, <<"filename">>)
           p4 == Elem(i.shuffle, "shuffle", "yes")
           p5 == Elem(i.stream_once, "stream_once", "yes")
           filename == Shown(i["filename"])
           q1 == PrintedName(i)
           q2 == q1 \o p2
           q3 == q2 \o p3
           q4 == q3 \o p4
           q5 == q4 \o p5
<1>1. PrintIntake(i) = q5
  BY DEF PrintIntake
<1>2. /\ IsSequence(p2) /\ Names(p2) \subseteq {"type"}
      /\ IsSequence(p4) /\ Names(p4) \subseteq {"shuffle"}
      /\ IsSequence(p5) /\ Names(p5) \subseteq {"stream_once"}
  BY PrintedParts
<1>3. IsSequence(p3) /\ Names(p3) \subseteq {"filename"} /\ LastValue(p3, "filename") = filename
  BY PrintedParts
<1> HIDE DEF p2, p3, p4, p5, filename
<1>4. IntakeSays(q1, NULL)
  <2>1. q1 = << >>
    BY DEF PrintedName, Elem
  <2>2. IsSequence(q1) /\ Names(q1) = {}
    BY <2>1, Short, NamesOfFew
  <2> QED
    BY <2>2, SaysLittle DEF IntakeSays
<1> HIDE DEF q1
<1>5. ASSUME NEW q, NEW t, NEW f, IntakeSays(q, f), IsSequence(t), NEW e, Names(t) \subseteq {e},
             e \notin {"name", "filename"}
      PROVE  IntakeSays(q \o t, f)
  <2>1. SaysOn(q, t)
    BY <1>5, BothSay DEF IntakeSays
  <2>2. Giving(t, "filename") = {}
    BY <1>5, SaysLittle
  <2> QED
    BY <1>5, <2>1, <2>2 DEF IntakeSays, SaysOn
<1>6. IntakeSays(q2, NULL)
  BY <1>2, <1>4, <1>5
<1> HIDE DEF q2
<1>7. IntakeSays(q3, filename)
  <2>1. PartSays(q2, p3, {"filename"})
    BY <1>3, <1>6, PartsSay DEF IntakeSays
  <2> QED
    BY <1>3, <1>6, <2>1 DEF IntakeSays, PartSays
<1> HIDE DEF q3
<1>8. IntakeSays(q4, filename)
  BY <1>2, <1>5, <1>7
<1> HIDE DEF q4
<1>9. IntakeSays(q5, filename)
  BY <1>2, <1>5, <1>8
<1> QED
  BY <1>1, <1>9 DEF filename

\* A file with one block, which has no name, says what the block does.
LEMMA OneBlockSays ==
  ASSUME NEW blocks, DOMAIN blocks = {1}, "name" \notin Names(blocks[1])
  PROVE  \A e : ValueAt(blocks, LastOfName(blocks, Default), e) = LastValue(blocks[1], e)
<1>1. NameOf(blocks[1]) = Default
  BY SaysLittle DEF NameOf
<1>2. Max({1}) = 1
  BY GreatestIsMax
<1>3. LastOfName(blocks, Default) = 1
  <2>1. {i \in DOMAIN blocks : NameOf(blocks[i]) = Default} = {1}
    BY <1>1
  <2> QED
    BY <1>2, <2>1 DEF LastOfName
<1>4. Begins(blocks, 1) = 1
  <2>1. {1} \cup {i \in 2..1 : NameOf(blocks[i - 1]) # Default} = {1}
    OBVIOUS
  <2> QED
    BY <1>2, <2>1 DEF Begins
<1>5. ASSUME NEW e PROVE ValueAt(blocks, 1, e) = LastValue(blocks[1], e)
  <2> DEFINE giving == {i \in Begins(blocks, 1)..1 : Giving(blocks[i], e) # {}}
  <2>1. giving = IF Giving(blocks[1], e) # {} THEN {1} ELSE {}
    <3>1. 1..1 = {1}
      OBVIOUS
    <3> QED
      BY <1>4, <3>1
  <2>2. CASE Giving(blocks[1], e) # {}
    <3>1. giving # {} /\ Max(giving) = 1
      BY <1>2, <2>1, <2>2
    <3> QED
      BY <3>1 DEF ValueAt
  <2>3. CASE Giving(blocks[1], e) = {}
    <3>1. giving = {}
      BY <2>1, <2>3
    <3> QED
      BY <2>3, <3>1 DEF ValueAt, LastValue
  <2> QED
    BY <2>2, <2>3
<1> QED
  BY <1>3, <1>5

--------------------------------------------------------------------------------
(* A legacy file is read. *)

NextElement0(c, r, el) == ReadElement(r, el)
InLegacy == INSTANCE FoldLaws WITH op <- NextElement0

\* What a file without an error gives an element, is what it is read as.
AsGiven(els, e, v) == v = LastValue(els, e) /\ (v # NULL => v # NoValue /\ ElementOk(e, v))

LEMMA ElementsRead ==
  ASSUME NEW names, NEW els, IsSequence(els), ReadElements(names, els).ok
  PROVE  \A e \in names : AsGiven(els, e, ReadElements(names, els).set[e])
<1> DEFINE n == Len(els)
           base == [set |-> [e \in names |-> NULL], ok |-> TRUE]
           c == 0
<1>1. n \in Nat /\ DOMAIN els = 1..n
  BY DEF IsSequence
<1>2. ReadElements(names, els) = InLegacy!LeftFold(c, base, els)
  BY DEF ReadElements, InLegacy!LeftFold, FoldLeft, InLegacy!FoldLeft, MapThenFoldSet,
         InLegacy!MapThenFoldSet, Max, InLegacy!Max, NextElement0
<1> HIDE DEF n, base, c
<1>0. PICK r : InLegacy!Stepwise(c, base, n, els, r)
  BY <1>1, InLegacy!FoldsStepwise
<1>3. /\ r[0] = base
      /\ \A k \in 1..n : r[k] = ReadElement(r[k - 1], els[k])
      /\ InLegacy!LeftFold(c, base, els) = r[n]
  BY <1>0 DEF InLegacy!Stepwise, NextElement0
<1> DEFINE To(e, k) == {i \in 1..k : els[i][1] = e /\ els[i][2] # NoValue}
           LastIn(e, k, x) ==
             \/ To(e, k) = {} /\ x = NULL
             \/ \E j \in To(e, k) : (\A i \in To(e, k) : i <= j) /\ x = els[j][2]
           Read(k, q) ==
             /\ q = [set |-> q.set, ok |-> q.ok] /\ q.set = [e \in names |-> q.set[e]]
             /\ q.ok => \A e \in names :
                          /\ LastIn(e, k, q.set[e])
                          /\ q.set[e] # NULL => q.set[e] # NoValue /\ ElementOk(e, q.set[e])
           S == {k \in 0..n : Read(k, r[k])}
<1>4. 0 \in S
  <2>1. \A e : To(e, 0) = {}
    OBVIOUS
  <2>2. /\ r[0].set = [e \in names |-> NULL] /\ r[0] = [set |-> r[0].set, ok |-> r[0].ok]
        /\ 0 \in 0..n
    BY <1>1, <1>3 DEF base
  <2> HIDE DEF To
  <2>3. Read(0, r[0])
    BY <2>1, <2>2
  <2> QED
    BY <2>2, <2>3
<1>5. ASSUME NEW k \in 0..(n - 1), k \in S PROVE k + 1 \in S
  <2> DEFINE el == els[k + 1]
             old == r[k]
             new == r[k + 1]
             x == el[1]
             v == el[2]
  <2>1. k + 1 \in 1..n /\ k + 1 \in 0..n /\ (k + 1) - 1 = k /\ k \in Nat
    BY <1>1
  <2>2. new = ReadElement(old, el)
    BY <1>3, <2>1
  <2>3. Read(k, old)
    BY <1>5
  <2>4. \A e : e # x \/ v = NoValue => To(e, k + 1) = To(e, k)
    BY <2>1
  <2>5. v # NoValue => k + 1 \in To(x, k + 1) /\ \A i \in To(x, k + 1) : i <= k + 1
    BY <2>1
  <2> HIDE DEF To, S
  <2> SUFFICES Read(k + 1, new)
    BY <2>1 DEF S
  <2>6. els[k + 1][2] = v
    OBVIOUS
  <2> HIDE DEF el, old, new
  <2>7. CASE old.set[x] # NULL
    <3>1. new = [old EXCEPT !.ok = FALSE]
      BY <2>2, <2>7 DEF ReadElement
    <3> HIDE DEF x, v
    <3>2. new.set = old.set /\ new.ok = FALSE /\ new = [set |-> new.set, ok |-> new.ok]
      BY <2>3, <3>1
    <3> HIDE DEF LastIn
    <3> QED
      BY <2>3, <3>2
  <2>8. CASE old.set[x] = NULL /\ v = NoValue
    <3>1. new = old
      BY <2>2, <2>8 DEF ReadElement
    <3>2. \A e : LastIn(e, k + 1, old.set[e]) <=> LastIn(e, k, old.set[e])
      BY <2>4, <2>8
    <3> HIDE DEF x, v, LastIn
    <3> QED
      BY <2>3, <3>1, <3>2
  <2>9. CASE old.set[x] = NULL /\ v # NoValue
    <3>1. new = [set |-> [old.set EXCEPT ![x] = v], ok |-> old.ok /\ ElementOk(x, v)]
      BY <2>2, <2>9 DEF ReadElement
    <3> HIDE DEF x, v
    <3>2. /\ new = [set |-> new.set, ok |-> new.ok]
          /\ new.set = [old.set EXCEPT ![x] = v]
      BY <3>1
    <3>3. new.ok => old.ok /\ ElementOk(x, v)
      BY <3>1
    <3>4. old.set = [e \in names |-> old.set[e]]
      BY <2>3
    <3>5. /\ new.set = [e \in names |-> new.set[e]]
          /\ \A e \in names : new.set[e] = IF e = x THEN v ELSE old.set[e]
      <4> DEFINE set == old.set
      <4> HIDE DEF set
      <4>1. set = [e \in names |-> set[e]] /\ new.set = [set EXCEPT ![x] = v]
        BY <3>2, <3>4 DEF set
      <4>2. new.set = [e \in names |-> IF e = x THEN v ELSE set[e]]
        BY <4>1
      <4> QED
        BY <4>2 DEF set
    <3>6. ASSUME new.ok, NEW e \in names
          PROVE  /\ LastIn(e, k + 1, new.set[e])
                 /\ new.set[e] # NULL => new.set[e] # NoValue /\ ElementOk(e, new.set[e])
      <4>1. CASE e = x
        <5>1. LastIn(x, k + 1, v)
          BY <2>5, <2>6, <2>9
        <5> HIDE DEF LastIn
        <5> QED
          BY <2>9, <3>3, <3>5, <3>6, <4>1, <5>1
      <4>2. CASE e # x
        <5>1. LastIn(e, k + 1, old.set[e]) <=> LastIn(e, k, old.set[e])
          BY <2>4, <4>2
        <5> HIDE DEF LastIn
        <5> QED
          BY <2>3, <3>3, <3>5, <3>6, <4>2, <5>1
      <4> QED
        BY <4>1, <4>2
    <3> HIDE DEF LastIn
    <3> QED
      BY <3>2, <3>5, <3>6
  <2> QED
    BY <2>7, <2>8, <2>9
<1>6. n \in S
  <2>1. n \in 0..n
    BY <1>1
  <2> HIDE DEF S
  <2> QED
    BY <1>1, <1>4, <1>5, <2>1, InLegacy!Induction
<1>7. ASSUME NEW e \in names, NEW x, LastIn(e, n, x) PROVE x = LastValue(els, e)
  <2>1. Giving(els, e) = To(e, n)
    BY <1>1 DEF Giving
  <2>2. CASE To(e, n) = {}
    BY <1>7, <2>1, <2>2 DEF LastValue
  <2>3. CASE To(e, n) # {}
    <3>1. PICK j \in To(e, n) : (\A i \in To(e, n) : i <= j) /\ x = els[j][2]
      BY <1>7, <2>3
    <3>2. Max(To(e, n)) = j
      <4>1. To(e, n) \subseteq Nat
        BY <1>1
      <4> HIDE DEF To
      <4> QED
        BY <3>1, <4>1, GreatestIsMax
    <3> HIDE DEF To
    <3> QED
      BY <2>1, <2>3, <3>1, <3>2 DEF LastValue
  <2> QED
    BY <2>2, <2>3
<1>8. Read(n, r[n]) /\ r[n].ok /\ ReadElements(names, els) = r[n]
  BY <1>2, <1>3, <1>6
<1> HIDE DEF LastIn
<1> QED
  BY <1>7, <1>8 DEF AsGiven

\* If an address is found in a legacy file, then the file was read without an error.
LEMMA LegacyRead ==
  ASSUME NEW legacy, IsSequence(legacy.elements), ParseConfig(legacy).set["url"] # NULL
  PROVE  \A e \in Elements0 : AsGiven(legacy.elements, e, ParseConfig(legacy).set[e])
<1> DEFINE read == ReadElements(Elements0, legacy.elements)
           encdecs == [i \in DOMAIN legacy.encdecs |->
                         ReadElements(EncDecElements, legacy.encdecs[i])]
           ok == /\ legacy.state = "ok" /\ read.ok
                 /\ \A i \in DOMAIN encdecs : encdecs[i].ok
<1>1. ParseConfig(legacy).set = IF ok THEN read.set ELSE [e \in Elements0 |-> NULL]
  BY DEF ParseConfig
<1>2. "url" \in Elements0
  BY DEF Elements0, Strings0
<1>3. ok => read.ok
  OBVIOUS
<1> HIDE DEF read, ok
<1>4. ok
  BY <1>1, <1>2
<1> QED
  BY <1>1, <1>3, <1>4, ElementsRead DEF read

\* The blocks of servers and streams of a file, and their elements, are in sequence.
Shaped(f) ==
  \A k \in Told : IsSequence(f[k]) /\ \A i \in DOMAIN f[k] : IsSequence(f[k][i])

\* A block whose elements are read one by one stays a sequence.
LEMMA ElementsRestored ==
  ASSUME NEW block, IsSequence(block)
  PROVE  IsSequence([j \in DOMAIN block |-> ElementRead(block[j])])
<1> DEFINE read == [j \in DOMAIN block |-> ElementRead(block[j])]
<1>1. DOMAIN block = 1..Len(block) /\ Len(block) \in Nat
  BY DEF IsSequence
<1>2. read \in [1..Len(block) -> {read[j] : j \in DOMAIN read}]
  BY <1>1
<1>3. read \in Seq({read[j] : j \in DOMAIN read})
  BY <1>1, <1>2
<1> QED
  BY <1>3 DEF IsSequence

\* Without markup a file is read as it was printed.
LEMMA PlainIsRead ==
  ASSUME NEW c, NEW k \in FileKinds, Unmarked(Printed(c)),
         \A i \in DOMAIN c[k] : IsSequence(PrintedBlock(k, c[k][i]))
  PROVE  PrintedFile(c)[k] = [i \in DOMAIN c[k] |-> PrintedBlock(k, c[k][i])]
<1> DEFINE printed(i) == PrintedBlock(k, c[k][i])
<1>1. k # "state"
  BY DEF FileKinds, Lists
<1>2. Printed(c)[k] = [i \in DOMAIN c[k] |-> printed(i)]
  BY DEF Printed
<1>3. PrintedFile(c)[k] =
        [i \in DOMAIN c[k] |-> [j \in DOMAIN printed(i) |-> ElementRead(printed(i)[j])]]
  BY <1>1, <1>2 DEF PrintedFile, Parsed
<1>4. ASSUME NEW i \in DOMAIN c[k]
      PROVE  [j \in DOMAIN printed(i) |-> ElementRead(printed(i)[j])] = printed(i)
  <2> DEFINE block == printed(i)
  <2>1. \A j \in DOMAIN block : block[j][2] \notin Markup
    BY <1>2 DEF Unmarked, NoneOf
  <2>2. IsSequence(block)
    OBVIOUS
  <2> HIDE DEF block
  <2>3. \A j \in DOMAIN block : ElementRead(block[j]) = block[j]
    BY <2>1, XmlAssumption DEF ElementRead
  <2>4. block = [j \in DOMAIN block |-> block[j]]
    BY <2>2 DEF IsSequence
  <2>5. [j \in DOMAIN block |-> ElementRead(block[j])] = block
    BY <2>3, <2>4
  <2> QED
    BY <2>5 DEF block
<1> HIDE DEF printed
<1>5. PrintedFile(c)[k] = [i \in DOMAIN c[k] |-> printed(i)]
  BY <1>3, <1>4
<1> QED
  BY <1>5 DEF printed

\* So are those that are printed.
LEMMA PrintedIsShaped ==
  ASSUME NEW c, \A kind \in Told : IsSequence(c[kind])
  PROVE  Shaped(PrintedFile(c))
<1> SUFFICES ASSUME NEW k \in Told
             PROVE  /\ IsSequence(PrintedFile(c)[k])
                    /\ \A i \in DOMAIN PrintedFile(c)[k] : IsSequence(PrintedFile(c)[k][i])
  BY DEF Shaped
<1> DEFINE list == c[k]
           blocks == PrintedFile(c)[k]
           printed(i) == PrintedBlock(k, list[i])
           m == Len(list)
<1>1. k \in FileKinds /\ k # "state"
  BY DEF Told, FileKinds, Lists
<1>2. blocks = [i \in DOMAIN list |-> [j \in DOMAIN printed(i) |-> ElementRead(printed(i)[j])]]
  BY <1>1 DEF PrintedFile, Parsed, Printed
<1>3. m \in Nat /\ DOMAIN list = 1..m
  BY DEF Told, IsSequence
<1>4. \A x : IsSequence(PrintedBlock(k, x))
  BY ServerPrinted, StreamPrinted, IntakePrinted DEF Told, PrintedBlock
<1>8. \A i \in DOMAIN list :
        IsSequence([j \in DOMAIN printed(i) |-> ElementRead(printed(i)[j])])
  <2> SUFFICES ASSUME NEW i \in DOMAIN list
               PROVE  IsSequence([j \in DOMAIN printed(i) |-> ElementRead(printed(i)[j])])
    OBVIOUS
  <2> QED
    BY <1>4, ElementsRestored
<1> HIDE DEF list, blocks, m, printed
<1>5. blocks = [i \in 1..m |-> blocks[i]]
  BY <1>2, <1>3
<1>6. IsSequence(blocks)
  BY <1>3, <1>5 DEF IsSequence
<1>7. \A i \in DOMAIN blocks : IsSequence(blocks[i])
  BY <1>2, <1>8
<1> QED
  BY <1>6, <1>7 DEF blocks

--------------------------------------------------------------------------------
(* What libshout is told. *)

\* The file that was read, and is in force.
InForce(kind) ==
  /\ ReadList(kind, file[kind]).ok
  /\ cfg[kind] = ReadList(kind, file[kind]).list

ValueInv ==
  /\ start \in Starts /\ Shaped(file)
  /\ pc \in {"configure", "connect"} =>
       DOMAIN cfg = FileKinds /\ InForce("server") /\ InForce("stream")
  /\ pc = "connect" =>
       /\ handle = ConfiguredHandle
       /\ Find(cfg.stream, Default) # 0 /\ ServerAt # 0
       /\ TlsAccepted(cfg.server[ServerAt])

\* A process starts with a file that is lists of blocks, and has read none.
LEMMA InitValueInv == Init => ValueInv
<1> SUFFICES ASSUME Init PROVE ValueInv
  OBVIOUS
<1>1. start \in Starts /\ file = start.file /\ pc \in {"migrate", "cmdline"}
  BY DEF Init, LaunchInit
<1>2. Told \subseteq FileKinds
  BY DEF Told, FileKinds, Lists
<1>3. Shaped(file)
  BY <1>1, <1>2, LaunchAssumption DEF Shaped
<1> QED
  BY <1>1, <1>3 DEF ValueInv

\* Nothing of it changes when the file, the settings and the handle stay.
LEMMA ValueInvKept ==
  ASSUME ValueInv, UNCHANGED <<start, file, cfg>>,
         (pc' = pc /\ handle' = handle) \/ pc' \notin {"configure", "connect"}
  PROVE  ValueInv'
<1>1. (DOMAIN cfg = FileKinds)' <=> DOMAIN cfg = FileKinds
  OBVIOUS
<1>2. pc \in {"configure", "connect"} => (InForce("server") /\ InForce("stream"))'
  BY DEF ValueInv, InForce
<1>3. ConfiguredHandle' = ConfiguredHandle /\ ServerAt' = ServerAt
  BY DEF ConfiguredHandle, ServerAt, Stream, TlsHandle
<1>4. TlsAccepted(cfg.server[ServerAt])' = TlsAccepted(cfg.server[ServerAt])
  BY <1>3 DEF TlsAccepted
<1>5. start' \in Starts /\ Shaped(file')
  BY DEF ValueInv
<1> QED
  BY <1>2, <1>3, <1>4, <1>5 DEF ValueInv

\* Every step of a launch keeps the handle in step with the file.
LEMMA LaunchValueInv == ValueInv /\ LaunchNext => ValueInv'
<1> SUFFICES ASSUME ValueInv, LaunchNext PROVE ValueInv'
  OBVIOUS
<1>1. CASE Migrate
  <2> DEFINE new == Migrated(ParseConfig(start.legacy))
  <2>1. new # NULL /\ file' = PrintedFile(new) /\ pc' = "cmdline" /\ start' = start
    BY <1>1 DEF Migrate
  <2>2. Shaped(file')
    <3> HIDE DEF new
    <3>1. \A kind \in Told : IsSequence(new[kind])
      BY <2>1, MigratedLists DEF new, MigratedAs, One, Entries
    <3> QED
      BY <2>1, <3>1, PrintedIsShaped
  <2> QED
    BY <2>1, <2>2 DEF ValueInv
<1>2. CASE Reload
  <2>1. /\ FileOk /\ cfg' = ReadFile(file).cfg /\ pc' = "configure"
        /\ start' = start /\ file' = file
    BY <1>2 DEF Reload
  <2>2. ASSUME NEW kind \in Told
        PROVE  ReadList(kind, file[kind]).ok /\ cfg'[kind] = ReadList(kind, file[kind]).list
    <3>1. kind \in FileKinds /\ kind # "metadata"
      BY DEF Told, FileKinds, Lists
    <3> QED
      BY <2>1, <3>1 DEF FileOk, ReadFile
  <2>3. DOMAIN cfg' = FileKinds
    BY <2>1 DEF ReadFile
  <2>4. (InForce("server") /\ InForce("stream"))'
    BY <2>1, <2>2 DEF Told, InForce
  <2> QED
    BY <2>1, <2>3, <2>4 DEF ValueInv
<1>3. CASE Configure
  <2>1. /\ pc = "configure" /\ Configurable /\ pc' = "connect"
        /\ handle' = ConfiguredHandle /\ cfg' = [cfg EXCEPT !.intake = Intakes]
        /\ start' = start /\ file' = file
    BY <1>3 DEF Configure
  <2>2. DOMAIN cfg = FileKinds /\ InForce("server") /\ InForce("stream")
    BY <2>1 DEF ValueInv
  <2>3. /\ DOMAIN cfg' = FileKinds
        /\ cfg'["server"] = cfg["server"] /\ cfg'["stream"] = cfg["stream"]
    BY <2>1, <2>2 DEF FileKinds, Lists
  <2>4. (InForce("server") /\ InForce("stream"))'
    BY <2>1, <2>2, <2>3 DEF InForce
  <2>5. ConfiguredHandle' = ConfiguredHandle /\ ServerAt' = ServerAt
    <3>1. Stream' = Stream
      BY <2>3 DEF Stream
    <3>2. ServerAt' = ServerAt
      BY <2>3, <3>1 DEF ServerAt
    <3>3. (cfg.server[ServerAt])' = cfg.server[ServerAt]
      BY <2>3, <3>2
    <3>4. (TlsHandle(cfg.server[ServerAt]))' = TlsHandle(cfg.server[ServerAt])
      BY <3>3 DEF TlsHandle
    <3> QED
      BY <2>1, <3>1, <3>2, <3>3, <3>4 DEF ConfiguredHandle
  <2>6. /\ (Find(cfg.stream, Default) # 0)' /\ (ServerAt # 0)'
        /\ TlsAccepted(cfg.server[ServerAt])'
    BY <2>1, <2>3, <2>5 DEF Configurable, TlsAccepted
  <2> QED
    BY <2>1, <2>3, <2>4, <2>5, <2>6 DEF ValueInv
<1>4. CASE LaunchNext /\ ~Migrate /\ ~Reload /\ ~Configure
  BY <1>4, ValueInvKept
     DEF LaunchNext, MigrateFails, ParseOption, HelpOrVersion, BadOption, ShuffleFile,
         NoConfigFile, CommandLineDone, ReloadFails, ConfigureFails, Connect, ConnectFails,
         Exit
<1> QED
  BY <1>1, <1>2, <1>3, <1>4

\* So does every other step.
LEMMA StepValueInv == ValueInv /\ [Next]_vars => ValueInv'
<1> SUFFICES ASSUME ValueInv, [Next]_vars PROVE ValueInv'
  OBVIOUS
<1>1. CASE LaunchNext
  BY <1>1, LaunchValueInv
<1>2. CASE ResourceNext
  <2>1. UNCHANGED <<start, file, cfg>> /\ pc' \in {"stream", "exited"}
    BY <1>2 DEF ResourceNext, Streaming, launchVars, Exit, NextSong, StreamFile, Answer,
       AskFails, RefreshFails, AnswerUnreadable, Parse, ParseFails, Build, CannotBuild,
       Fopen, FopenFails, DupStderr, QuietStderr, QuietFails, Popen, Restore, TellStdin,
       TellStdinFails, Opened, Query, TellRefresh, TellRefreshFails, TrackEnds, Close, Leave
  <2> QED
    BY <2>1, ValueInvKept
<1>3. CASE UNCHANGED vars
  BY <1>3, ValueInvKept DEF vars, launchVars
<1> QED
  BY <1>1, <1>2, <1>3 DEF Next, Ended

\* The handle is in step with the file all the time.
LEMMA ValueInvAlways == Spec => []ValueInv
BY InitValueInv, StepValueInv, PTL DEF Spec

\* What an entry has of an element that is made of the file: the value as it is, a
\* number, or a switch, and what it was set to at first where the file says nothing.
LEMMA MadeIs ==
  ASSUME NEW kind, NEW blocks, NEW last, NEW e, NEW x, Made(kind, blocks, last, e, x)
  PROVE  LET v == ValueAt(blocks, last, e)
             class == Setter[kind][e]
         IN /\ class \in {"string", "buffer", "format"} => x = v
            /\ class \in {"protocol", "tls"} => (x = v \/ (v = NULL /\ x = Unset(class)))
            /\ class = "boolean" => x = (v \in True)
            /\ class = "port" =>
                 \/ (v = NULL /\ x = 0)
                 \/ (v # NULL /\ x = Numerals[v] /\ IsNumber(v, 1, 65535))
<1> DEFINE v == ValueAt(blocks, last, e)
           class == Setter[kind][e]
           givers == Givers(blocks, last, e)
<1>1. givers = {} => v = NULL
  BY DEF ValueAt, Givers
<1>2. /\ givers = {} => x = Unset(class)
      /\ givers # {} => x = Converted(class, v) /\ (class = "port" => IsNumber(v, 1, 65535))
  BY DEF Made
<1> HIDE DEF v, class, givers
<1>3. ASSUME class \in {"string", "buffer", "format"} PROVE x = v
  <2>1. Unset(class) = NULL
    BY <1>3 DEF Unset
  <2>2. Converted(class, v) = v
    BY <1>3 DEF Converted
  <2> QED
    BY <1>1, <1>2, <2>1, <2>2
<1>4. ASSUME class \in {"protocol", "tls"} PROVE x = v \/ (v = NULL /\ x = Unset(class))
  <2>1. Converted(class, v) = v
    BY <1>4 DEF Converted
  <2> QED
    BY <1>1, <1>2, <2>1
<1>5. ASSUME class = "boolean" PROVE x = (v \in True)
  <2>1. Unset(class) = FALSE
    BY <1>5 DEF Unset
  <2>2. Converted(class, v) = (v \in True)
    BY <1>5 DEF Converted
  <2>3. CASE givers = {}
    <3>1. (v \in True) = FALSE
      BY <1>1, <2>3, SettingsAssumption
    <3>2. x = FALSE
      BY <1>2, <2>1, <2>3
    <3> QED
      BY <3>1, <3>2
  <2>4. CASE givers # {}
    BY <1>2, <2>2, <2>4
  <2> QED
    BY <2>3, <2>4
<1>6. ASSUME class = "port"
      PROVE  \/ (v = NULL /\ x = 0)
             \/ (v # NULL /\ x = Numerals[v] /\ IsNumber(v, 1, 65535))
  <2>1. Unset(class) = 0
    BY <1>6 DEF Unset
  <2>2. Converted(class, v) = Numerals[v]
    BY <1>6 DEF Converted
  <2>3. IsNumber(v, 1, 65535) => v # NULL
    BY SettingsAssumption DEF IsNumber
  <2> QED
    BY <1>1, <1>2, <1>6, <2>1, <2>2, <2>3
<1> QED
  BY <1>3, <1>4, <1>5, <1>6 DEF v, class

\* Where a process connects, the stream and its server are the entries of the file.
LEMMA EntriesInForce ==
  ASSUME ValueInv, Ready
  PROVE  /\ \A e \in Plain("stream") :
              Made("stream", file.stream, LastOfName(file.stream, Default), e, Stream[e])
         /\ OfStream("server") = Stream.server
         /\ \A e \in Plain("server") :
              Made("server", file.server, LastOfName(file.server, OrDefault(Stream.server)),
                   e, cfg.server[ServerAt][e])
<1>1. /\ InForce("server") /\ InForce("stream") /\ Shaped(file)
      /\ Find(cfg.stream, Default) # 0 /\ ServerAt # 0
  BY DEF ValueInv, Ready
<1>2. ASSUME NEW kind \in Told, InForce(kind)
      PROVE  IsSequence(file[kind]) /\ ListMade(kind, file[kind], Len(file[kind]), cfg[kind])
  BY <1>1, <1>2, ListReads DEF InForce, Shaped
<1>3. \A e \in Plain("stream") :
        Made("stream", file.stream, LastOfName(file.stream, Default), e, Stream[e])
  <2>1. "stream" \in Told
    BY DEF Told
  <2> QED
    BY <1>1, <1>2, <2>1, EntryIsWritten DEF Stream
<1>4. OfStream("server") = Stream.server
  <2>1. "server" \in Plain("stream") /\ Setter["stream"]["server"] = "string"
    BY DEF Plain, Elements, Setter, StreamElements
  <2> QED
    BY <1>3, <2>1, MadeIs DEF OfStream
<1>5. \A e \in Plain("server") :
        Made("server", file.server, LastOfName(file.server, OrDefault(Stream.server)),
             e, cfg.server[ServerAt][e])
  <2>1. "server" \in Told
    BY DEF Told
  <2> QED
    BY <1>1, <1>2, <2>1, EntryIsWritten DEF ServerAt
<1> QED
  BY <1>3, <1>4, <1>5

\* The elements of the server that the file names, and those of the stream.
LEMMA WhatIsTold ==
  ASSUME ValueInv, Ready
  PROVE  LET s == cfg.server[ServerAt]
             t == Stream
         IN /\ s.hostname = OfServer("hostname") /\ s.password = OfServer("password")
            /\ s.user = OfServer("user") /\ s.ca_file = OfServer("ca_file")
            /\ \/ (OfServer("port") = NULL /\ s.port = 0)
               \/ /\ OfServer("port") # NULL /\ s.port = Numerals[OfServer("port")]
                  /\ IsNumber(OfServer("port"), 1, 65535)
            /\ \/ s.protocol = OfServer("protocol")
               \/ (OfServer("protocol") = NULL /\ s.protocol = "http")
            /\ s.tls = OfServer("tls") \/ (OfServer("tls") = NULL /\ s.tls = "may")
            /\ t.mountpoint = OfStream("mountpoint") /\ t.format = OfStream("format")
            /\ t.public = (OfStream("public") \in True)
            /\ t.stream_name = OfStream("stream_name")
            /\ t.stream_description = OfStream("stream_description")
            /\ t.stream_bitrate = OfStream("stream_bitrate")
<1>1. \A e \in Plain("server") :
        Made("server", file.server, LastOfName(file.server, OrDefault(OfStream("server"))),
             e, cfg.server[ServerAt][e])
  BY EntriesInForce
<1>2. \A e \in Plain("stream") :
        Made("stream", file.stream, LastOfName(file.stream, Default), e, Stream[e])
  BY EntriesInForce
<1>3. /\ {"hostname", "password", "user", "ca_file", "port", "protocol", "tls"}
           \subseteq Plain("server")
      /\ \A e \in {"hostname", "password", "user", "ca_file"} : Setter["server"][e] = "buffer"
      /\ \A e \in {"port", "protocol", "tls"} : Setter["server"][e] = e
  BY DEF Plain, Elements, Setter, ServerElements
<1>4. /\ {"mountpoint", "format", "public", "stream_name", "stream_description",
          "stream_bitrate"} \subseteq Plain("stream")
      /\ \A e \in {"mountpoint", "stream_name", "stream_description", "stream_bitrate"} :
           Setter["stream"][e] = "string"
      /\ Setter["stream"]["format"] = "format" /\ Setter["stream"]["public"] = "boolean"
  BY DEF Plain, Elements, Setter, StreamElements
<1>5. \A e \in {"hostname", "password", "user", "ca_file"} :
        cfg.server[ServerAt][e] = OfServer(e)
  BY <1>1, <1>3, MadeIs DEF OfServer
<1>6. \/ (OfServer("port") = NULL /\ cfg.server[ServerAt].port = 0)
      \/ /\ OfServer("port") # NULL
         /\ cfg.server[ServerAt].port = Numerals[OfServer("port")]
         /\ IsNumber(OfServer("port"), 1, 65535)
  BY <1>1, <1>3, MadeIs DEF OfServer
<1>7. \A e \in {"protocol", "tls"} :
        \/ cfg.server[ServerAt][e] = OfServer(e)
        \/ (OfServer(e) = NULL /\ cfg.server[ServerAt][e] = Unset(e))
  BY <1>1, <1>3, MadeIs DEF OfServer
<1>8. Unset("protocol") = "http" /\ Unset("tls") = "may"
  BY DEF Unset
<1>9. \A e \in {"mountpoint", "stream_name", "stream_description", "stream_bitrate", "format"} :
        Stream[e] = OfStream(e)
  BY <1>2, <1>4, MadeIs DEF OfStream
<1>10. Stream.public = (OfStream("public") \in True)
  BY <1>2, <1>4, MadeIs DEF OfStream
<1> QED
  <2> DEFINE s == cfg.server[ServerAt]
             t == Stream
  <2> HIDE DEF s, t
  <2>1. /\ \A e \in {"hostname", "password", "user", "ca_file"} : s[e] = OfServer(e)
        /\ \/ (OfServer("port") = NULL /\ s.port = 0)
           \/ /\ OfServer("port") # NULL /\ s.port = Numerals[OfServer("port")]
              /\ IsNumber(OfServer("port"), 1, 65535)
        /\ \/ s.protocol = OfServer("protocol")
           \/ (OfServer("protocol") = NULL /\ s.protocol = "http")
        /\ s.tls = OfServer("tls") \/ (OfServer("tls") = NULL /\ s.tls = "may")
    BY <1>5, <1>6, <1>7, <1>8 DEF s
  <2>2. /\ \A e \in {"mountpoint", "stream_name", "stream_description", "stream_bitrate",
                     "format"} : t[e] = OfStream(e)
        /\ t.public = (OfStream("public") \in True)
    BY <1>9, <1>10 DEF t
  <2> QED
    BY <2>1, <2>2 DEF s, t

\* So the handle is as the file says.
LEMMA ToldIsWritten ==
  ASSUME ValueInv
  PROVE  ConfiguredAsWritten
<1> SUFFICES ASSUME Ready PROVE ConfiguredAsWritten
  BY DEF ConfiguredAsWritten
<1> DEFINE s == cfg.server[ServerAt]
           t == Stream
<1>1. handle = ConfiguredHandle
  BY DEF ValueInv, Ready
<1>2. /\ DOMAIN ServerHandle(s) = {"protocol", "host", "port", "user", "password"}
      /\ DOMAIN StreamHandle(t) =
           {"mount", "format", "public", "name", "url", "genre", "description", "quality",
            "bitrate", "samplerate", "channels"}
      /\ DOMAIN TlsHandle(s) = {"tls", "ca_dir", "ca_file", "client_cert", "ciphers"}
  BY DEF ServerHandle, StreamHandle, TlsHandle
<1>3. /\ handle.host = s.hostname /\ handle.port = GetPort(s) /\ handle.user = GetUser(s)
      /\ handle.password = s.password
  <2>1. \A f \in DOMAIN ServerHandle(s) : ConfiguredHandle[f] = ServerHandle(s)[f]
    <3> SUFFICES ASSUME NEW f \in DOMAIN ServerHandle(s)
                 PROVE  ConfiguredHandle[f] = ServerHandle(s)[f]
      OBVIOUS
    <3>1. f \in HandleFields /\ f \notin DOMAIN StreamHandle(t) /\ f \notin DOMAIN TlsHandle(s)
      BY <1>2 DEF HandleFields
    <3> QED
      BY <3>1 DEF ConfiguredHandle
  <2>2. /\ ServerHandle(s).host = s.hostname /\ ServerHandle(s).port = GetPort(s)
        /\ ServerHandle(s).user = GetUser(s) /\ ServerHandle(s).password = s.password
    BY DEF ServerHandle
  <2> QED
    BY <1>1, <1>2, <2>1, <2>2
<1>4. /\ handle.mount = t.mountpoint /\ handle.format = t.format /\ handle.public = t.public
      /\ handle.name = t.stream_name /\ handle.description = t.stream_description
      /\ handle.bitrate = t.stream_bitrate
  <2>1. \A f \in DOMAIN StreamHandle(t) : ConfiguredHandle[f] = StreamHandle(t)[f]
    <3> SUFFICES ASSUME NEW f \in DOMAIN StreamHandle(t)
                 PROVE  ConfiguredHandle[f] = StreamHandle(t)[f]
      OBVIOUS
    <3>1. f \in HandleFields /\ f \notin DOMAIN ServerHandle(s) /\ f \notin DOMAIN TlsHandle(s)
      BY <1>2 DEF HandleFields
    <3> QED
      BY <3>1 DEF ConfiguredHandle
  <2>2. /\ StreamHandle(t).mount = t.mountpoint /\ StreamHandle(t).format = t.format
        /\ StreamHandle(t).public = t.public /\ StreamHandle(t).name = t.stream_name
        /\ StreamHandle(t).description = t.stream_description
        /\ StreamHandle(t).bitrate = t.stream_bitrate
    BY DEF StreamHandle
  <2> QED
    BY <1>1, <1>2, <2>1, <2>2
<1>5. "tls" \in start.libshout => handle.ca_file = s.ca_file
  BY <1>1 DEF ConfiguredHandle, HandleFields, ServerHandle, StreamHandle, TlsHandle
<1>6. handle.port = IF OfServer("port") = NULL THEN 8000 ELSE Numerals[OfServer("port")]
  BY <1>3, WhatIsTold DEF GetPort, IsNumber
<1> QED
  BY <1>3, <1>4, <1>5, <1>6, WhatIsTold DEF ConfiguredAsWritten, GetUser, True

\* For every configuration file, and every one that was migrated: libshout is told what
\* the file says of the stream and its server, and nothing else.
THEOREM ToldAsWritten == Spec => []ConfiguredAsWritten
BY ToldIsWritten, ValueInvAlways, PTL

\* And whatever the order of its elements and blocks, a process that the file asks to
\* use TLS does not come to connect without.
THEOREM TlsIsKept == Spec => []NeverPlaintext
<1>1. ValueInv => NeverPlaintext
  <2> SUFFICES ASSUME ValueInv, Ready,
                      OfServer("protocol") = "https" \/ OfServer("tls") = "required"
               PROVE  handle.tls \in {"rfc2818", "auto_no_plain"}
    BY DEF NeverPlaintext
  <2> DEFINE s == cfg.server[ServerAt]
  <2>1. handle = ConfiguredHandle /\ TlsAccepted(s)
    BY DEF ValueInv, Ready
  <2>2. s.protocol = "https" \/ s.tls = "required"
    <3>1. NULL # "https" /\ NULL # "required"
      BY SettingsAssumption DEF OneOf
    <3> QED
      BY <3>1, WhatIsTold
  <2>3. GetTls(s) = "required"
    BY <2>2 DEF GetTls
  <2>4. "tls" \in start.libshout
    BY <2>1, <2>3 DEF TlsAccepted
  <2>5. handle.tls = TlsMode(s)
    BY <2>1, <2>4 DEF ConfiguredHandle, HandleFields, ServerHandle, StreamHandle, TlsHandle
  <2> QED
    BY <2>3, <2>5 DEF TlsMode
<1> QED
  BY <1>1, ValueInvAlways, PTL

--------------------------------------------------------------------------------
(* A legacy configuration is migrated, and streams what it did. *)

\* Where a configuration comes from, and the intake of a process that connects.
MigrationInv ==
  /\ pc = "migrate" => start.legacy # NULL
  /\ migrated # NULL =>
       /\ start.legacy # NULL
       /\ migrated = Migrated(ParseConfig(start.legacy))
       /\ file = PrintedFile(migrated)
  /\ pc = "configure" => InForce("intake")
  /\ pc = "connect" =>
       /\ ReadList("intake", file.intake).ok
       /\ cfg["intake"] = Got("intake", ReadList("intake", file.intake).list,
                              OrDefault(Stream.intake))
       /\ Stream.mountpoint # NULL

LEMMA InitMigrationInv == Init => MigrationInv
BY DEF Init, LaunchInit, MigrationInv

LEMMA MigrationInvKept ==
  ASSUME MigrationInv, UNCHANGED <<start, migrated, file, cfg>>,
         pc' = pc \/ pc' \notin {"migrate", "configure", "connect"}
  PROVE  MigrationInv'
<1>1. Stream' = Stream
  BY DEF Stream
<1>2. pc' \in {"migrate", "configure", "connect"} => pc' = pc
  OBVIOUS
<1>3. InForce("intake")' <=> InForce("intake")
  BY DEF InForce
<1>4. (migrated' = Migrated(ParseConfig(start'.legacy)) /\ file' = PrintedFile(migrated'))
        <=> (migrated = Migrated(ParseConfig(start.legacy)) /\ file = PrintedFile(migrated))
  OBVIOUS
<1> QED
  BY <1>1, <1>2, <1>3, <1>4 DEF MigrationInv

LEMMA StepMigrationInv == ValueInv /\ MigrationInv /\ [Next]_vars => MigrationInv'
<1> SUFFICES ASSUME ValueInv, MigrationInv, [Next]_vars PROVE MigrationInv'
  OBVIOUS
<1>1. CASE Migrate
  <2> DEFINE new == Migrated(ParseConfig(start.legacy))
  <2>1. /\ pc = "migrate" /\ pc' = "cmdline" /\ migrated' = new /\ file' = PrintedFile(new)
        /\ start' = start
    BY <1>1 DEF Migrate
  <2>2. start.legacy # NULL
    BY <2>1 DEF MigrationInv
  <2> HIDE DEF new
  <2>3. migrated' = Migrated(ParseConfig(start'.legacy)) /\ file' = PrintedFile(migrated')
    BY <2>1 DEF new
  <2> QED
    BY <2>1, <2>2, <2>3 DEF MigrationInv
<1>2. CASE Reload
  <2>1. /\ FileOk /\ cfg' = ReadFile(file).cfg /\ pc' = "configure"
        /\ start' = start /\ file' = file /\ migrated' = migrated
    BY <1>2 DEF Reload
  <2>2. ReadList("intake", file["intake"]).ok
        /\ cfg'["intake"] = ReadList("intake", file["intake"]).list
    <3>1. "intake" \in FileKinds
      BY DEF FileKinds, Lists
    <3> QED
      BY <2>1, <3>1 DEF FileOk, ReadFile
  <2>3. InForce("intake")'
    BY <2>1, <2>2 DEF InForce
  <2>4. /\ migrated' # NULL => /\ start'.legacy # NULL
                               /\ migrated' = Migrated(ParseConfig(start'.legacy))
                               /\ file' = PrintedFile(migrated')
    BY <2>1 DEF MigrationInv
  <2> QED
    BY <2>1, <2>3, <2>4 DEF MigrationInv
<1>3. CASE Configure
  <2>1. /\ pc = "configure" /\ Configurable /\ pc' = "connect"
        /\ cfg' = [cfg EXCEPT !.intake = Intakes]
        /\ start' = start /\ file' = file /\ migrated' = migrated
    BY <1>3 DEF Configure
  <2>2. DOMAIN cfg = FileKinds /\ InForce("intake")
    BY <2>1 DEF ValueInv, MigrationInv
  <2>3. cfg'["stream"] = cfg["stream"] /\ cfg'["intake"] = Intakes
    BY <2>1, <2>2 DEF FileKinds, Lists
  <2>4. Stream' = Stream
    BY <2>3 DEF Stream
  <2>5. Stream.mountpoint # NULL
    BY <2>1 DEF Configurable, StreamAccepted
  <2>6. /\ ReadList("intake", file.intake).ok
        /\ Intakes = Got("intake", ReadList("intake", file.intake).list,
                         OrDefault(Stream.intake))
    BY <2>2 DEF InForce, Intakes
  <2>7. /\ migrated' # NULL => /\ start'.legacy # NULL
                               /\ migrated' = Migrated(ParseConfig(start'.legacy))
                               /\ file' = PrintedFile(migrated')
    BY <2>1 DEF MigrationInv
  <2> QED
    BY <2>1, <2>3, <2>4, <2>5, <2>6, <2>7 DEF MigrationInv
<1>4. CASE LaunchNext /\ ~Migrate /\ ~Reload /\ ~Configure
  BY <1>4, MigrationInvKept
     DEF LaunchNext, MigrateFails, ParseOption, HelpOrVersion, BadOption, ShuffleFile,
         NoConfigFile, CommandLineDone, ReloadFails, ConfigureFails, Connect, ConnectFails,
         Exit
<1>5. CASE ResourceNext
  <2>1. UNCHANGED <<start, migrated, file, cfg>> /\ pc' \in {"stream", "exited"}
    BY <1>5 DEF ResourceNext, Streaming, launchVars, Exit, NextSong, StreamFile, Answer,
       AskFails, RefreshFails, AnswerUnreadable, Parse, ParseFails, Build, CannotBuild,
       Fopen, FopenFails, DupStderr, QuietStderr, QuietFails, Popen, Restore, TellStdin,
       TellStdinFails, Opened, Query, TellRefresh, TellRefreshFails, TrackEnds, Close, Leave
  <2> QED
    BY <2>1, MigrationInvKept
<1>6. CASE UNCHANGED vars
  BY <1>6, MigrationInvKept DEF vars, launchVars
<1> QED
  BY <1>1, <1>2, <1>3, <1>4, <1>5, <1>6 DEF Next, Ended

LEMMA MigrationInvAlways == Spec => [](ValueInv /\ MigrationInv)
<1>1. Init => ValueInv /\ MigrationInv
  BY InitValueInv, InitMigrationInv
<1>2. ValueInv /\ MigrationInv /\ [Next]_vars => (ValueInv /\ MigrationInv)'
  BY StepValueInv, StepMigrationInv
<1> QED
  BY <1>1, <1>2, PTL DEF Spec

\* What the file says that was printed for a legacy configuration.
OfIntake(e) == ValueAt(file.intake, LastOfName(file.intake, Default), e)

MigratedSays(c) ==
  /\ OfServer("hostname") = Shown(c["server"][1]["hostname"])
  /\ OfServer("password") = Shown(c["server"][1]["password"])
  /\ OfServer("port") = PortShown(c["server"][1])
  /\ OfServer("user") = UserShown(c["server"][1])
  /\ OfStream("mountpoint") = Shown(c["stream"][1]["mountpoint"])
  /\ OfStream("public") = IF c["stream"][1]["public"] THEN Shown("yes") ELSE NULL
  /\ OfStream("intake") = NULL
  /\ OfIntake("filename") = Shown(c["intake"][1]["filename"])
  /\ DOMAIN file.intake = {1} /\ NameOf(file.intake[1]) = Default

LEMMA PrintedSays ==
  ASSUME NEW ez, NEW url, NEW c, MigratedAs(ez, url, c), file = PrintedFile(c),
         Unmarked(Printed(c))
  PROVE  MigratedSays(c)
<1>1. ASSUME NEW kind \in Told
      PROVE  DOMAIN file[kind] = {1} /\ file[kind][1] = PrintedBlock(kind, c[kind][1])
  <2>1. kind \in FileKinds /\ kind # "state"
    BY DEF Told, FileKinds, Lists
  <2>2. DOMAIN c[kind] = {1}
    BY DEF MigratedAs, One
  <2>3. IsSequence(PrintedBlock(kind, c[kind][1]))
    BY ServerPrinted, StreamPrinted, IntakePrinted DEF Told, PrintedBlock
  <2>4. file[kind] = [i \in {1} |-> PrintedBlock(kind, c[kind][i])]
    BY <2>1, <2>2, <2>3, PlainIsRead
  <2> QED
    BY <2>4
<1>2. \A kind \in Told : c[kind][1]["name"] = Default
  BY DEF MigratedAs
<1> DEFINE server == c["server"][1]
           stream == c["stream"][1]
           intake == c["intake"][1]
<1>3. /\ server["name"] = Default /\ stream["name"] = Default /\ intake["name"] = Default
      /\ stream["intake"] = NULL /\ stream["server"] = NULL /\ stream["public"] \in BOOLEAN
  BY <1>2 DEF MigratedAs, Told
<1>4. /\ DOMAIN file["server"] = {1} /\ file["server"][1] = PrintServer(server)
      /\ DOMAIN file["stream"] = {1} /\ file["stream"][1] = PrintStream(stream)
      /\ DOMAIN file["intake"] = {1} /\ file["intake"][1] = PrintIntake(intake)
  BY <1>1 DEF Told, PrintedBlock
<1> HIDE DEF server, stream, intake
<1>5. ServerSays(PrintServer(server), Shown(server["hostname"]), PortShown(server),
                 UserShown(server), Shown(server["password"]))
  BY <1>3, ServerIsSaid
<1>6. StreamSays(PrintStream(stream), Shown(stream["mountpoint"]), Shown(stream["intake"]),
                 Shown(stream["server"]), IF stream["public"] THEN Shown("yes") ELSE NULL)
  BY <1>3, StreamIsSaid
<1>7. IntakeSays(PrintIntake(intake), Shown(intake["filename"]))
  BY <1>3, IntakeIsSaid
<1>8. \A e : OfStream(e) = LastValue(PrintStream(stream), e)
  BY <1>4, <1>6, OneBlockSays DEF OfStream, StreamSays
<1>9. Shown(NULL) = NULL
  BY DEF Shown
<1>10. OfStream("server") = NULL
  BY <1>3, <1>6, <1>8, <1>9 DEF StreamSays
<1>11. OrDefault(OfStream("server")) = Default
  BY <1>10 DEF OrDefault
<1>12. \A e : OfServer(e) = LastValue(PrintServer(server), e)
  BY <1>4, <1>5, <1>11, OneBlockSays DEF OfServer, ServerSays
<1>13. \A e : OfIntake(e) = LastValue(PrintIntake(intake), e)
  BY <1>4, <1>7, OneBlockSays DEF OfIntake, IntakeSays
<1>14. NameOf(file["intake"][1]) = Default
  BY <1>4, <1>7, SaysLittle DEF NameOf, IntakeSays
<1> QED
  BY <1>3, <1>4, <1>5, <1>6, <1>7, <1>8, <1>9, <1>12, <1>13, <1>14
     DEF MigratedSays, ServerSays, StreamSays, IntakeSays, server, stream, intake

\* The intake of a process that connects is the one entry of this file.
LEMMA MigratedIntake ==
  ASSUME ValueInv, MigrationInv, Ready, NEW c, MigratedSays(c)
  PROVE  Intake.filename = OfIntake("filename")
<1> DEFINE list == ReadList("intake", file.intake).list
           wanted == OrDefault(Stream.intake)
<1>1. /\ ReadList("intake", file.intake).ok /\ cfg["intake"] = Got("intake", list, wanted)
      /\ IsSequence(file.intake) /\ \A i \in DOMAIN file.intake : IsSequence(file.intake[i])
  BY DEF MigrationInv, ValueInv, Shaped, Told, Ready
<1>2. "intake" \in Told /\ "filename" \in Plain("intake") /\ Setter["intake"]["filename"] = "buffer"
      /\ "intake" \in Plain("stream") /\ Setter["stream"]["intake"] = "string"
  BY DEF Told, Plain, Elements, Setter, IntakeElements, StreamElements
<1>3. ListMade("intake", file.intake, Len(file.intake), list)
  BY <1>1, <1>2, ListReads
<1>4. Stream.intake = NULL
  <2>1. Stream["intake"] = OfStream("intake")
    BY <1>2, EntriesInForce, MadeIs DEF OfStream
  <2> QED
    BY <2>1 DEF MigratedSays
<1>5. wanted = Default
  BY <1>4 DEF OrDefault
<1> HIDE DEF list, wanted
<1>6. Find(list, Default) # 0
  <2>1. Len(file.intake) \in Nat /\ DOMAIN file.intake = 1..Len(file.intake)
    BY <1>1 DEF IsSequence
  <2>2. 1 \in 1..Len(file.intake) /\ NameOf(file.intake[1]) = Default /\ Len(file.intake) = 1
    <3> DEFINE n == Len(file.intake)
    <3>1. DOMAIN file.intake = {1} /\ NameOf(file.intake[1]) = Default
      BY DEF MigratedSays
    <3>2. n \in Nat /\ 1..n = {1}
      BY <2>1, <3>1
    <3> HIDE DEF n
    <3>3. n = 1
      <4>1. 1 \in 1..n
        BY <3>2
      <4>2. n \in 1..n
        BY <3>2, <4>1
      <4> QED
        BY <3>2, <4>2
    <3> QED
      BY <3>1, <3>2, <3>3 DEF n
  <2>3. \E i \in DOMAIN list : list[i].name = Default
    BY <1>3, <2>2 DEF ListMade
  <2>4. IsSequence(list)
    BY <1>3 DEF ListMade, Entries
  <2> QED
    BY <2>3, <2>4, FindFinds
<1>7. cfg["intake"] = list
  BY <1>1, <1>5, <1>6 DEF Got
<1>8. Intake = list[Find(list, Default)]
  BY <1>5, <1>6, <1>7 DEF Intake, Intakes, Got, wanted
<1>9. Made("intake", file.intake, LastOfName(file.intake, Default), "filename",
           Intake["filename"])
  BY <1>1, <1>2, <1>3, <1>6, <1>8, EntryIsWritten
<1> QED
  BY <1>2, <1>9, MadeIs DEF OfIntake

\* A value that was accepted, or that was not.
LEMMA OutcomeIs ==
  /\ \A v : Outcome("string", v, NULL) \in {v, NULL}
  /\ \A v : v \notin DOMAIN Truncated => Outcome("buffer", v, NULL) = Shown(v)
  /\ \A v : Outcome("port", v, 0)
              = IF IsNumber(v, 1, 65535) THEN Numerals[v] ELSE 0
<1>1. ASSUME NEW v PROVE Outcome("string", v, NULL) \in {v, NULL}
  <2>1. Converted("string", v) = v
    BY DEF Converted
  <2> QED
    BY <2>1 DEF Outcome
<1>2. ASSUME NEW v, v \notin DOMAIN Truncated PROVE Outcome("buffer", v, NULL) = Shown(v)
  <2>1. Converted("buffer", v) = v
    BY DEF Converted
  <2>2. Accepts("buffer", << >>, 1, v) <=> v # NoValue
    BY <1>2 DEF Accepts, FitsBuffer, OneOf
  <2> QED
    BY <2>1, <2>2 DEF Outcome, Shown
<1>3. ASSUME NEW v
      PROVE  Outcome("port", v, 0) = IF IsNumber(v, 1, 65535) THEN Numerals[v] ELSE 0
  <2>1. Converted("port", v) = Numerals[v]
    BY DEF Converted
  <2>2. IsNumber(v, 1, 65535) => v # NoValue
    BY SettingsAssumption DEF IsNumber
  <2>3. Accepts("port", << >>, 1, v) <=> IsNumber(v, 1, 65535)
    BY <2>2 DEF Accepts, OneOf
  <2> QED
    BY <2>1, <2>3 DEF Outcome
<1> QED
  BY <1>1, <1>2, <1>3

\* For every legacy configuration that is migrated, and printed without markup: ezstream
\* streams what it said, to where it said and as whom.
THEOREM MigratedStreamsOn == Spec => []MigratedStreams
<1>1. ValueInv /\ MigrationInv => MigratedStreams
  <2> SUFFICES ASSUME ValueInv, MigrationInv, Ready, migrated # NULL, PrintedPlainly
               PROVE  MigratedStreams
    BY DEF MigratedStreams
  <2> DEFINE legacy == start.legacy
             ez == ParseConfig(legacy)
             url == UrlParts(Given0("url"))
             server == migrated["server"][1]
             stream == migrated["stream"][1]
             intake == migrated["intake"][1]
  <2>1. /\ legacy # NULL /\ migrated = Migrated(ez) /\ file = PrintedFile(migrated)
        /\ IsSequence(legacy.elements) /\ Stream.mountpoint # NULL
    BY LaunchAssumption DEF ValueInv, MigrationInv, Ready
  <2>2. ez.set["url"] # NULL /\ MigratedAs(ez, UrlParts(ez.set["url"]), migrated)
    BY <2>1, MigratedLists
  <2>3. \A e \in Elements0 : AsGiven(legacy.elements, e, ez.set[e])
    BY <2>1, <2>2, LegacyRead
  <2>4. \A e \in Elements0 : ez.set[e] = Given0(e)
    BY <2>3 DEF AsGiven, Given0
  <2>5. {"url", "sourceuser", "sourcepassword", "filename", "svrinfopublic"} \subseteq Elements0
    BY DEF Elements0, Strings0, Switches0
  <2>6. MigratedAs(ez, url, migrated)
    BY <2>2, <2>4, <2>5
  <2>7. MigratedSays(migrated)
    BY <2>1, <2>6, PrintedSays DEF PrintedPlainly
  <2>8. ConfiguredAsWritten
    BY ToldIsWritten
  <2>9. \A e \in Elements0 : Given0(e) # NoValue \/ Given0(e) = NULL
    BY <2>3, <2>4 DEF AsGiven
  <2> HIDE DEF ez, url
  <2>10. /\ server["hostname"] = Outcome("buffer", url.host, NULL) /\ server["hostname"] # NULL
         /\ server["port"] = Outcome("port", url.port, 0)
         /\ server["user"] = From0Made("buffer", ez, "sourceuser")
         /\ server["password"] = From0Made("buffer", ez, "sourcepassword")
         /\ stream["mountpoint"] = Outcome("string", url.mount, NULL)
         /\ stream["public"] = (Value0(ez, "svrinfopublic") = 1)
         /\ intake["filename"] = IF ez.set["filename"] = "stdin" THEN NULL
                                 ELSE From0Made("buffer", ez, "filename")
    BY <2>6 DEF MigratedAs
  <2> HIDE DEF legacy, server, stream, intake
  <2>11. /\ OfServer("hostname") = Shown(server["hostname"])
         /\ OfServer("password") = Shown(server["password"])
         /\ OfServer("port") = PortShown(server)
         /\ OfServer("user") = UserShown(server)
         /\ OfStream("mountpoint") = Shown(stream["mountpoint"])
         /\ OfStream("public") = IF stream["public"] THEN Shown("yes") ELSE NULL
         /\ OfIntake("filename") = Shown(intake["filename"])
    BY <2>7 DEF MigratedSays, server, stream, intake
  <2>12. /\ handle.host = OfServer("hostname") /\ handle.password = OfServer("password")
         /\ handle.port = IF OfServer("port") = NULL THEN 8000 ELSE Numerals[OfServer("port")]
         /\ handle.user = IF OfServer("user") = NULL THEN "source" ELSE OfServer("user")
         /\ handle.mount = OfStream("mountpoint")
         /\ handle.public = (OfStream("public") \in True)
    BY <2>8 DEF ConfiguredAsWritten, True
  <2>13. Shown(NULL) = NULL /\ \A v : Shown(Shown(v)) = Shown(v)
    BY DEF Shown
  <2>14. \A e \in Elements0 : Shown(Given0(e)) = Given0(e)
    BY <2>9 DEF Shown
  <2>15. \A e \in Elements0 :
           Given0(e) \notin DOMAIN Truncated => From0Made("buffer", ez, e) = Given0(e)
    BY <2>4, <2>14, OutcomeIs DEF From0Made
  <2>16. handle.mount = url.mount
    <3>1. Stream.mountpoint = OfStream("mountpoint")
      BY WhatIsTold
    <3> QED
      BY <2>1, <2>10, <2>11, <2>12, <2>13, <3>1, OutcomeIs DEF Shown
  <2>17. url.host \notin DOMAIN Truncated => handle.host = url.host
    BY <2>10, <2>11, <2>12, <2>13, OutcomeIs DEF Shown
  <2>18. handle.port = IF IsNumber(url.port, 1, 65535) THEN Numerals[url.port] ELSE 8000
    <3> DEFINE n == server["port"]
    <3>1. n = IF IsNumber(url.port, 1, 65535) THEN Numerals[url.port] ELSE 0
      BY <2>10, OutcomeIs
    <3>2. PortShown(server) = IF GetPort(server) # 8000 THEN Shown(Numeral(GetPort(server)))
                              ELSE NULL
      BY DEF PortShown
    <3>3. GetPort(server) = IF n = 0 THEN 8000 ELSE n
      BY DEF GetPort
    <3> HIDE DEF n
    <3>4. CASE ~IsNumber(url.port, 1, 65535) \/ n = 8000
      <4>1. PortShown(server) = NULL
        BY <3>1, <3>2, <3>3, <3>4
      <4> QED
        BY <2>11, <2>12, <3>1, <3>4, <4>1
    <3>5. CASE IsNumber(url.port, 1, 65535) /\ n # 8000
      <4>1. url.port \in DOMAIN Numerals /\ n = Numerals[url.port] /\ n # 0
        BY <3>1, <3>5 DEF IsNumber
      <4>2. Numeral(n) \in DOMAIN Numerals /\ Numerals[Numeral(n)] = n
        BY <4>1 DEF Numeral
      <4>3. Numeral(n) # NoValue /\ Numeral(n) # NULL
        BY <4>2, SettingsAssumption
      <4>4. PortShown(server) = Numeral(n)
        BY <3>2, <3>3, <3>5, <4>1, <4>3 DEF Shown
      <4> QED
        BY <2>11, <2>12, <3>5, <4>1, <4>2, <4>3, <4>4
    <3> QED
      BY <3>4, <3>5
  <2>19. Given0("sourcepassword") \notin DOMAIN Truncated
           => handle.password = Given0("sourcepassword")
    BY <2>5, <2>10, <2>11, <2>12, <2>14, <2>15
  <2>20. Given0("sourceuser") \notin DOMAIN Truncated
           => handle.user = IF Given0("sourceuser") = NULL THEN "source"
                            ELSE Given0("sourceuser")
    <3> SUFFICES ASSUME Given0("sourceuser") \notin DOMAIN Truncated
                 PROVE  handle.user = IF Given0("sourceuser") = NULL THEN "source"
                                      ELSE Given0("sourceuser")
      OBVIOUS
    <3> DEFINE user == Given0("sourceuser")
    <3>1. server["user"] = user /\ Shown(user) = user
      BY <2>5, <2>10, <2>14, <2>15
    <3> HIDE DEF user
    <3>2. GetUser(server) = IF user = NULL THEN "source" ELSE user
      BY <3>1 DEF GetUser
    <3>3. UserShown(server) = IF user = NULL \/ user = "source" THEN NULL ELSE user
      BY <3>1, <3>2 DEF UserShown
    <3> QED
      BY <2>11, <2>12, <3>3 DEF user
  <2>21. handle.public
           = (Given0("svrinfopublic") # NULL /\ Numerals[Given0("svrinfopublic")] = 1)
    <3> DEFINE public == Given0("svrinfopublic") # NULL /\ Numerals[Given0("svrinfopublic")] = 1
    <3>1. (Value0(ez, "svrinfopublic") = 1) = public
      BY <2>4, <2>5 DEF Value0
    <3> HIDE DEF public
    <3>2. Shown("yes") = "yes" /\ "yes" \in True /\ NULL \notin True
      BY SettingsAssumption DEF Shown, True
    <3>3. (OfStream("public") \in True) = stream["public"]
      <4> DEFINE shown == stream["public"]
      <4>1. shown \in BOOLEAN /\ OfStream("public") = IF shown THEN Shown("yes") ELSE NULL
        BY <2>10, <2>11
      <4> SUFFICES (OfStream("public") \in True) = shown
        OBVIOUS
      <4> HIDE DEF shown
      <4>2. CASE shown = TRUE
        BY <3>2, <4>1, <4>2
      <4>3. CASE shown = FALSE
        BY <3>2, <4>1, <4>3
      <4> QED
        BY <4>1, <4>2, <4>3
    <3> QED
      BY <2>10, <2>12, <3>1, <3>3 DEF public
  <2>22. Intake.filename = IF Given0("filename") = "stdin" THEN NULL ELSE Given0("filename")
    <3>1. Intake.filename = Shown(intake["filename"])
      BY <2>7, <2>11, MigratedIntake
    <3>2. Given0("filename") # NULL => Given0("filename") \notin DOMAIN Truncated
      <4>1. Given0("filename") # NULL => ElementOk("filename", Given0("filename"))
        BY <2>3, <2>4, <2>5 DEF AsGiven
      <4>2. "filename" \notin Switches0 \cup {"metadata_refreshinterval", "reconnect_tries",
                                             "metadata_format"}
        BY DEF Switches0
      <4> QED
        BY <4>1, <4>2 DEF ElementOk
    <3>3. Given0("filename") = NULL => From0Made("buffer", ez, "filename") = NULL
      BY <2>4, <2>5 DEF From0Made
    <3>4. From0Made("buffer", ez, "filename") = Given0("filename")
      BY <2>5, <2>15, <3>2, <3>3
    <3> QED
      BY <2>4, <2>5, <2>10, <2>13, <2>14, <3>1, <3>4
  <2> QED
    BY <2>16, <2>17, <2>18, <2>19, <2>20, <2>21, <2>22 DEF MigratedStreams, url
<1> QED
  BY <1>1, MigrationInvAlways, PTL

--------------------------------------------------------------------------------
(* The decoders that ezstream-cfgmigrate makes. *)

\* An entry, and the elements of a list that has it behind all others.
Dec(n, p, x) == [name |-> n, program |-> p, file_ext |-> x]

LEMMA NewDecoder == [NewEntry("decoder") EXCEPT !.name = Default] = Dec(Default, NULL, << >>)
<1>1. NewEntry("decoder") = [e \in DOMAIN DecoderElements |-> Unset(DecoderElements[e])]
  BY DEF NewEntry, Setter
<1>2. DOMAIN DecoderElements = {"name", "program", "file_ext"}
  BY DEF DecoderElements
<1>3. /\ Unset(DecoderElements["name"]) = Default /\ Unset(DecoderElements["program"]) = NULL
      /\ Unset(DecoderElements["file_ext"]) = << >>
  BY DEF DecoderElements, Unset
<1> DEFINE entry == NewEntry("decoder")
<1>4. /\ entry = [e \in {"name", "program", "file_ext"} |-> entry[e]]
      /\ entry["name"] = Default /\ entry["program"] = NULL /\ entry["file_ext"] = << >>
  BY <1>1, <1>2, <1>3
<1> HIDE DEF entry
<1>5. [entry EXCEPT !.name = Default] = Dec(Default, NULL, << >>)
  BY <1>4 DEF Dec
<1> QED
  BY <1>5 DEF entry

\* The last entry is replaced.
LEMMA LastReplaced ==
  ASSUME NEW list, IsSequence(list), NEW x, NEW y
  PROVE  [Append(list, x) EXCEPT ![Len(list) + 1] = y] = Append(list, y)
<1> DEFINE old == Append(list, x)
           new == Append(list, y)
           cur == Len(list) + 1
<1>1. /\ DOMAIN old = 1..cur /\ DOMAIN new = 1..cur /\ DOMAIN list = 1..Len(list)
      /\ Len(list) \in Nat /\ new[cur] = y
      /\ \A i \in DOMAIN list : old[i] = list[i] /\ new[i] = list[i]
      /\ IsSequence(new) /\ IsSequence(old)
  BY Appended
<1>2. new = [i \in 1..cur |-> new[i]] /\ old = [i \in 1..cur |-> old[i]]
  <2>1. \A s : IsSequence(s) => s = [i \in DOMAIN s |-> s[i]]
    BY DEF IsSequence
  <2> HIDE DEF new, old, cur
  <2> QED
    BY <1>1, <2>1
<1>3. \A i \in 1..cur : i # cur => i \in DOMAIN list
  BY <1>1
<1> HIDE DEF old, new, cur
<1>4. \A i \in 1..cur : new[i] = IF i = cur THEN y ELSE old[i]
  BY <1>1, <1>3
<1>5. [old EXCEPT ![cur] = y] = [i \in 1..cur |-> IF i = cur THEN y ELSE old[i]]
  BY <1>1, <1>2
<1>6. [old EXCEPT ![cur] = y] = new
  BY <1>2, <1>4, <1>5
<1> QED
  BY <1>6 DEF old, new, cur

\* An element of the last entry is set to a value.
Becomes(x, e, v, y) == y = [x EXCEPT ![e] = v]
LastBecomes(list, x, e, v, y) ==
  [Append(list, x) EXCEPT ![Len(list) + 1][e] = v] = Append(list, y)

LEMMA LastSet ==
  ASSUME NEW list, IsSequence(list), NEW x, NEW e, NEW v, NEW y, Becomes(x, e, v, y)
  PROVE  LastBecomes(list, x, e, v, y)
<1> DEFINE more == Append(list, x)
           cur == Len(list) + 1
<1>1. more[cur] = x
  BY Appended
<1>2. [more EXCEPT ![cur][e] = v] = [more EXCEPT ![cur] = [more[cur] EXCEPT ![e] = v]]
  OBVIOUS
<1>3. [more EXCEPT ![cur] = y] = Append(list, y)
  BY LastReplaced
<1> QED
  BY <1>1, <1>2, <1>3 DEF Becomes, LastBecomes

\* What is made of the settings of a decoder: its program, its name if that is free, and
\* an extension that no other has.
LEMMA ProgramIsSet ==
  ASSUME NEW list, IsSequence(list), NEW n, NEW p, NEW x, NEW v, v # NoValue
  PROVE  Set("decoder", Append(list, Dec(n, p, x)), Len(list) + 1, "program", v)
           = [ok |-> TRUE, list |-> Append(list, Dec(n, v, x))]
<1> DEFINE more == Append(list, Dec(n, p, x))
           cur == Len(list) + 1
           e == "program"
<1>1. Setter["decoder"][e] = "string"
  BY DEF Setter, DecoderElements
<1>2. Accepts("string", more, cur, v) /\ Converted("string", v) = v
  BY DEF Accepts, Converted, OneOf
<1>3. Set("decoder", more, cur, e, v) = [ok |-> TRUE, list |-> [more EXCEPT ![cur][e] = v]]
  BY <1>1, <1>2 DEF Set
<1> DEFINE old == Dec(n, p, x)
           new == Dec(n, v, x)
<1>4. Becomes(old, e, v, new)
  BY DEF Dec, Becomes
<1> HIDE DEF e, old, new
<1>5. LastBecomes(list, old, e, v, new)
  BY <1>4, LastSet
<1> QED
  BY <1>3, <1>5 DEF e, old, new, LastBecomes

LEMMA DecoderName ==
  ASSUME NEW list, IsSequence(list), NEW n, NEW p, NEW x, NEW v, v # NoValue,
         \A i \in DOMAIN list : list[i].name # v
  PROVE  Set("decoder", Append(list, Dec(n, p, x)), Len(list) + 1, "name", v)
           = [ok |-> TRUE, list |-> Append(list, Dec(v, p, x))]
<1> DEFINE more == Append(list, Dec(n, p, x))
           cur == Len(list) + 1
           e == "name"
<1>1. Setter["decoder"][e] = "name"
  BY DEF Setter, DecoderElements
<1>2. NameFree(more, cur, v)
  BY Appended DEF NameFree
<1>3. Accepts("name", more, cur, v) /\ Converted("name", v) = v
  BY <1>2 DEF Accepts, Converted, OneOf
<1>4. Set("decoder", more, cur, e, v) = [ok |-> TRUE, list |-> [more EXCEPT ![cur][e] = v]]
  BY <1>1, <1>3 DEF Set
<1> DEFINE old == Dec(n, p, x)
           new == Dec(v, p, x)
<1>5. Becomes(old, e, v, new)
  BY DEF Dec, Becomes
<1> HIDE DEF e, old, new
<1>6. LastBecomes(list, old, e, v, new)
  BY <1>5, LastSet
<1> QED
  BY <1>4, <1>6 DEF e, old, new, LastBecomes

\* No entry of a list has an extension.
HasNot(list, m) ==
  \A i \in DOMAIN list : \A j \in DOMAIN list[i].file_ext : list[i].file_ext[j] # m

LEMMA DecoderMatch ==
  ASSUME NEW list, IsSequence(list), NEW n, NEW p, NEW m, m # NoValue, HasNot(list, m)
  PROVE  Set("decoder", Append(list, Dec(n, p, << >>)), Len(list) + 1, "file_ext", m)
           = [ok |-> TRUE, list |-> Append(list, Dec(n, p, <<m>>))]
<1> DEFINE x == Dec(n, p, << >>)
           more == Append(list, x)
           cur == Len(list) + 1
           e == "file_ext"
           one == <<m>>
<1>1. Setter["decoder"][e] = "ext"
  BY DEF Setter, DecoderElements
<1>2. Accepts("ext", more, cur, m)
  BY DEF Accepts, OneOf
<1>3. /\ DOMAIN more = DOMAIN list \cup {cur} /\ more[cur] = x
      /\ \A i \in DOMAIN list : more[i] = list[i]
  <2>1. Len(list) \in Nat /\ DOMAIN list = 1..Len(list) /\ DOMAIN more = 1..(Len(list) + 1)
    BY Appended
  <2>2. 1..(Len(list) + 1) = (1..Len(list)) \cup {Len(list) + 1}
    BY <2>1
  <2> QED
    BY <2>1, <2>2, Appended
<1>4. x.file_ext = << >> /\ DOMAIN x.file_ext = {}
  BY DEF Dec
<1>5. Append(x.file_ext, m) = one
  <2>1. Append(<< >>, m) = <<m>>
    OBVIOUS
  <2> QED
    BY <1>4, <2>1
<1> DEFINE new == Dec(n, p, one)
<1>6. Becomes(x, e, one, new)
  BY DEF Dec, Becomes
<1> HIDE DEF more, x, cur, one, new
<1>7. FindExt(more, m) = 0
  BY <1>3, <1>4 DEF FindExt, HasNot
<1>8. Relocated(more, cur, m) = [more EXCEPT ![cur].file_ext = Append(more[cur].file_ext, m)]
  BY <1>7 DEF Relocated
<1>9. Relocated(more, cur, m) = [more EXCEPT ![cur][e] = one]
  BY <1>3, <1>5, <1>8
<1>10. Set("decoder", more, cur, e, m) = [ok |-> TRUE, list |-> Relocated(more, cur, m)]
  BY <1>1, <1>2 DEF Set
<1> HIDE DEF e
<1>11. LastBecomes(list, x, e, one, new)
  BY <1>6, LastSet
<1>12. Set("decoder", more, cur, e, m) = [ok |-> TRUE, list |-> Append(list, new)]
  BY <1>9, <1>10, <1>11 DEF more, cur, LastBecomes
<1> QED
  BY <1>12 DEF e, one, more, x, cur, new

\* A new entry is the last, and can be taken away again.
LEMMA NotFound ==
  ASSUME NEW list, NEW n, \A i \in DOMAIN list : list[i].name # n
  PROVE  Find(list, n) = 0
BY DEF Find

LEMMA FoundLast ==
  ASSUME NEW list, IsSequence(list), NEW p, NEW x, NEW n,
         \A i \in DOMAIN list : list[i].name # n
  PROVE  Find(Append(list, Dec(n, p, x)), n) = Len(list) + 1
<1> DEFINE more == Append(list, Dec(n, p, x))
           cur == Len(list) + 1
<1>1. /\ IsSequence(more) /\ DOMAIN more = 1..cur /\ DOMAIN list = 1..Len(list)
      /\ Len(list) \in Nat /\ more[cur] = Dec(n, p, x)
      /\ \A i \in DOMAIN list : more[i] = list[i]
  BY Appended
<1>2. more[cur].name = n /\ cur \in DOMAIN more
  BY <1>1 DEF Dec
<1>3. \A i \in DOMAIN more : i # cur => i \in DOMAIN list
  BY <1>1
<1> HIDE DEF more, cur
<1>4. Find(more, n) # 0 => Find(more, n) \in DOMAIN more /\ more[Find(more, n)].name = n
  BY <1>1, FindFinds
<1>5. Find(more, n) # 0
  BY <1>1, <1>2, FindFinds
<1>6. Find(more, n) = cur
  BY <1>1, <1>3, <1>4, <1>5
<1> QED
  BY <1>6 DEF more, cur

LEMMA LastRemoved ==
  ASSUME NEW list, IsSequence(list), NEW x
  PROVE  RemoveAt(Append(list, x), Len(list) + 1) = list
<1> DEFINE S == {list[i] : i \in DOMAIN list} \cup {x}
           more == Append(list, x)
           n == Len(list)
<1>1. list \in Seq(S) /\ x \in S
  BY DEF IsSequence
<1> HIDE DEF S
<1>2. more \in Seq(S) /\ Len(more) = n + 1 /\ n \in Nat /\ DOMAIN list = 1..n
      /\ \A i \in 1..n : more[i] = list[i]
  BY <1>1
<1> HIDE DEF more
<1>3. SubSeq(more, 1, (n + 1) - 1) \in Seq(S) /\ SubSeq(more, 1, (n + 1) - 1) = list
  BY <1>1, <1>2
<1>4. SubSeq(more, (n + 1) + 1, Len(more)) = << >>
  BY <1>2
<1>5. list \o << >> = list
  BY <1>1
<1> QED
  BY <1>3, <1>4, <1>5 DEF RemoveAt, more

\* An <encdec> block that has an extension decoded, and its decoder.
Decoding(ed) == ed["decode"] # NULL /\ ed["match"] # NULL
DecoderOf(ed) == Dec(NewFormat(ed["format"]), ed["decode"], <<ed["match"]>>)

\* A block has a format; what it has is not empty, and was found good.
Usable(ed) ==
  /\ NewFormat(ed["format"]) \notin {NULL, NoValue, Default} /\ ed["format"] # NULL
  /\ ed["decode"] # NULL => ed["decode"] # NoValue /\ DecoderLine(ed["decode"])
  /\ ed["match"] # NULL => ed["match"] # NoValue

NotNamed(list, f) == \A i \in DOMAIN list : list[i].name \notin {f, Default}

\* A decoder that has no extension is not valid.
LEMMA DecoderIsValid ==
  ASSUME NEW f, NEW p, p # NULL, DecoderLine(p), NEW m
  PROVE  Valid("decoder", Dec(f, p, <<m>>)) /\ ~Valid("decoder", Dec(f, p, << >>))
<1>1. <<m>> # << >>
  OBVIOUS
<1>2. \A x : Valid("decoder", Dec(f, p, x)) <=> x # << >>
  BY DEF Valid, DecoderValid, DecoderLine, Dec
<1> QED
  BY <1>1, <1>2

\* Its program is set first, its name then, and the extension in the end.
LEMMA DecoderSettings ==
  ASSUME NEW list, IsSequence(list), NEW f, f # NoValue, NotNamed(list, f),
         NEW p, p # NoValue, NEW t, IsSequence(t)
  PROVE  SetAll("decoder", Append(list, Dec(Default, NULL, << >>)), Len(list) + 1,
                <<<<"program", p>>>> \o <<<<"name", f>>>> \o t)
           = SetAll("decoder", Append(list, Dec(f, p, << >>)), Len(list) + 1, t)
<1> DEFINE kind == "decoder"
           cur == Len(list) + 1
           a == <<"program", p>>
           b == <<"name", f>>
           l0 == Append(list, Dec(Default, NULL, << >>))
           l1 == Append(list, Dec(Default, p, << >>))
           l2 == Append(list, Dec(f, p, << >>))
<1>1. IsSequence(<<a>>) /\ IsSequence(<<b>>) /\ IsSequence(<<a>> \o <<b>>)
  BY Short, Joined
<1>2. NextSetting(<<kind, cur>>, l0, a) = l1
  <2>1. Set(kind, l0, cur, "program", p) = [ok |-> TRUE, list |-> l1]
    BY ProgramIsSet
  <2>2. NextSetting(<<kind, cur>>, l0, a) = Set(kind, l0, cur, "program", p).list
    BY DEF NextSetting
  <2> HIDE DEF l0, l1, kind, cur, a
  <2> QED
    BY <2>1, <2>2
<1>3. NextSetting(<<kind, cur>>, l1, b) = l2
  <2>1. Set(kind, l1, cur, "name", f) = [ok |-> TRUE, list |-> l2]
    BY DecoderName DEF NotNamed
  <2>2. NextSetting(<<kind, cur>>, l1, b) = Set(kind, l1, cur, "name", f).list
    BY DEF NextSetting
  <2> HIDE DEF l1, l2, kind, cur, b
  <2> QED
    BY <2>1, <2>2
<1> HIDE DEF kind, cur, a, b, l0, l1, l2
<1>4. SetAll(kind, l0, cur, <<a>> \o <<b>>) = SetAll(kind, SetAll(kind, l0, cur, <<a>>), cur, <<b>>)
  BY <1>1, SetsTwice
<1>5. SetAll(kind, l0, cur, <<a>> \o <<b>>) = l2
  BY <1>2, <1>3, <1>4, SetsOnce
<1>6. SetAll(kind, l0, cur, (<<a>> \o <<b>>) \o t) = SetAll(kind, l2, cur, t)
  BY <1>1, <1>5, SetsTwice
<1> QED
  BY <1>6 DEF kind, cur, a, b, l0, l2

LEMMA DecoderAdded ==
  ASSUME NEW list, IsSequence(list), NEW ed, Usable(ed), NotNamed(list, NewFormat(ed["format"])),
         ed["match"] # NULL => HasNot(list, ed["match"])
  PROVE  AddDecoder(list, ed) = IF Decoding(ed) THEN Append(list, DecoderOf(ed)) ELSE list
<1>1. CASE ed["decode"] = NULL
  BY <1>1 DEF AddDecoder, Decoding
<1>2. CASE ed["decode"] # NULL
  <2> DEFINE f == NewFormat(ed["format"])
             p == ed["decode"]
             m == ed["match"]
             cur == Len(list) + 1
             first == Dec(Default, NULL, << >>)
             match == IF m = NULL THEN << >> ELSE <<<<"file_ext", m>>>>
             els == <<<<"program", p>>>> \o <<<<"name", f>>>> \o match
             made == SetAll("decoder", Append(list, first), cur, els)
  <2>1. f # NoValue /\ f # Default /\ p # NoValue /\ DecoderLine(p) /\ p # NULL
        /\ (m # NULL => m # NoValue /\ HasNot(list, m))
    BY <1>2 DEF Usable
  <2>2. Find(list, f) = 0 /\ Find(list, Default) = 0
    BY NotFound DEF NotNamed
  <2>3. Got("decoder", list, Default) = Append(list, first)
    BY <2>2, NewDecoder DEF Got
  <2>4. Find(Append(list, first), Default) = cur
    BY FoundLast DEF NotNamed
  <2>5. AddDecoder(list, ed) = Validated("decoder", made, cur)
    <3>1. ed["format"] # NULL /\ ed["decode"] # NULL /\ f # NULL
      BY <1>2 DEF Usable
    <3> DEFINE begun == Got("decoder", list, Default)
               with(place) == Validated("decoder", SetAll("decoder", begun, place, els), place)
    <3>2. AddDecoder(list, ed) = with(Find(begun, Default))
      <4> HIDE DEF begun
      <4> QED
        BY <2>2, <3>1 DEF AddDecoder, begun
    <3>3. Find(begun, Default) = cur
      BY <2>3, <2>4
    <3>4. with(cur) = Validated("decoder", made, cur)
      BY <2>3
    <3> HIDE DEF with, begun, made, cur
    <3> QED
      BY <3>2, <3>3, <3>4
  <2>6. IsSequence(match)
    BY Short
  <2>7. made = SetAll("decoder", Append(list, Dec(f, p, << >>)), cur, match)
    <3> HIDE DEF f, p, match
    <3> QED
      BY <2>1, <2>6, DecoderSettings DEF f
  <2>8. CASE m # NULL
    <3> DEFINE last == Dec(f, p, <<m>>)
               el == <<"file_ext", m>>
               bare == Append(list, Dec(f, p, << >>))
               new == Append(list, last)
    <3>1. match = <<el>>
      BY <2>8
    <3>2. NextSetting(<<"decoder", cur>>, bare, el) = new
      <4>1. Set("decoder", bare, cur, "file_ext", m) = [ok |-> TRUE, list |-> new]
        <5> HIDE DEF f, p, m
        <5> QED
          BY <2>1, <2>8, DecoderMatch
      <4>2. NextSetting(<<"decoder", cur>>, bare, el)
              = Set("decoder", bare, cur, "file_ext", m).list
        BY DEF NextSetting
      <4> HIDE DEF bare, new, cur, el
      <4> QED
        BY <4>1, <4>2
    <3>3. made = NextSetting(<<"decoder", cur>>, bare, el)
      <4> HIDE DEF made, match, el, bare, new, last, f, p, m
      <4> QED
        BY <2>7, <3>1, SetsOnce DEF bare
    <3>4. new[cur] = last /\ Valid("decoder", last)
      BY <2>1, Appended, DecoderIsValid
    <3>5. DecoderOf(ed) = last /\ Decoding(ed)
      BY <1>2, <2>8 DEF DecoderOf, Decoding
    <3> HIDE DEF made, new, last, bare
    <3>6. Validated("decoder", made, cur) = new
      BY <3>2, <3>3, <3>4 DEF Validated
    <3> QED
      BY <2>5, <3>5, <3>6 DEF new
  <2>9. CASE m = NULL
    <3> DEFINE last == Dec(f, p, << >>)
               new == Append(list, last)
    <3>1. made = SetAll("decoder", new, cur, << >>)
      BY <2>7, <2>9
    <3>2. SetAll("decoder", new, cur, << >>) = new
      <4> DEFINE of == <<"decoder", cur>>
      <4>1. SetAll("decoder", new, cur, << >>) = InSettings!LeftFold(of, new, << >>)
        BY DEF SetAll, InSettings!LeftFold, FoldLeft, InSettings!FoldLeft, MapThenFoldSet,
               InSettings!MapThenFoldSet, Max, InSettings!Max
      <4> HIDE DEF of, new
      <4> QED
        BY <4>1, InSettings!FoldOfNone
    <3>3. new[cur] = last /\ ~Valid("decoder", last)
      BY <2>1, Appended, DecoderIsValid
    <3>4. RemoveAt(new, cur) = list
      BY LastRemoved
    <3> HIDE DEF made, new, last
    <3>5. Validated("decoder", made, cur) = list
      BY <3>1, <3>2, <3>3, <3>4 DEF Validated
    <3> QED
      BY <2>5, <2>9, <3>5 DEF Decoding
  <2> QED
    BY <2>8, <2>9
<1> QED
  BY <1>1, <1>2

--------------------------------------------------------------------------------
(* The decoders of all <encdec> blocks. *)

NextDecoder(c, l, ed) == AddDecoder(l, ed)
InDecoders == INSTANCE FoldLaws WITH op <- NextDecoder

\* Each block is for a format and an extension of its own.
Apart(eds) ==
  /\ IsSequence(eds)
  /\ \A i \in DOMAIN eds : Usable(eds[i])
  /\ \A i, j \in DOMAIN eds :
       \/ NewFormat(eds[i]["format"]) = NewFormat(eds[j]["format"])
       \/ eds[i]["match"] = eds[j]["match"]
       => i = j

\* The decoders of the first k blocks.
DecodersOf(eds, k, list) ==
  /\ IsSequence(list)
  /\ \A i \in DOMAIN list : \E j \in 1..k : Decoding(eds[j]) /\ list[i] = DecoderOf(eds[j])
  /\ \A j \in 1..k : Decoding(eds[j]) => \E i \in DOMAIN list : list[i] = DecoderOf(eds[j])
  /\ \A i, j \in DOMAIN list :
       list[i].name = list[j].name \/ list[i].file_ext[1] = list[j].file_ext[1] => i = j

LEMMA DecoderHas ==
  ASSUME NEW ed
  PROVE  /\ DecoderOf(ed).name = NewFormat(ed["format"])
         /\ DecoderOf(ed).program = ed["decode"]
         /\ DOMAIN DecoderOf(ed).file_ext = {1} /\ DecoderOf(ed).file_ext[1] = ed["match"]
BY DEF DecoderOf, Dec

\* The next block has nothing in common with those before.
LEMMA NextIsNew ==
  ASSUME NEW eds, Apart(eds), NEW k \in Nat, k + 1 \in DOMAIN eds, 1..k \subseteq DOMAIN eds,
         NEW list, DecodersOf(eds, k, list)
  PROVE  /\ NotNamed(list, NewFormat(eds[k + 1]["format"]))
         /\ eds[k + 1]["match"] # NULL => HasNot(list, eds[k + 1]["match"])
<1> DEFINE f == NewFormat(eds[k + 1]["format"])
           m == eds[k + 1]["match"]
<1>1. ASSUME NEW i \in DOMAIN list
      PROVE  /\ list[i].name \notin {f, Default}
             /\ \A j \in DOMAIN list[i].file_ext : list[i].file_ext[j] # m
  <2>1. PICK j \in 1..k : list[i] = DecoderOf(eds[j])
    BY DEF DecodersOf
  <2>2. j \in DOMAIN eds /\ j # k + 1
    OBVIOUS
  <2>3. NewFormat(eds[j]["format"]) # f /\ eds[j]["match"] # m
    BY <2>2 DEF Apart
  <2>4. NewFormat(eds[j]["format"]) # Default
    BY <2>2 DEF Apart, Usable
  <2>5. /\ list[i].name = NewFormat(eds[j]["format"])
        /\ DOMAIN list[i].file_ext = {1} /\ list[i].file_ext[1] = eds[j]["match"]
    BY <2>1, DecoderHas
  <2> QED
    BY <2>3, <2>4, <2>5
<1> QED
  BY <1>1 DEF NotNamed, HasNot

\* Its decoder is put behind theirs.
LEMMA DecodersGoOn ==
  ASSUME NEW eds, Apart(eds), NEW k \in Nat, k + 1 \in DOMAIN eds, 1..k \subseteq DOMAIN eds,
         NEW list, DecodersOf(eds, k, list)
  PROVE  DecodersOf(eds, k + 1, AddDecoder(list, eds[k + 1]))
<1> DEFINE ed == eds[k + 1]
           d == DecoderOf(ed)
           new == AddDecoder(list, ed)
<1>1. /\ NotNamed(list, NewFormat(ed["format"]))
      /\ ed["match"] # NULL => HasNot(list, ed["match"])
  BY NextIsNew
<1>2. IsSequence(list) /\ Usable(ed)
  BY DEF DecodersOf, Apart
<1>3. new = IF Decoding(ed) THEN Append(list, d) ELSE list
  <2> HIDE DEF ed
  <2> QED
    BY <1>1, <1>2, DecoderAdded
<1>4. k + 1 \in 1..(k + 1) /\ \A j \in 1..(k + 1) : j = k + 1 \/ j \in 1..k
  OBVIOUS
<1>5. 1..k \subseteq 1..(k + 1)
  OBVIOUS
<1> SUFFICES DecodersOf(eds, k + 1, new)
  OBVIOUS
<1> HIDE DEF new, d, ed
<1>6. CASE ~Decoding(ed)
  <2>1. new = list
    BY <1>3, <1>6
  <2> QED
    BY <1>4, <1>5, <1>6, <2>1 DEF DecodersOf, ed
<1>7. CASE Decoding(ed)
  <2> DEFINE cur == Len(list) + 1
  <2>1. /\ IsSequence(new) /\ DOMAIN new = DOMAIN list \cup {cur} /\ cur \notin DOMAIN list
        /\ new[cur] = d /\ \A i \in DOMAIN list : new[i] = list[i]
    <3>1. /\ IsSequence(new) /\ DOMAIN new = 1..cur /\ DOMAIN list = 1..Len(list)
          /\ Len(list) \in Nat /\ new[cur] = d /\ \A i \in DOMAIN list : new[i] = list[i]
      BY <1>2, <1>3, <1>7, Appended
    <3> QED
      BY <3>1
  <2>2. /\ d.name = NewFormat(ed["format"]) /\ d.file_ext[1] = ed["match"]
        /\ ed["match"] # NULL
    BY <1>7, DecoderHas DEF Decoding, d
  <2>3. ASSUME NEW i \in DOMAIN list
        PROVE  list[i].name # d.name /\ list[i].file_ext[1] # d.file_ext[1]
    <3>1. PICK j \in 1..k : list[i] = DecoderOf(eds[j])
      BY DEF DecodersOf
    <3>2. 1 \in DOMAIN list[i].file_ext
      BY <3>1, DecoderHas
    <3> QED
      BY <1>1, <2>2, <3>2 DEF NotNamed, HasNot
  <2> HIDE DEF cur
  <2>4. \A i \in DOMAIN new : i = cur \/ i \in DOMAIN list
    BY <2>1
  <2>5. \A i \in DOMAIN new : \E j \in 1..(k + 1) : Decoding(eds[j]) /\ new[i] = DecoderOf(eds[j])
    BY <1>4, <1>5, <1>7, <2>1, <2>4 DEF DecodersOf, d, ed
  <2>6. \A j \in 1..(k + 1) : Decoding(eds[j]) => \E i \in DOMAIN new : new[i] = DecoderOf(eds[j])
    <3> SUFFICES ASSUME NEW j \in 1..(k + 1), Decoding(eds[j])
                 PROVE  \E i \in DOMAIN new : new[i] = DecoderOf(eds[j])
      OBVIOUS
    <3>1. CASE j = k + 1
      BY <2>1, <3>1 DEF d, ed
    <3>2. CASE j \in 1..k
      <4>1. PICK i \in DOMAIN list : list[i] = DecoderOf(eds[j])
        BY <3>2 DEF DecodersOf
      <4> QED
        BY <2>1, <4>1
    <3> QED
      BY <1>4, <3>1, <3>2
  <2>7. \A i, j \in DOMAIN new :
          new[i].name = new[j].name \/ new[i].file_ext[1] = new[j].file_ext[1] => i = j
    BY <2>1, <2>3, <2>4 DEF DecodersOf
  <2> QED
    BY <2>1, <2>5, <2>6, <2>7 DEF DecodersOf
<1> QED
  BY <1>6, <1>7

LEMMA DecodersMade ==
  ASSUME NEW eds, Apart(eds)
  PROVE  DecodersOf(eds, Len(eds), FoldLeft(AddDecoder, << >>, eds))
<1> DEFINE n == Len(eds)
           none == << >>
           c == 0
<1>1. n \in Nat /\ DOMAIN eds = 1..n
  BY DEF Apart, IsSequence
<1>2. FoldLeft(AddDecoder, none, eds) = InDecoders!LeftFold(c, none, eds)
  BY DEF InDecoders!LeftFold, FoldLeft, InDecoders!FoldLeft, MapThenFoldSet,
         InDecoders!MapThenFoldSet, Max, InDecoders!Max, NextDecoder
<1>3. IsSequence(none) /\ DOMAIN none = {}
  <2>1. IsSequence(none)
    BY Short
  <2>2. DOMAIN none = {}
    OBVIOUS
  <2> QED
    BY <2>1, <2>2
<1> HIDE DEF n, none, c
<1>0. PICK r : InDecoders!Stepwise(c, none, n, eds, r)
  BY <1>1, InDecoders!FoldsStepwise
<1>4. /\ r[0] = none
      /\ \A k \in 1..n : r[k] = AddDecoder(r[k - 1], eds[k])
      /\ InDecoders!LeftFold(c, none, eds) = r[n]
  BY <1>0 DEF InDecoders!Stepwise, NextDecoder
<1> DEFINE S == {k \in 0..n : DecodersOf(eds, k, r[k])}
<1>5. 0 \in S
  <2>1. DecodersOf(eds, 0, none)
    BY <1>3 DEF DecodersOf
  <2> QED
    BY <1>1, <1>4, <2>1
<1>6. ASSUME NEW k \in 0..(n - 1), k \in S PROVE k + 1 \in S
  <2>1. k + 1 \in 1..n /\ k + 1 \in 0..n /\ (k + 1) - 1 = k /\ k \in Nat /\ 1..k \subseteq 1..n
    BY <1>1
  <2>2. r[k + 1] = AddDecoder(r[k], eds[k + 1])
    BY <1>4, <2>1
  <2>3. DecodersOf(eds, k + 1, AddDecoder(r[k], eds[k + 1]))
    BY <1>1, <1>6, <2>1, DecodersGoOn
  <2> QED
    BY <2>1, <2>2, <2>3
<1>7. n \in S
  <2>1. n \in 0..n
    BY <1>1
  <2> HIDE DEF S
  <2> QED
    BY <1>1, <1>5, <1>6, <2>1, InDecoders!Induction
<1> QED
  BY <1>2, <1>4, <1>7 DEF n, none

--------------------------------------------------------------------------------
(* The decoders are printed, and read again. *)

\* One string is printed, if it is set.
LEMMA StringPrinted ==
  ASSUME NEW entry, NEW e
  PROVE  Strings(entry, <<e>>) = Elem(entry[e] # NULL, e, entry[e])
<1> DEFINE n == 1
           names == <<e>>
           none == << >>
<1>1. n \in Nat /\ DOMAIN names = 1..n /\ n - 1 = 0 /\ names[n] = e /\ n \in 1..n
  OBVIOUS
<1>2. Strings(entry, names) = InStrings!LeftFold(entry, none, names)
  BY DEF Strings, InStrings!LeftFold, FoldLeft, InStrings!FoldLeft, MapThenFoldSet,
         InStrings!MapThenFoldSet, Max, InStrings!Max
<1> HIDE DEF n, names
<1>3. PICK r : InStrings!Stepwise(entry, none, n, names, r)
  BY <1>1, InStrings!FoldsStepwise
<1>4. /\ r[0] = none
      /\ \A k \in 1..n : r[k] = NextString(entry, r[k - 1], names[k])
      /\ InStrings!LeftFold(entry, none, names) = r[n]
  BY <1>3 DEF InStrings!Stepwise
<1> HIDE DEF none
<1>5. Strings(entry, names) = NextString(entry, none, e)
  BY <1>1, <1>2, <1>4
<1> DEFINE el == Elem(entry[e] # NULL, e, entry[e])
<1>6. NextString(entry, none, e) = none \o el
  BY DEF NextString
<1>7. IsSequence(el)
  BY Short
<1> HIDE DEF el
<1>8. none \o el = el
  BY <1>7, NoneBefore DEF none
<1> QED
  BY <1>5, <1>6, <1>8 DEF names, el

\* An element more, and elements behind others, when a block is read.
LEMMA ReadsOnce ==
  ASSUME NEW of, NEW q, NEW el
  PROVE  InBlock!LeftFold(of, q, <<el>>) = NextElement(of, q, el)
<1> DEFINE n == 1
           t == <<el>>
<1>1. n \in Nat /\ DOMAIN t = 1..n /\ n - 1 = 0 /\ t[n] = el /\ n \in 1..n
  OBVIOUS
<1> HIDE DEF n, t
<1>2. PICK r : InBlock!Stepwise(of, q, n, t, r)
  BY <1>1, InBlock!FoldsStepwise
<1>3. /\ r[0] = q
      /\ \A k \in 1..n : r[k] = NextElement(of, r[k - 1], t[k])
      /\ InBlock!LeftFold(of, q, t) = r[n]
  BY <1>2 DEF InBlock!Stepwise
<1>4. r[n] = NextElement(of, q, el)
  BY <1>1, <1>3
<1>5. InBlock!LeftFold(of, q, t) = NextElement(of, q, el)
  BY <1>3, <1>4
<1> QED
  BY <1>5 DEF t

LEMMA ReadsTwice ==
  ASSUME NEW of, NEW q, NEW s, IsSequence(s), NEW t, IsSequence(t)
  PROVE  InBlock!LeftFold(of, q, s \o t) = InBlock!LeftFold(of, InBlock!LeftFold(of, q, s), t)
<1> DEFINE X == {s[i] : i \in DOMAIN s} \cup {t[i] : i \in DOMAIN t}
<1>1. s \in Seq(X) /\ t \in Seq(X)
  BY DEF IsSequence
<1> HIDE DEF X
<1> QED
  BY <1>1, InBlock!FoldOfBoth

\* A decoder is printed as three elements, and these are read as the decoder.
ReadsThree(of, q, a, b, c, r) ==
  r = NextElement(of, NextElement(of, NextElement(of, q, a), b), c)

LEMMA ThreeRead ==
  ASSUME NEW of, NEW q, NEW a, NEW b, NEW c
  PROVE  ReadsThree(of, q, a, b, c, InBlock!LeftFold(of, q, <<a>> \o <<b>> \o <<c>>))
<1> DEFINE s1 == <<a>>
           s2 == <<b>>
           s3 == <<c>>
<1>1. IsSequence(s1) /\ IsSequence(s2) /\ IsSequence(s3) /\ IsSequence(s1 \o s2)
  BY Short, Joined
<1>2. /\ InBlock!LeftFold(of, q, s1) = NextElement(of, q, a)
      /\ \A x : InBlock!LeftFold(of, x, s2) = NextElement(of, x, b)
      /\ \A x : InBlock!LeftFold(of, x, s3) = NextElement(of, x, c)
  BY ReadsOnce
<1> HIDE DEF s1, s2, s3
<1>3. InBlock!LeftFold(of, q, s1 \o s2) = NextElement(of, NextElement(of, q, a), b)
  BY <1>1, <1>2, ReadsTwice
<1>4. InBlock!LeftFold(of, q, (s1 \o s2) \o s3)
        = NextElement(of, NextElement(of, NextElement(of, q, a), b), c)
  BY <1>1, <1>2, <1>3, ReadsTwice
<1> QED
  BY <1>4 DEF s1, s2, s3, ReadsThree

LEMMA DecoderPrinted ==
  ASSUME NEW f, f # Default, NEW p, p # NULL, NEW m
  PROVE  PrintDecoder(Dec(f, p, <<m>>))
           = <<<<"name", f>>>> \o <<<<"program", p>>>> \o <<<<"file_ext", m>>>>
<1> DEFINE d == Dec(f, p, <<m>>)
           exts == [j \in DOMAIN d.file_ext |-> <<"file_ext", d.file_ext[j]>>]
<1>1. d.name = f /\ d["program"] = p /\ d.file_ext = <<m>>
  BY DEF Dec
<1>2. PrintedName(d) = <<<<"name", f>>>>
  BY <1>1 DEF PrintedName, Elem
<1>3. Strings(d, <<"program">>) = <<<<"program", p>>>>
  <2>1. Strings(d, <<"program">>) = Elem(d["program"] # NULL, "program", d["program"])
    BY StringPrinted
  <2> QED
    BY <1>1, <2>1 DEF Elem
<1>4. exts = <<<<"file_ext", m>>>>
  BY <1>1
<1>5. PrintDecoder(d) = PrintedName(d) \o Strings(d, <<"program">>) \o exts
  BY DEF PrintDecoder
<1> HIDE DEF exts, d
<1> QED
  BY <1>2, <1>3, <1>4, <1>5 DEF d

\* A decoder with a name and one extension, as a block of a file may have it.
Decodes(d) ==
  /\ d = Dec(d.name, d.program, <<d.file_ext[1]>>)
  /\ d.name \notin {Default, NoValue} /\ d.file_ext[1] # NoValue
  /\ d.program \notin {NULL, NoValue} /\ DecoderLine(d.program)

\* What is printed of it is a sequence of elements.
LEMMA DecodesPrinted ==
  ASSUME NEW d, Decodes(d)
  PROVE  IsSequence(PrintDecoder(d))
<1> DEFINE f == d.name
           p == d.program
           m == d.file_ext[1]
<1>1. f # Default /\ p # NULL /\ d = Dec(f, p, <<m>>)
  BY DEF Decodes
<1> HIDE DEF f, p, m
<1>2. PrintDecoder(d) = <<<<"name", f>>>> \o <<<<"program", p>>>> \o <<<<"file_ext", m>>>>
  BY <1>1, DecoderPrinted
<1>3. \A x : IsSequence(<<x>>)
  BY Short
<1>4. IsSequence(<<<<"name", f>>>> \o <<<<"program", p>>>>)
  BY <1>3, Joined
<1> QED
  BY <1>2, <1>3, <1>4, Joined

DecoderReads(list, d) ==
  ReadBlock("decoder", list, PrintDecoder(d)) = [ok |-> TRUE, list |-> Append(list, d)]

LEMMA DecoderIsRead ==
  ASSUME NEW list, IsSequence(list), NEW d, Decodes(d), NotNamed(list, d.name),
         HasNot(list, d.file_ext[1])
  PROVE  DecoderReads(list, d)
<1> DEFINE f == d.name
           p == d.program
           m == d.file_ext[1]
           cur == Len(list) + 1
           of == <<"decoder", cur>>
           l0 == Append(list, Dec(Default, NULL, << >>))
           l1 == Append(list, Dec(f, NULL, << >>))
           l2 == Append(list, Dec(f, p, << >>))
           l3 == Append(list, d)
           a == <<"name", f>>
           b == <<"program", p>>
           c == <<"file_ext", m>>
           good(l) == [ok |-> TRUE, list |-> l]
           block == PrintDecoder(d)
           read == InBlock!LeftFold(of, good(l0), block)
<1>1. /\ f # Default /\ f # NoValue /\ p # NULL /\ p # NoValue /\ DecoderLine(p)
      /\ m # NoValue /\ d = Dec(f, p, <<m>>)
  BY DEF Decodes
<1>2. \A i \in DOMAIN list : list[i].name # Default /\ list[i].name # f
  BY DEF NotNamed
<1>3. Got("decoder", list, Default) = l0 /\ Find(l0, Default) = cur
  <2>1. Find(list, Default) = 0
    BY <1>2, NotFound
  <2>2. Got("decoder", list, Default) = l0
    BY <2>1, NewDecoder DEF Got
  <2>3. Find(l0, Default) = cur
    BY <1>2, FoundLast
  <2> QED
    BY <2>2, <2>3
<1> HIDE DEF f, p, m
<1>4. Set("decoder", l0, cur, "name", f) = good(l1)
  BY <1>1, <1>2, DecoderName
<1>5. Set("decoder", l1, cur, "program", p) = good(l2)
  BY <1>1, ProgramIsSet
<1>6. Set("decoder", l2, cur, "file_ext", m) = good(l3)
  <2>1. HasNot(list, m)
    BY DEF m
  <2>2. Set("decoder", l2, cur, "file_ext", m) = good(Append(list, Dec(f, p, <<m>>)))
    BY <1>1, <2>1, DecoderMatch
  <2> QED
    BY <1>1, <2>2
<1>7. \A l, e, v : NextElement(of, good(l), <<e, v>>) = Set("decoder", l, cur, e, v)
  BY DEF NextElement
<1>8. block = <<a>> \o <<b>> \o <<c>>
  BY <1>1, DecoderPrinted
<1>9. Append(list, d)[cur] = d
  BY Appended
<1>10. Valid("decoder", d)
  BY <1>1, DecoderIsValid
<1>11. ReadBlock("decoder", list, block)
         = [ok |-> read.ok /\ Valid("decoder", read.list[cur]), list |-> read.list]
  <2> HIDE DEF l0, cur, block
  <2> QED
    BY <1>3 DEF ReadBlock, InBlock!LeftFold, FoldLeft, InBlock!FoldLeft, MapThenFoldSet,
         InBlock!MapThenFoldSet, Max, InBlock!Max
<1> HIDE DEF l0, l1, l2, l3, of, cur, block, good
<1>12. /\ NextElement(of, good(l0), a) = good(l1) /\ NextElement(of, good(l1), b) = good(l2)
       /\ NextElement(of, good(l2), c) = good(l3)
  BY <1>4, <1>5, <1>6, <1>7
<1> HIDE DEF a, b, c
<1>13. read = good(l3)
  <2>1. ReadsThree(of, good(l0), a, b, c, read)
    BY <1>8, ThreeRead
  <2> HIDE DEF read
  <2> QED
    BY <1>12, <2>1 DEF ReadsThree
<1> HIDE DEF read
<1>14. read.ok = TRUE /\ read.list = l3 /\ l3[cur] = d
  BY <1>9, <1>13 DEF good, l3, cur
<1>15. ReadBlock("decoder", list, block) = [ok |-> TRUE, list |-> l3]
  BY <1>10, <1>11, <1>14
<1> QED
  BY <1>15 DEF DecoderReads, block, l3

\* What has been read of the first k of some decoders that were printed.
ReadSoFar(list, k, r) ==
  /\ r.ok = TRUE /\ IsSequence(r.list) /\ DOMAIN r.list = 1..k
  /\ \A i \in 1..k : r.list[i] = list[i]

\* Decoders that have nothing in common.
Distinct(list) ==
  \A i, j \in DOMAIN list :
    list[i].name = list[j].name \/ list[i].file_ext[1] = list[j].file_ext[1] => i = j

LEMMA OneMoreRead ==
  ASSUME NEW list, IsSequence(list), \A i \in DOMAIN list : Decodes(list[i]), Distinct(list),
         NEW k \in Nat, k + 1 \in DOMAIN list, 1..k \subseteq DOMAIN list,
         NEW r, ReadSoFar(list, k, r)
  PROVE  ReadSoFar(list, k + 1, NextBlock("decoder", r, PrintDecoder(list[k + 1])))
<1> DEFINE d == list[k + 1]
           read == NextBlock("decoder", r, PrintDecoder(d))
           old == r.list
           new == Append(old, d)
<1>1. Decodes(d)
  OBVIOUS
<1>2. /\ r.ok = TRUE /\ IsSequence(old) /\ DOMAIN old = 1..k
      /\ \A i \in 1..k : old[i] = list[i]
  BY DEF ReadSoFar
<1>3. ASSUME NEW i \in 1..k
      PROVE  /\ old[i].name # d.name /\ old[i].name # Default
             /\ \A j \in DOMAIN old[i].file_ext : old[i].file_ext[j] # d.file_ext[1]
  <2>1. i \in DOMAIN list /\ i # k + 1 /\ old[i] = list[i]
    BY <1>2
  <2>2. list[i].name # d.name /\ list[i].file_ext[1] # d.file_ext[1]
    BY <2>1 DEF Distinct
  <2>3. Decodes(list[i])
    BY <2>1
  <2>4. list[i].name # Default /\ DOMAIN list[i].file_ext = {1}
    <3> DEFINE x == list[i]
    <3> HIDE DEF x
    <3>1. x = Dec(x.name, x.program, <<x.file_ext[1]>>) /\ x.name # Default
      BY <2>3 DEF x, Decodes
    <3>2. x.file_ext = <<x.file_ext[1]>>
      BY <3>1 DEF Dec
    <3>3. DOMAIN x.file_ext = {1}
      BY <3>2
    <3> QED
      BY <3>1, <3>3 DEF x
  <2> QED
    BY <2>1, <2>2, <2>4
<1>4. NotNamed(old, d.name) /\ HasNot(old, d.file_ext[1])
  BY <1>2, <1>3 DEF NotNamed, HasNot
<1> HIDE DEF d
<1>5. DecoderReads(old, d)
  BY <1>1, <1>2, <1>4, DecoderIsRead
<1>6. read = [ok |-> TRUE, list |-> new]
  BY <1>2, <1>5 DEF NextBlock, DecoderReads
<1>7. Len(old) = k
  <2>1. Len(old) \in Nat /\ DOMAIN old = 1..Len(old)
    BY <1>2 DEF IsSequence
  <2> DEFINE n == Len(old)
  <2> HIDE DEF n, old
  <2>2. n \in Nat /\ 1..n = 1..k
    BY <1>2, <2>1 DEF n
  <2>3. n = k
    <3>1. n # 0 => n \in 1..k
      BY <2>2
    <3>2. k # 0 => k \in 1..n
      BY <2>2
    <3> QED
      BY <2>2, <3>1, <3>2
  <2> QED
    BY <2>3 DEF n
<1>8. /\ IsSequence(new) /\ DOMAIN new = 1..(k + 1) /\ new[k + 1] = d
      /\ \A i \in 1..k : new[i] = old[i]
  BY <1>2, <1>7, Appended
<1> HIDE DEF new, old
<1>9. \A i \in 1..(k + 1) : i = k + 1 \/ i \in 1..k
  OBVIOUS
<1>10. \A i \in 1..(k + 1) : new[i] = list[i]
  BY <1>2, <1>8, <1>9 DEF d
<1>11. read.ok = TRUE /\ read.list = new
  BY <1>6
<1> HIDE DEF read
<1>12. ReadSoFar(list, k + 1, read)
  BY <1>8, <1>10, <1>11 DEF ReadSoFar
<1> QED
  BY <1>12 DEF read, d

LEMMA DecodersRead ==
  ASSUME NEW list, IsSequence(list), \A i \in DOMAIN list : Decodes(list[i]), Distinct(list),
         NEW blocks, DOMAIN blocks = DOMAIN list,
         \A i \in DOMAIN list : blocks[i] = PrintDecoder(list[i])
  PROVE  ReadSoFar(list, Len(list), ReadList("decoder", blocks))
<1> DEFINE n == Len(list)
           kind == "decoder"
           base == [ok |-> TRUE, list |-> << >>]
<1>1. n \in Nat /\ DOMAIN list = 1..n
  BY DEF IsSequence
<1>2. ReadList(kind, blocks) = InList!LeftFold(kind, base, blocks)
  BY DEF ReadList, InList!LeftFold, FoldLeft, InList!FoldLeft, MapThenFoldSet,
         InList!MapThenFoldSet, Max, InList!Max
<1>3. ReadSoFar(list, 0, base)
  <2> DEFINE none == << >>
  <2>1. IsSequence(none)
    BY Short
  <2>2. DOMAIN none = {} /\ 1..0 = {}
    OBVIOUS
  <2> HIDE DEF none
  <2>3. base.ok = TRUE /\ base.list = none
    BY DEF none
  <2> HIDE DEF base
  <2> QED
    BY <2>1, <2>2, <2>3 DEF ReadSoFar
<1> HIDE DEF n, kind, base
<1>0. PICK r : InList!Stepwise(kind, base, n, blocks, r)
  BY <1>1, InList!FoldsStepwise
<1>4. /\ r[0] = base
      /\ \A k \in 1..n : r[k] = NextBlock(kind, r[k - 1], blocks[k])
      /\ InList!LeftFold(kind, base, blocks) = r[n]
  BY <1>0 DEF InList!Stepwise
<1> DEFINE S == {k \in 0..n : ReadSoFar(list, k, r[k])}
<1>5. 0 \in S
  BY <1>1, <1>3, <1>4
<1>6. ASSUME NEW k \in 0..(n - 1), k \in S PROVE k + 1 \in S
  <2>1. k + 1 \in 1..n /\ k + 1 \in 0..n /\ (k + 1) - 1 = k /\ k \in Nat /\ 1..k \subseteq 1..n
    BY <1>1
  <2>2. r[k + 1] = NextBlock(kind, r[k], PrintDecoder(list[k + 1]))
    BY <1>1, <1>4, <2>1
  <2>3. ReadSoFar(list, k + 1, NextBlock(kind, r[k], PrintDecoder(list[k + 1])))
    BY <1>1, <1>6, <2>1, OneMoreRead DEF kind
  <2> QED
    BY <2>1, <2>2, <2>3
<1>7. n \in S
  <2>1. n \in 0..n
    BY <1>1
  <2> HIDE DEF S
  <2> QED
    BY <1>1, <1>5, <1>6, <2>1, InList!Induction
<1> QED
  BY <1>2, <1>4, <1>7 DEF n, kind

\* The decoder of an extension is found by it.
LEMMA ExtFound ==
  ASSUME NEW list, IsSequence(list), NEW i \in DOMAIN list, NEW m,
         \A j \in DOMAIN list : DOMAIN list[j].file_ext = {1} /\ (list[j].file_ext[1] = m <=> j = i)
  PROVE  FindExt(list, m) = i
<1> DEFINE places == {k \in DOMAIN list : \E j \in DOMAIN list[k].file_ext : list[k].file_ext[j] = m}
<1>0. i \in Nat /\ i <= i
  BY DEF IsSequence
<1>1. places = {i}
  OBVIOUS
<1>2. FindExt(list, m) = IF places = {} THEN 0
                         ELSE CHOOSE k \in places : \A j \in places : k <= j
  BY DEF FindExt
<1> HIDE DEF places
<1>3. (CHOOSE k \in places : \A j \in places : k <= j) = (CHOOSE k \in {i} : k <= i)
  BY <1>1
<1> QED
  BY <1>0, <1>1, <1>2, <1>3

--------------------------------------------------------------------------------
(* A legacy configuration is migrated, and decodes as it did. *)

\* The blocks of a file that was read without an error have what it gives them.
LEMMA EncDecsRead ==
  ASSUME NEW legacy, IsSequence(legacy.encdecs),
         \A i \in DOMAIN legacy.encdecs : IsSequence(legacy.encdecs[i]),
         ParseConfig(legacy).set["url"] # NULL
  PROVE  /\ IsSequence(ParseConfig(legacy).encdecs)
         /\ DOMAIN ParseConfig(legacy).encdecs = DOMAIN legacy.encdecs
         /\ \A i \in DOMAIN legacy.encdecs : \A e \in EncDecElements :
              AsGiven(legacy.encdecs[i], e, ParseConfig(legacy).encdecs[i][e])
<1> DEFINE read == ReadElements(Elements0, legacy.elements)
           encdecs == [i \in DOMAIN legacy.encdecs |->
                         ReadElements(EncDecElements, legacy.encdecs[i])]
           good == \A i \in DOMAIN encdecs : encdecs[i].ok
           ok == legacy.state = "ok" /\ read.ok /\ good
           sets == [i \in DOMAIN encdecs |-> encdecs[i].set]
           n == Len(legacy.encdecs)
<1>1. /\ ParseConfig(legacy).set = IF ok THEN read.set ELSE [e \in Elements0 |-> NULL]
      /\ ParseConfig(legacy).encdecs = IF ok THEN sets ELSE << >>
  BY DEF ParseConfig
<1>2. "url" \in Elements0
  BY DEF Elements0, Strings0
<1>3. ok => good
  OBVIOUS
<1>4. n \in Nat /\ DOMAIN legacy.encdecs = 1..n
  BY DEF IsSequence
<1>5. DOMAIN sets = DOMAIN legacy.encdecs /\ sets = [i \in DOMAIN legacy.encdecs |-> sets[i]]
  OBVIOUS
<1>6. \A i \in DOMAIN legacy.encdecs :
        /\ good => ReadElements(EncDecElements, legacy.encdecs[i]).ok
        /\ sets[i] = ReadElements(EncDecElements, legacy.encdecs[i]).set
  OBVIOUS
<1> HIDE DEF read, ok, good, sets, n
<1>7. ok
  BY <1>1, <1>2
<1>8. sets = [i \in 1..n |-> sets[i]]
  BY <1>4, <1>5
<1>9. IsSequence(sets)
  BY <1>4, <1>8 DEF IsSequence
<1>10. \A i \in DOMAIN legacy.encdecs : \A e \in EncDecElements :
         AsGiven(legacy.encdecs[i], e, sets[i][e])
  BY <1>3, <1>6, <1>7, ElementsRead
<1> QED
  BY <1>1, <1>5, <1>7, <1>9, <1>10

\* Blocks for formats and extensions of their own are so when they are read.
LEMMA EncDecsApart ==
  ASSUME NEW eds, IsSequence(eds), NEW blocks, DOMAIN eds = DOMAIN blocks,
         \A i \in DOMAIN blocks : \A e \in EncDecElements :
           AsGiven(blocks[i], e, eds[i][e]),
         \A i, j \in DOMAIN blocks :
           /\ LastValue(blocks[i], "format") \notin {NULL, Default}
           /\ \/ LastValue(blocks[i], "match") = LastValue(blocks[j], "match")
              \/ NewFormat(LastValue(blocks[i], "format"))
                   = NewFormat(LastValue(blocks[j], "format"))
              => i = j
  PROVE  Apart(eds)
<1>1. ASSUME NEW i \in DOMAIN eds, NEW e \in EncDecElements
      PROVE  /\ eds[i][e] = LastValue(blocks[i], e)
             /\ eds[i][e] # NULL => eds[i][e] # NoValue /\ ElementOk(e, eds[i][e])
  BY DEF AsGiven
<1>2. {"format", "match", "decode"} \subseteq EncDecElements
  BY DEF EncDecElements
<1>3. ASSUME NEW i \in DOMAIN eds PROVE Usable(eds[i])
  <2> DEFINE f == eds[i]["format"]
             p == eds[i]["decode"]
             m == eds[i]["match"]
  <2>1. f = LastValue(blocks[i], "format") /\ f # NULL /\ f # Default /\ f # NoValue
    BY <1>1, <1>2
  <2>2. NULL # "ogg" /\ NoValue # "ogg" /\ Default # "ogg"
    <3>1. "ogg" \in OneOf.format
      BY DEF OneOf
    <3>2. NULL # "ogg" /\ NoValue # "ogg"
      BY <3>1, SettingsAssumption
    <3> QED
      BY <3>2 DEF Default
  <2>3. NewFormat(f) \notin {NULL, NoValue, Default}
    BY <2>1, <2>2 DEF NewFormat
  <2>4. p # NULL => p # NoValue /\ DecoderLine(p)
    <3>1. p # NULL => ElementOk("decode", p) /\ p # NoValue
      BY <1>1, <1>2
    <3>2. "decode" \notin Switches0
      BY DEF Switches0
    <3>3. ElementOk("decode", p) => DecoderLine(p)
      BY <3>2 DEF ElementOk
    <3> QED
      BY <3>1, <3>3
  <2>5. m # NULL => m # NoValue
    BY <1>1, <1>2
  <2> HIDE DEF f, p, m
  <2>6. /\ NewFormat(f) \notin {NULL, NoValue, Default} /\ f # NULL
        /\ p # NULL => p # NoValue /\ DecoderLine(p)
        /\ m # NULL => m # NoValue
    BY <2>1, <2>3, <2>4, <2>5
  <2> QED
    BY <2>6 DEF Usable, f, p, m
<1>4. ASSUME NEW i \in DOMAIN eds, NEW j \in DOMAIN eds,
             \/ NewFormat(eds[i]["format"]) = NewFormat(eds[j]["format"])
             \/ eds[i]["match"] = eds[j]["match"]
      PROVE  i = j
  BY <1>1, <1>2, <1>4
<1> QED
  BY <1>3, <1>4 DEF Apart

\* The decoders of these blocks are printed as decoders that have nothing in common.
LEMMA DecodersDecode ==
  ASSUME NEW eds, Apart(eds), NEW k, NEW list, DecodersOf(eds, k, list), 1..k = DOMAIN eds
  PROVE  /\ IsSequence(list) /\ Distinct(list) /\ \A i \in DOMAIN list : Decodes(list[i])
         /\ \A i \in DOMAIN list : DOMAIN list[i].file_ext = {1}
<1>1. ASSUME NEW i \in DOMAIN list
      PROVE  Decodes(list[i]) /\ DOMAIN list[i].file_ext = {1}
  <2>1. PICK j \in 1..k : Decoding(eds[j]) /\ list[i] = DecoderOf(eds[j])
    BY DEF DecodersOf
  <2> DEFINE ed == eds[j]
             f == NewFormat(ed["format"])
             p == ed["decode"]
             m == ed["match"]
             x == list[i]
  <2>2. Usable(ed) /\ Decoding(ed)
    BY <2>1 DEF Apart
  <2>3. x = Dec(f, p, <<m>>)
    BY <2>1 DEF DecoderOf
  <2>4. f \notin {NoValue, Default} /\ p # NULL /\ p # NoValue /\ DecoderLine(p) /\ m # NoValue
    BY <2>2 DEF Usable, Decoding
  <2> HIDE DEF f, p, m, x
  <2>5. x.name = f /\ x.program = p /\ x.file_ext = <<m>>
    BY <2>3 DEF Dec
  <2>6. x.file_ext[1] = m /\ DOMAIN x.file_ext = {1}
    BY <2>5
  <2>7. Decodes(x)
    BY <2>3, <2>4, <2>5, <2>6 DEF Decodes
  <2> QED
    BY <2>6, <2>7 DEF x
<1> QED
  BY <1>1 DEF DecodersOf, Distinct

\* The decoders of the file that was read are in force.
DecodersInv == pc \in {"configure", "connect"} => InForce("decoder")

LEMMA DecodersInvKept ==
  ASSUME DecodersInv, UNCHANGED <<file, cfg>>, pc' = pc \/ pc' \notin {"configure", "connect"}
  PROVE  DecodersInv'
<1>1. InForce("decoder")' <=> InForce("decoder")
  BY DEF InForce
<1> QED
  BY <1>1 DEF DecodersInv

LEMMA StepDecodersInv == ValueInv /\ DecodersInv /\ [Next]_vars => DecodersInv'
<1> SUFFICES ASSUME ValueInv, DecodersInv, [Next]_vars PROVE DecodersInv'
  OBVIOUS
<1>1. CASE Migrate
  BY <1>1 DEF Migrate, DecodersInv
<1>2. CASE Reload
  <2>1. FileOk /\ cfg' = ReadFile(file).cfg /\ file' = file
    BY <1>2 DEF Reload
  <2>2. "decoder" \in FileKinds /\ "decoder" # "metadata"
    BY DEF FileKinds, Lists
  <2>3. /\ ReadList("decoder", file["decoder"]).ok
        /\ cfg'["decoder"] = ReadList("decoder", file["decoder"]).list
    BY <2>1, <2>2 DEF FileOk, ReadFile
  <2> QED
    BY <2>1, <2>3 DEF DecodersInv, InForce
<1>3. CASE Configure
  <2>1. pc = "configure" /\ cfg' = [cfg EXCEPT !.intake = Intakes] /\ file' = file
    BY <1>3 DEF Configure
  <2>2. DOMAIN cfg = FileKinds
    BY <2>1 DEF ValueInv
  <2>3. cfg'["decoder"] = cfg["decoder"]
    BY <2>1, <2>2 DEF FileKinds, Lists
  <2> QED
    BY <2>1, <2>3 DEF DecodersInv, InForce
<1>4. CASE LaunchNext /\ ~Migrate /\ ~Reload /\ ~Configure
  BY <1>4, DecodersInvKept
     DEF LaunchNext, MigrateFails, ParseOption, HelpOrVersion, BadOption, ShuffleFile,
         NoConfigFile, CommandLineDone, ReloadFails, ConfigureFails, Connect, ConnectFails,
         Exit
<1>5. CASE ResourceNext
  <2>1. UNCHANGED <<file, cfg>> /\ pc' \in {"stream", "exited"}
    BY <1>5 DEF ResourceNext, Streaming, launchVars, Exit, NextSong, StreamFile, Answer,
       AskFails, RefreshFails, AnswerUnreadable, Parse, ParseFails, Build, CannotBuild,
       Fopen, FopenFails, DupStderr, QuietStderr, QuietFails, Popen, Restore, TellStdin,
       TellStdinFails, Opened, Query, TellRefresh, TellRefreshFails, TrackEnds, Close, Leave
  <2> QED
    BY <2>1, DecodersInvKept
<1>6. CASE UNCHANGED vars
  BY <1>6, DecodersInvKept DEF vars, launchVars
<1> QED
  BY <1>1, <1>2, <1>3, <1>4, <1>5, <1>6 DEF Next, Ended

LEMMA DecodersInvAlways == Spec => [](ValueInv /\ MigrationInv /\ DecodersInv)
<1>1. Init => DecodersInv
  BY DEF Init, LaunchInit, DecodersInv
<1>2. ValueInv /\ DecodersInv /\ [Next]_vars => DecodersInv'
  BY StepDecodersInv
<1> QED
  BY <1>1, <1>2, MigrationInvAlways, StepMigrationInv, PTL DEF Spec

\* For every legacy file of up to MAX_FORMAT_ENCDEC <encdec> blocks, each for a format and
\* an extension of its own, that is printed without markup: ezstream decodes each
\* extension with the command it had.
THEOREM MigratedDecodesOn == Spec => []MigratedDecodes
<1>1. ValueInv /\ MigrationInv /\ DecodersInv => MigratedDecodes
  <2> SUFFICES ASSUME ValueInv, MigrationInv, DecodersInv, Ready, migrated # NULL,
                      PrintedPlainly, EncDecsDistinct,
                      NEW b \in DOMAIN start.legacy.encdecs,
                      EncDec0(b, "decode") # NULL, EncDec0(b, "match") # NULL
               PROVE  cfg.decoder[FindExt(cfg.decoder, EncDec0(b, "match"))].program
                        = EncDec0(b, "decode")
    BY DEF MigratedDecodes
  <2> DEFINE legacy == start.legacy
             blocks == legacy.encdecs
             ez == ParseConfig(legacy)
             eds == ez.encdecs
             made == migrated["decoder"]
             read == cfg["decoder"]
             m == EncDec0(b, "match")
             p == EncDec0(b, "decode")
  <2>1. /\ legacy # NULL /\ migrated = Migrated(ez) /\ file = PrintedFile(migrated)
        /\ IsSequence(blocks) /\ \A i \in DOMAIN blocks : IsSequence(blocks[i])
    BY LaunchAssumption DEF ValueInv, MigrationInv, Ready
  <2>2. ez.set["url"] # NULL
    BY <2>1, MigratedLists
  <2>3. /\ IsSequence(eds) /\ DOMAIN eds = DOMAIN blocks
        /\ \A i \in DOMAIN blocks : \A e \in EncDecElements : AsGiven(blocks[i], e, eds[i][e])
    <3> HIDE DEF legacy
    <3> QED
      BY <2>1, <2>2, EncDecsRead
  <2>4. Apart(eds)
    <3>1. \A i, j \in DOMAIN blocks :
            /\ LastValue(blocks[i], "format") \notin {NULL, Default}
            /\ \/ LastValue(blocks[i], "match") = LastValue(blocks[j], "match")
               \/ NewFormat(LastValue(blocks[i], "format"))
                    = NewFormat(LastValue(blocks[j], "format"))
               => i = j
      BY DEF EncDecsDistinct, EncDec0
    <3> HIDE DEF eds, blocks
    <3> QED
      BY <2>3, <3>1, EncDecsApart
  <2>5. made = FoldLeft(AddDecoder, << >>, eds)
    <3> HIDE DEF ez
    <3> QED
      BY <2>1 DEF Migrated
  <2>6. eds[b]["match"] = m /\ eds[b]["decode"] = p /\ b \in DOMAIN eds
    <3>1. "match" \in EncDecElements /\ "decode" \in EncDecElements
      BY DEF EncDecElements
    <3> HIDE DEF eds
    <3> QED
      BY <2>3, <3>1 DEF AsGiven, EncDec0
  <2> HIDE DEF eds, ez, blocks, legacy
  <2>7. Len(eds) \in Nat /\ DOMAIN eds = 1..Len(eds)
    BY <2>3 DEF IsSequence
  <2>8. DecodersOf(eds, Len(eds), made)
    BY <2>4, <2>5, DecodersMade
  <2>9. /\ IsSequence(made) /\ Distinct(made) /\ \A i \in DOMAIN made : Decodes(made[i])
        /\ \A i \in DOMAIN made : DOMAIN made[i].file_ext = {1}
    BY <2>4, <2>7, <2>8, DecodersDecode
  <2>10. /\ DOMAIN file["decoder"] = DOMAIN made
         /\ \A i \in DOMAIN made : file["decoder"][i] = PrintDecoder(made[i])
    <3>1. "decoder" \in FileKinds /\ "decoder" # "state"
      BY DEF FileKinds, Lists
    <3>2. \A x : PrintedBlock("decoder", x) = PrintDecoder(x)
      BY DEF PrintedBlock
    <3>3. \A i \in DOMAIN made : IsSequence(PrintedBlock("decoder", made[i]))
      BY <2>9, <3>2, DecodesPrinted
    <3>4. file["decoder"] = [i \in DOMAIN made |-> PrintedBlock("decoder", made[i])]
      BY <2>1, <3>1, <3>3, PlainIsRead DEF PrintedPlainly
    <3> HIDE DEF made
    <3> QED
      BY <3>2, <3>4
  <2>11. ReadSoFar(made, Len(made), ReadList("decoder", file["decoder"]))
    <3> HIDE DEF made
    <3> QED
      BY <2>9, <2>10, DecodersRead
  <2>12. read = ReadList("decoder", file["decoder"]).list
    BY DEF DecodersInv, InForce, Ready
  <2> HIDE DEF made, read, m, p
  <2>13. /\ IsSequence(read) /\ DOMAIN read = DOMAIN made
         /\ \A i \in DOMAIN made : read[i] = made[i]
    <3>1. DOMAIN made = 1..Len(made)
      BY <2>9 DEF IsSequence
    <3> QED
      BY <2>11, <2>12, <3>1 DEF ReadSoFar
  <2>14. PICK i \in DOMAIN made : made[i] = DecoderOf(eds[b])
    <3>1. Decoding(eds[b]) /\ b \in 1..Len(eds)
      BY <2>6, <2>7 DEF Decoding, m, p
    <3> QED
      BY <2>8, <3>1 DEF DecodersOf
  <2>15. made[i].program = p /\ made[i].file_ext[1] = m
    BY <2>6, <2>14, DecoderHas
  <2>16. \A j \in DOMAIN read : DOMAIN read[j].file_ext = {1} /\ (read[j].file_ext[1] = m <=> j = i)
    BY <2>9, <2>13, <2>15 DEF Distinct
  <2>17. FindExt(read, m) = i
    BY <2>13, <2>16, ExtFound
  <2>18. read[FindExt(read, m)].program = p
    BY <2>13, <2>15, <2>17
  <2> QED
    BY <2>18 DEF read, m, p
<1> QED
  BY <1>1, DecodersInvAlways, PTL

--------------------------------------------------------------------------------
(* A value is quoted, and the shell reads it. *)

ReadStep(c, s, x) == ShellReads(s, x)
QuoteStep(c, q, x) == Quoted(q, x)
EscapeStep(c, text, x) == text \o <<"\\", x>>

InReading == INSTANCE FoldLaws WITH op <- ReadStep
InQuoting == INSTANCE FoldLaws WITH op <- QuoteStep
InEscaping == INSTANCE FoldLaws WITH op <- EscapeStep

\* A shell in the middle of a command, and what it is when it has read some more.
Shell(words, word, opened, mode) ==
  [words |-> words, word |-> word, open |-> opened, mode |-> mode]
Reads(s, text) == InReading!LeftFold(0, s, text)

\* How a shell reads quotation marks and backslashes, and what is behind those.
LEMMA ReadsMark ==
  ASSUME NEW words, NEW word, NEW opened
  PROVE  /\ ShellReads(Shell(words, word, opened, "plain"), "'")
              = Shell(words, word, TRUE, "quoted")
         /\ ShellReads(Shell(words, word, opened, "quoted"), "'")
              = Shell(words, word, opened, "plain")
<1>1. ShellReads(Shell(words, word, opened, "plain"), "'") = Shell(words, word, TRUE, "quoted")
  BY DEF ShellReads, ReadsPlain, Shell
<1>2. ShellReads(Shell(words, word, opened, "quoted"), "'") = Shell(words, word, opened, "plain")
  BY DEF ShellReads, Shell
<1> QED
  BY <1>1, <1>2

LEMMA ReadsEscape ==
  ASSUME NEW words, NEW word, NEW opened
  PROVE  ShellReads(Shell(words, word, opened, "plain"), "\\")
           = Shell(words, word, TRUE, "escaped")
BY DEF ShellReads, ReadsPlain, Shell

LEMMA ReadsEscaped ==
  ASSUME NEW words, NEW word, NEW opened, NEW c
  PROVE  ShellReads(Shell(words, word, opened, "escaped"), c)
           = Shell(words, Append(word, c), TRUE, "plain")
BY DEF ShellReads, Put, Shell

LEMMA ReadsInQuotes ==
  ASSUME NEW words, NEW word, NEW opened, NEW c, c # "'"
  PROVE  ShellReads(Shell(words, word, opened, "quoted"), c)
           = Shell(words, Append(word, c), TRUE, "quoted")
BY DEF ShellReads, Put, Shell

\* A shell reads character by character, and text by text.
LEMMA ReadsNone == ASSUME NEW s PROVE Reads(s, << >>) = s
BY InReading!FoldOfNone DEF Reads

LEMMA ReadsMore ==
  ASSUME NEW D, NEW s, NEW text \in Seq(D), NEW x \in D
  PROVE  Reads(s, Append(text, x)) = ShellReads(Reads(s, text), x)
BY InReading!FoldOfMore DEF Reads, ReadStep

LEMMA ReadsBoth ==
  ASSUME NEW D, NEW s, NEW text \in Seq(D), NEW more \in Seq(D)
  PROVE  Reads(s, text \o more) = Reads(Reads(s, text), more)
BY InReading!FoldOfBoth DEF Reads

\* The length of a value that is quoted up to its n-th character.
QuotedSize(v, n) == 2 + n + 3 * Cardinality({i \in 1..n : v[i] = "'"})

\* A quotation mark takes four characters, and any other one.
LEMMA SizeGrows ==
  ASSUME NEW v, NEW n \in Nat
  PROVE  /\ QuotedSize(v, n) \in Nat
         /\ QuotedSize(v, 0) = 2
         /\ QuotedSize(v, n + 1) = QuotedSize(v, n) + (IF v[n + 1] = "'" THEN 4 ELSE 1)
<1> DEFINE M(k) == {i \in 1..k : v[i] = "'"}
<1>1. IsFiniteSet(M(n)) /\ Cardinality(M(n)) \in Nat
  <2>1. IsFiniteSet(1..n)
    BY FS_Interval
  <2> QED
    BY <2>1, FS_Subset, FS_CardinalityType
<1>2. QuotedSize(v, 0) = 2
  <2>1. M(0) = {}
    OBVIOUS
  <2>2. Cardinality(M(0)) = 0
    BY <2>1, FS_EmptySet
  <2> QED
    BY <2>2 DEF QuotedSize
<1>3. /\ QuotedSize(v, n) = 2 + n + 3 * Cardinality(M(n))
      /\ QuotedSize(v, n + 1) = 2 + (n + 1) + 3 * Cardinality(M(n + 1))
  BY DEF QuotedSize
<1>4. QuotedSize(v, n + 1) = QuotedSize(v, n) + (IF v[n + 1] = "'" THEN 4 ELSE 1)
  <2>1. CASE v[n + 1] = "'"
    <3>1. M(n + 1) = M(n) \cup {n + 1} /\ n + 1 \notin M(n)
      BY <2>1
    <3> HIDE DEF M
    <3>2. Cardinality(M(n + 1)) = Cardinality(M(n)) + 1
      BY <1>1, <3>1, FS_AddElement
    <3> QED
      BY <1>1, <1>3, <2>1, <3>2
  <2>2. CASE v[n + 1] # "'"
    <3>1. M(n + 1) = M(n)
      BY <2>2
    <3> HIDE DEF M
    <3> QED
      BY <1>1, <1>3, <2>2, <3>1
  <2> QED
    BY <2>1, <2>2
<1> HIDE DEF M
<1> QED
  BY <1>1, <1>2, <1>3, <1>4

\* A longer part of a value is longer when it is quoted.
LEMMA SizeIsMonotone ==
  ASSUME NEW v, NEW n \in Nat, NEW m \in Nat, n <= m
  PROVE  QuotedSize(v, n) <= QuotedSize(v, m)
<1> DEFINE M(k) == {i \in 1..k : v[i] = "'"}
<1>1. M(n) \subseteq M(m)
  OBVIOUS
<1>2. IsFiniteSet(M(m))
  <2>1. IsFiniteSet(1..m)
    BY FS_Interval
  <2> QED
    BY <2>1, FS_Subset
<1>3. /\ Cardinality(M(n)) <= Cardinality(M(m))
      /\ Cardinality(M(n)) \in Nat /\ Cardinality(M(m)) \in Nat
  <2> HIDE DEF M
  <2> QED
    BY <1>1, <1>2, FS_Subset, FS_CardinalityType
<1> QED
  BY <1>3 DEF QuotedSize
\* What has come of quoting the first k characters of a value: as many as fit, m of
\* them, and a shell that is within quotation marks behind them.
Quotation(out, left, stop) == [out |-> out, left |-> left, stop |-> stop]

Full(v, m, left, stop) == QuotedSize(v, m + 1) > QuoteMax /\ (stop = TRUE \/ left <= 1)

Quoting(s, out, words, word) == Reads(s, out) = Shell(words, word, TRUE, "quoted")

QuotedTo(D, v, k, m, out, left, stop, s, words, word) ==
  /\ m \in 0..k
  /\ out \in Seq(D) /\ Len(out) = QuotedSize(v, m) - 1
  /\ QuotedSize(v, m) <= QuoteMax /\ left = QuoteMax + 1 - QuotedSize(v, m)
  /\ (m = k /\ stop = FALSE) \/ (m < k /\ Full(v, m, left, stop))
  /\ Quoting(s, out, words, word \o SubSeq(v, 1, m))

Marks == {"'", "\\"}

\* A step of util_shellquote() when there is no room for a character.
LEMMA QuoteStays ==
  ASSUME NEW out, NEW left \in Int, NEW stop, NEW c, stop = TRUE \/ left <= 1
  PROVE  Quoted(Quotation(out, left, stop), c) = Quotation(out, left, stop)
<1>1. CASE stop = TRUE
  <2>1. Quoted(Quotation(out, left, TRUE), c) = Quotation(out, left, TRUE)
    BY DEF Quoted, Quotation
  <2> QED
    BY <1>1, <2>1
<1>2. CASE left <= 1
  BY <1>2 DEF Quoted, Quotation
<1> QED
  BY <1>1, <1>2

\* When there is none for the four characters that a quotation mark takes.
LEMMA QuoteStops ==
  ASSUME NEW out, NEW left \in Int, NEW c, left > 1, left <= 4, c = "'"
  PROVE  Quoted(Quotation(out, left, FALSE), c) = Quotation(out, left, TRUE)
<1> DEFINE yes == TRUE
           q == Quotation(out, left, FALSE)
<1>1. q.stop = FALSE /\ q.left = left
  BY DEF Quotation
<1> HIDE DEF yes
<1>2. [q EXCEPT !.stop = yes] = Quotation(out, left, yes)
  BY DEF Quotation
<1> HIDE DEF q
<1>3. yes = TRUE
  BY DEF yes
<1>4. Quoted(q, c) = [q EXCEPT !.stop = yes]
  BY <1>1, <1>3 DEF Quoted
<1> QED
  BY <1>2, <1>4 DEF q, yes

\* And when it is put.
LEMMA QuotePuts ==
  ASSUME NEW out, NEW left \in Int, NEW c, left > 1, c = "'" => left > 4
  PROVE  Quoted(Quotation(out, left, FALSE), c)
           = Quotation(out \o Escape(c) \o <<c>>, left - Len(Escape(c)) - 1, FALSE)
<1> DEFINE no == FALSE
           q == Quotation(out, left, no)
           longer == out \o Escape(c) \o <<c>>
           rest == left - Len(Escape(c)) - 1
<1> HIDE DEF no, longer, rest
<1>1. q.stop = no /\ q.left = left /\ q.out = out
  BY DEF Quotation
<1>2. [q EXCEPT !.out = longer] = Quotation(longer, left, no)
  BY DEF Quotation
<1>3. [Quotation(longer, left, no) EXCEPT !.left = rest] = Quotation(longer, rest, no)
  BY DEF Quotation
<1> HIDE DEF q
<1>4. [q EXCEPT !.out = longer, !.left = rest] = [[q EXCEPT !.out = longer] EXCEPT !.left = rest]
  OBVIOUS
<1>5. no = FALSE
  BY DEF no
<1>6. Quoted(q, c) = [q EXCEPT !.out = longer, !.left = rest]
  BY <1>1, <1>5 DEF Quoted, longer, rest
<1>7. Quoted(q, c) = Quotation(longer, rest, no)
  BY <1>2, <1>3, <1>4, <1>6
<1> QED
  BY <1>7 DEF q, longer, rest, no

\* One character more of a value.
LEMMA Longer ==
  ASSUME NEW D, NEW v \in Seq(D), NEW word \in Seq(D), NEW k \in 0..(Len(v) - 1)
  PROVE  /\ v[k + 1] \in D /\ word \o SubSeq(v, 1, k) \in Seq(D)
         /\ word \o SubSeq(v, 1, k + 1) = Append(word \o SubSeq(v, 1, k), v[k + 1])
<1>1. k \in Nat /\ k + 1 \in 1..Len(v) /\ v[k + 1] \in D
  OBVIOUS
<1>2. SubSeq(v, 1, k) \in Seq(D) /\ SubSeq(v, 1, k + 1) \in Seq(D)
  BY <1>1
<1>3. SubSeq(v, 1, k + 1) = Append(SubSeq(v, 1, k), v[k + 1])
  BY <1>1
<1> DEFINE sub == SubSeq(v, 1, k)
<1> HIDE DEF sub
<1>4. word \o Append(sub, v[k + 1]) = Append(word \o sub, v[k + 1]) /\ word \o sub \in Seq(D)
  BY <1>1, <1>2 DEF sub
<1> QED
  BY <1>1, <1>3, <1>4 DEF sub

\* What comes of an accepted character, for the shell: the character.
Put1(out, c) == Append(out, c)
PutMark(out) == Append(Append(Append(Append(out, "'"), "\\"), "'"), "'")

LEMMA ReadsOther ==
  ASSUME NEW D, NEW out \in Seq(D), NEW s, NEW words, NEW word, NEW c \in D, c # "'"
  PROVE  Quoting(s, out, words, word) => Quoting(s, Put1(out, c), words, Append(word, c))
<1>1. Reads(s, Put1(out, c)) = ShellReads(Reads(s, out), c)
  BY ReadsMore DEF Put1
<1>2. ShellReads(Shell(words, word, TRUE, "quoted"), c)
        = Shell(words, Append(word, c), TRUE, "quoted")
  BY ReadsInQuotes
<1> QED
  BY <1>1, <1>2 DEF Quoting

LEMMA ReadsPutMark ==
  ASSUME NEW D, Marks \subseteq D, NEW out \in Seq(D), NEW s, NEW words, NEW word
  PROVE  Quoting(s, out, words, word) => Quoting(s, PutMark(out), words, Append(word, "'"))
<1> DEFINE one == Append(out, "'")
           two == Append(one, "\\")
           three == Append(two, "'")
<1>1. "\\" \in D /\ "'" \in D
  BY DEF Marks
<1>2. one \in Seq(D) /\ two \in Seq(D) /\ three \in Seq(D)
  BY <1>1
<1>3. Reads(s, one) = ShellReads(Reads(s, out), "'")
  BY <1>1, ReadsMore
<1> HIDE DEF one
<1>4. Reads(s, two) = ShellReads(Reads(s, one), "\\")
  BY <1>1, <1>2, ReadsMore
<1> HIDE DEF two
<1>5. Reads(s, three) = ShellReads(Reads(s, two), "'")
  BY <1>1, <1>2, ReadsMore
<1> HIDE DEF three
<1>6. Reads(s, Append(three, "'")) = ShellReads(Reads(s, three), "'")
  BY <1>1, <1>2, ReadsMore
<1>7. ASSUME Reads(s, out) = Shell(words, word, TRUE, "quoted")
      PROVE  Reads(s, Append(three, "'")) = Shell(words, Append(word, "'"), TRUE, "quoted")
  <2>1. Reads(s, one) = Shell(words, word, TRUE, "plain")
    BY <1>3, <1>7, ReadsMark
  <2>2. Reads(s, two) = Shell(words, word, TRUE, "escaped")
    BY <1>4, <2>1, ReadsEscape
  <2>3. Reads(s, three) = Shell(words, Append(word, "'"), TRUE, "plain")
    BY <1>5, <2>2, ReadsEscaped
  <2> QED
    BY <1>6, <2>3, ReadsMark
<1> QED
  BY <1>7 DEF Quoting, PutMark, one, two, three

\* One character of the value more.
LEMMA QuotesOn ==
  ASSUME NEW D, Marks \subseteq D, NEW v \in Seq(D), NEW s, NEW words, NEW word \in Seq(D),
         NEW k \in 0..(Len(v) - 1), NEW m, NEW out, NEW left, NEW stop,
         QuotedTo(D, v, k, m, out, left, stop, s, words, word)
  PROVE  \E m1, out1, left1, stop1 :
           /\ Quoted(Quotation(out, left, stop), v[k + 1]) = Quotation(out1, left1, stop1)
           /\ QuotedTo(D, v, k + 1, m1, out1, left1, stop1, s, words, word)
<1> DEFINE c == v[k + 1]
           size == QuotedSize(v, m)
           more == QuotedSize(v, m + 1)
           sub == word \o SubSeq(v, 1, m)
           new == Quoted(Quotation(out, left, stop), c)
<1>1. k \in Nat /\ k + 1 \in Nat /\ m \in Nat /\ m <= k /\ QuoteMax \in Nat
  BY ShellTextAssumption DEF QuotedTo
<1>2. more = size + (IF v[m + 1] = "'" THEN 4 ELSE 1)
  BY <1>1, SizeGrows
<1>3. size \in Nat
  BY <1>1, SizeGrows
<1>4. /\ out \in Seq(D) /\ Len(out) = size - 1
      /\ size <= QuoteMax /\ left = QuoteMax + 1 - size
  BY DEF QuotedTo
<1>5. (m = k /\ stop = FALSE) \/ (m < k /\ more > QuoteMax /\ (stop = TRUE \/ left <= 1))
  BY DEF QuotedTo, Full
<1>6. Quoting(s, out, words, sub)
  BY DEF QuotedTo
<1>7. left \in Int /\ more \in Nat
  <2> DEFINE grown == IF v[m + 1] = "'" THEN 4 ELSE 1
  <2>1. grown \in Nat /\ more = size + grown
    BY <1>2
  <2> HIDE DEF size, more, grown
  <2> QED
    BY <1>1, <1>3, <1>4, <2>1
<1>8. ASSUME NEW stop1, new = Quotation(out, left, stop1), stop1 = TRUE \/ left <= 1,
             more > QuoteMax
      PROVE  QuotedTo(D, v, k + 1, m, out, left, stop1, s, words, word)
  <2>1. m \in 0..(k + 1) /\ m < k + 1
    BY <1>1
  <2>2. Full(v, m, left, stop1)
    BY <1>8 DEF Full
  <2> QED
    BY <1>4, <1>6, <2>1, <2>2 DEF QuotedTo
<1>9. ASSUME m = k, NEW out1, new = Quotation(out1, left - (more - size), FALSE),
             out1 \in Seq(D), Len(out1) = Len(out) + (more - size), left - (more - size) >= 1,
             Quoting(s, out1, words, Append(sub, c))
      PROVE  QuotedTo(D, v, k + 1, k + 1, out1, left - (more - size), FALSE, s, words, word)
  <2> DEFINE left1 == left - (more - size)
  <2>1. Append(sub, c) = word \o SubSeq(v, 1, k + 1)
    BY <1>9, Longer
  <2>2. k + 1 \in 0..(k + 1) /\ more = QuotedSize(v, k + 1)
    BY <1>1, <1>9
  <2> HIDE DEF size, more, sub, c, new
  <2>3. Len(out1) = more - 1 /\ more <= QuoteMax /\ left1 = QuoteMax + 1 - more
    BY <1>1, <1>3, <1>4, <1>7, <1>9
  <2> HIDE DEF left1
  <2>4. QuotedTo(D, v, k + 1, k + 1, out1, left1, FALSE, s, words, word)
    BY <1>9, <2>1, <2>2, <2>3 DEF QuotedTo
  <2> QED
    BY <2>4 DEF left1
<1> SUFFICES \E m1, out1, left1, stop1 :
               /\ new = Quotation(out1, left1, stop1)
               /\ QuotedTo(D, v, k + 1, m1, out1, left1, stop1, s, words, word)
  OBVIOUS
<1> HIDE DEF size, more, sub
<1>10. CASE stop = TRUE \/ left <= 1
  <2>1. more > QuoteMax
    BY <1>1, <1>2, <1>3, <1>4, <1>5, <1>10
  <2>2. new = Quotation(out, left, stop)
    BY <1>7, <1>10, QuoteStays
  <2> HIDE DEF new, c
  <2>3. QuotedTo(D, v, k + 1, m, out, left, stop, s, words, word)
    BY <1>8, <1>10, <2>1, <2>2
  <2> QED
    BY <2>2, <2>3
<1>11. CASE stop = FALSE /\ left > 1 /\ left <= 4 /\ c = "'"
  <2>1. m = k
    BY <1>5, <1>7, <1>11
  <2>2. more > QuoteMax
    <3>1. v[m + 1] = "'"
      BY <1>11, <2>1
    <3> HIDE DEF c, new
    <3> QED
      BY <1>1, <1>2, <1>3, <1>4, <1>11, <3>1
  <2>3. new = Quotation(out, left, TRUE)
    BY <1>7, <1>11, QuoteStops
  <2> HIDE DEF new, c
  <2>4. QuotedTo(D, v, k + 1, m, out, left, TRUE, s, words, word)
    BY <1>8, <2>2, <2>3
  <2> QED
    BY <2>3, <2>4
<1>12. CASE stop = FALSE /\ left > 4 /\ c = "'"
  <2> DEFINE out1 == PutMark(out)
  <2>1. m = k
    BY <1>5, <1>7, <1>12
  <2>2. more - size = 4
    <3>1. v[m + 1] = "'"
      BY <1>12, <2>1
    <3> HIDE DEF c, new
    <3> QED
      BY <1>2, <1>3, <3>1
  <2>3. "'" \in D /\ "\\" \in D
    BY DEF Marks
  <2>4. new = Quotation(out1, left - 4, FALSE)
    <3>1. Escape(c) = <<"'", "\\", "'">> /\ Len(Escape(c)) = 3
      BY <1>12 DEF Escape
    <3>2. new = Quotation(out \o Escape(c) \o <<c>>, left - Len(Escape(c)) - 1, FALSE)
      <4>1. left > 1 /\ (c = "'" => left > 4) /\ stop = FALSE
        BY <1>7, <1>12
      <4> QED
        BY <1>7, <4>1, QuotePuts
    <3> HIDE DEF new, c
    <3>3. left - Len(Escape(c)) - 1 = left - 4
      BY <1>7, <3>1
    <3>4. out \o <<"'", "\\", "'">> \o <<"'">> = out1
      BY <1>4, <2>3 DEF PutMark
    <3> QED
      BY <1>12, <3>1, <3>2, <3>3, <3>4
  <2>5. out1 \in Seq(D) /\ Len(out1) = Len(out) + 4
    BY <1>4, <2>3 DEF PutMark
  <2>6. Quoting(s, out1, words, Append(sub, c))
    <3>1. out \in Seq(D)
      BY <1>4
    <3> HIDE DEF c, new
    <3>2. Quoting(s, out1, words, Append(sub, "'"))
      BY <1>6, <3>1, ReadsPutMark
    <3> QED
      BY <1>12, <3>2
  <2> HIDE DEF new, c, out1
  <2>7. left - 4 >= 1
    BY <1>7, <1>12
  <2>8. QuotedTo(D, v, k + 1, k + 1, out1, left - 4, FALSE, s, words, word)
    BY <1>9, <2>1, <2>2, <2>4, <2>5, <2>6, <2>7
  <2> QED
    BY <2>4, <2>8
<1>13. CASE stop = FALSE /\ left > 1 /\ c # "'"
  <2> DEFINE out1 == Put1(out, c)
  <2>1. m = k
    BY <1>5, <1>7, <1>13
  <2>2. more - size = 1
    <3>1. v[m + 1] # "'"
      BY <1>13, <2>1
    <3> HIDE DEF c, new
    <3> QED
      BY <1>2, <1>3, <3>1
  <2>3. c \in D
    BY <1>1
  <2>4. new = Quotation(out1, left - 1, FALSE)
    <3>1. Escape(c) = << >> /\ Len(Escape(c)) = 0
      BY <1>13 DEF Escape
    <3>2. new = Quotation(out \o Escape(c) \o <<c>>, left - Len(Escape(c)) - 1, FALSE)
      BY <1>7, <1>13, QuotePuts
    <3> HIDE DEF new, c
    <3>3. left - Len(Escape(c)) - 1 = left - 1
      BY <1>7, <3>1
    <3>4. out \o << >> \o <<c>> = out1
      BY <1>4, <2>3 DEF Put1
    <3> QED
      BY <3>1, <3>2, <3>3, <3>4
  <2> HIDE DEF c, new
  <2>5. out1 \in Seq(D) /\ Len(out1) = Len(out) + 1
    BY <1>4, <2>3 DEF Put1
  <2>6. Quoting(s, out1, words, Append(sub, c))
    <3>1. out \in Seq(D)
      BY <1>4
    <3> QED
      BY <1>6, <1>13, <2>3, <3>1, ReadsOther
  <2> HIDE DEF out1
  <2>7. left - 1 >= 1
    BY <1>7, <1>13
  <2>8. QuotedTo(D, v, k + 1, k + 1, out1, left - 1, FALSE, s, words, word)
    BY <1>9, <2>1, <2>2, <2>4, <2>5, <2>6, <2>7
  <2> QED
    BY <2>4, <2>8
<1>14. \/ stop = TRUE \/ left <= 1
       \/ stop = FALSE /\ left > 1 /\ left <= 4 /\ c = "'"
       \/ stop = FALSE /\ left > 4 /\ c = "'"
       \/ stop = FALSE /\ left > 1 /\ c # "'"
  <2> HIDE DEF new, c
  <2> QED
    BY <1>5, <1>7
<1> HIDE DEF new, c
<1> QED
  BY <1>10, <1>11, <1>12, <1>13, <1>14

\* A value is quoted as far as its quoted form fits.
LEMMA KeptIs ==
  ASSUME NEW v, NEW n \in Nat, Len(v) = n, NEW m \in 0..n, QuotedSize(v, m) <= QuoteMax,
         m = n \/ QuotedSize(v, m + 1) > QuoteMax
  PROVE  Kept(v) = SubSeq(v, 1, m)
<1> DEFINE fits == {k \in 0..n : QuotedSize(v, k) <= QuoteMax}
<1>1. Kept(v) = SubSeq(v, 1, CHOOSE k \in fits : \A j \in fits : j <= k)
  <2> DEFINE size == [k \in 0..n |-> 2 + k + 3 * Cardinality({i \in 1..k : v[i] = "'"})]
  <2>1. DOMAIN size = 0..n /\ \A k \in 0..n : size[k] = QuotedSize(v, k)
    BY DEF QuotedSize
  <2>2. Kept(v) = LET f == {k \in DOMAIN size : size[k] <= QuoteMax}
                  IN SubSeq(v, 1, CHOOSE k \in f : \A j \in f : j <= k)
    BY DEF Kept
  <2>3. {k \in DOMAIN size : size[k] <= QuoteMax} = fits
    <3> HIDE DEF size
    <3> QED
      BY <2>1
  <2> HIDE DEF size, fits
  <2> QED
    BY <2>2, <2>3
<1>2. m \in fits
  OBVIOUS
<1>3. ASSUME NEW j \in fits PROVE j <= m
  <2>1. CASE m = n
    BY <2>1
  <2>2. CASE QuotedSize(v, m + 1) > QuoteMax
    <3> SUFFICES ASSUME m + 1 <= j PROVE FALSE
      OBVIOUS
    <3>1. m + 1 \in Nat /\ j \in Nat /\ QuotedSize(v, j) <= QuoteMax
      OBVIOUS
    <3>2. QuotedSize(v, m + 1) <= QuotedSize(v, j)
      BY <3>1, SizeIsMonotone
    <3>3. QuotedSize(v, m + 1) \in Nat /\ QuotedSize(v, j) \in Nat /\ QuoteMax \in Nat
      BY <3>1, SizeGrows, ShellTextAssumption
    <3> QED
      BY <2>2, <3>1, <3>2, <3>3
  <2> QED
    BY <2>1, <2>2
<1>4. fits \subseteq Nat
  OBVIOUS
<1> HIDE DEF fits
<1>5. (CHOOSE k \in fits : \A j \in fits : j <= k) = m
  <2> DEFINE best == CHOOSE k \in fits : \A j \in fits : j <= k
  <2>1. best \in fits /\ \A j \in fits : j <= best
    BY <1>2, <1>3
  <2> HIDE DEF best
  <2>2. best <= m /\ m <= best /\ best \in Nat
    BY <1>2, <1>3, <1>4, <2>1
  <2>3. best = m
    BY <2>2
  <2> QED
    BY <2>3 DEF best
<1> QED
  BY <1>1, <1>5

\* What a shell within a command is before a value and behind it.
QuotedSoFar(D, v, k, q, s, words, word) ==
  \E m, out, left, stop :
    q = Quotation(out, left, stop) /\ QuotedTo(D, v, k, m, out, left, stop, s, words, word)

\* The first quotation mark.
LEMMA QuoteBegins ==
  ASSUME NEW D, Marks \subseteq D, NEW v \in Seq(D), NEW words, NEW word \in Seq(D), NEW opened
  PROVE  QuotedSoFar(D, v, 0, Quotation(<<"'">>, QuoteMax - 1, FALSE),
                     Shell(words, word, opened, "plain"), words, word)
<1> DEFINE s == Shell(words, word, opened, "plain")
           none == << >>
           out == <<"'">>
<1>1. "'" \in D /\ none \in Seq(D) /\ out \in Seq(D) /\ Len(out) = 1 /\ out = Append(none, "'")
  BY DEF Marks
<1>2. QuotedSize(v, 0) = 2
  BY SizeGrows
<1>3. word \o SubSeq(v, 1, 0) = word
  OBVIOUS
<1>4. Reads(s, none) = s
  <2> HIDE DEF s
  <2> QED
    BY ReadsNone
<1>5. ShellReads(s, "'") = Shell(words, word, TRUE, "quoted")
  BY ReadsMark
<1> HIDE DEF s, out, none
<1>6. Reads(s, Append(none, "'")) = ShellReads(Reads(s, none), "'")
  BY <1>1, ReadsMore
<1>7. Quoting(s, out, words, word)
  BY <1>1, <1>4, <1>5, <1>6 DEF Quoting
<1> DEFINE sub == word \o SubSeq(v, 1, 0)
           size == QuotedSize(v, 0)
           left == QuoteMax - 1
<1>8. /\ 0 \in 0..0 /\ out \in Seq(D) /\ Len(out) = size - 1
      /\ size <= QuoteMax /\ left = QuoteMax + 1 - size
  BY <1>1, <1>2, ShellTextAssumption
<1>9. Quoting(s, out, words, sub)
  BY <1>3, <1>7
<1> HIDE DEF left
<1>10. QuotedTo(D, v, 0, 0, out, left, FALSE, s, words, word)
  BY <1>8, <1>9 DEF QuotedTo
<1>11. QuotedSoFar(D, v, 0, Quotation(out, left, FALSE), s, words, word)
  BY <1>10 DEF QuotedSoFar
<1> QED
  BY <1>11 DEF s, out, left

\* A text within a command that puts a part to a word of it, as it stands.
Adds(words, word, opened, text, part) ==
  Reads(Shell(words, word, opened, "plain"), text) = Shell(words, word \o part, TRUE, "plain")

\* A quoted value is what the shell puts to the word that it is in, as far as it fits.
LEMMA QuotedIsRead ==
  ASSUME NEW D, Marks \subseteq D, NEW v \in Seq(D), NEW words, NEW word \in Seq(D), NEW opened
  PROVE  /\ ShellQuote(v) \in Seq(D) /\ Len(ShellQuote(v)) <= QuoteMax
         /\ Adds(words, word, opened, ShellQuote(v), Kept(v))
<1> DEFINE s == Shell(words, word, opened, "plain")
           n == Len(v)
           base == Quotation(<<"'">>, QuoteMax - 1, FALSE)
<1>1. n \in Nat /\ DOMAIN v = 1..n
  OBVIOUS
<1>2. QuotedSoFar(D, v, 0, base, s, words, word)
  BY QuoteBegins
<1>3. ShellQuote(v) = Append(InQuoting!LeftFold(0, base, v).out, "'")
  BY DEF ShellQuote, Quotation, QuoteStep, InQuoting!LeftFold, FoldLeft, InQuoting!FoldLeft,
         MapThenFoldSet, InQuoting!MapThenFoldSet, Max, InQuoting!Max
<1> HIDE DEF s, n, base
<1>21. PICK r : InQuoting!Stepwise(0, base, n, v, r)
  BY <1>1, InQuoting!FoldsStepwise
<1>4. /\ r[0] = base
      /\ \A k \in 1..n : r[k] = QuoteStep(0, r[k - 1], v[k])
      /\ InQuoting!LeftFold(0, base, v) = r[n]
  BY <1>21 DEF InQuoting!Stepwise
<1> DEFINE S == {k \in 0..n : QuotedSoFar(D, v, k, r[k], s, words, word)}
<1>5. ASSUME NEW k \in 0..(n - 1), k \in S PROVE k + 1 \in S
  <2>1. k + 1 \in 1..n /\ (k + 1) - 1 = k /\ k + 1 \in 0..n /\ k \in 0..(Len(v) - 1)
    BY <1>1 DEF n
  <2>2. r[k + 1] = Quoted(r[k], v[k + 1])
    BY <1>4, <2>1 DEF QuoteStep
  <2>3. PICK m, out, left, stop :
          /\ r[k] = Quotation(out, left, stop)
          /\ QuotedTo(D, v, k, m, out, left, stop, s, words, word)
    BY <1>5 DEF QuotedSoFar
  <2>4. QuotedSoFar(D, v, k + 1, Quoted(Quotation(out, left, stop), v[k + 1]), s, words, word)
    BY <2>1, <2>3, QuotesOn DEF QuotedSoFar
  <2> QED
    BY <2>1, <2>2, <2>3, <2>4
<1>6. n \in S
  <2>1. 0 \in S /\ n \in 0..n
    BY <1>1, <1>2, <1>4
  <2> HIDE DEF S
  <2> QED
    BY <1>1, <1>5, <2>1, InQuoting!Induction
<1>7. PICK m, out, left, stop :
        /\ r[n] = Quotation(out, left, stop)
        /\ QuotedTo(D, v, n, m, out, left, stop, s, words, word)
  BY <1>6 DEF QuotedSoFar
<1>8. ShellQuote(v) = Append(out, "'")
  <2>1. r[n].out = out
    BY <1>7 DEF Quotation
  <2> QED
    BY <1>3, <1>4, <2>1
<1>9. /\ m \in 0..n /\ out \in Seq(D) /\ Len(out) = QuotedSize(v, m) - 1
      /\ QuotedSize(v, m) <= QuoteMax
      /\ m = n \/ QuotedSize(v, m + 1) > QuoteMax
      /\ Quoting(s, out, words, word \o SubSeq(v, 1, m))
  BY <1>7 DEF QuotedTo, Full
<1>10. Kept(v) = SubSeq(v, 1, m)
  BY <1>1, <1>9, KeptIs DEF n
<1>11. "'" \in D
  BY DEF Marks
<1>12. Append(out, "'") \in Seq(D) /\ Len(Append(out, "'")) = QuotedSize(v, m)
  <2>1. QuotedSize(v, m) \in Nat
    BY <1>1, <1>9, SizeGrows
  <2> QED
    BY <1>9, <1>11, <2>1
<1>13. Reads(s, Append(out, "'")) = ShellReads(Reads(s, out), "'")
  BY <1>9, <1>11, ReadsMore
<1> DEFINE longer == word \o SubSeq(v, 1, m)
<1> HIDE DEF longer
<1>14. Reads(s, out) = Shell(words, longer, TRUE, "quoted")
  BY <1>9 DEF Quoting, longer
<1>15. ShellReads(Shell(words, longer, TRUE, "quoted"), "'") = Shell(words, longer, TRUE, "plain")
  BY ReadsMark
<1>16. Reads(s, ShellQuote(v)) = Shell(words, longer, TRUE, "plain")
  BY <1>8, <1>13, <1>14, <1>15
<1> QED
  BY <1>8, <1>9, <1>10, <1>12, <1>16 DEF s, longer, Adds

\* A shell that has read a text, outside of quotation marks.
Plainly(s, out, words, word) == Reads(s, out) = Shell(words, word, TRUE, "plain")

Escape1(out, c) == Append(Append(out, "\\"), c)

LEMMA ReadsEscape1 ==
  ASSUME NEW D, Marks \subseteq D, NEW out \in Seq(D), NEW s, NEW words, NEW word, NEW c \in D
  PROVE  Plainly(s, out, words, word) => Plainly(s, Escape1(out, c), words, Append(word, c))
<1> DEFINE one == Append(out, "\\")
<1>1. "\\" \in D /\ one \in Seq(D)
  BY DEF Marks
<1>2. Reads(s, one) = ShellReads(Reads(s, out), "\\")
  BY <1>1, ReadsMore
<1> HIDE DEF one
<1>3. Reads(s, Append(one, c)) = ShellReads(Reads(s, one), c)
  BY <1>1, ReadsMore
<1>4. ASSUME Reads(s, out) = Shell(words, word, TRUE, "plain")
      PROVE  Reads(s, Append(one, c)) = Shell(words, Append(word, c), TRUE, "plain")
  <2>1. Reads(s, one) = Shell(words, word, TRUE, "escaped")
    BY <1>2, <1>4, ReadsEscape
  <2> QED
    BY <1>3, <2>1, ReadsEscaped
<1> QED
  BY <1>4 DEF Plainly, Escape1, one

\* A value of which every character is escaped is what the shell puts to its word.
LEMMA EscapedIsRead ==
  ASSUME NEW D, Marks \subseteq D, NEW v \in Seq(D), NEW words, NEW word \in Seq(D), NEW opened
  PROVE  /\ Escaped(v) \in Seq(D)
         /\ Adds(words, word, opened, Escaped(v), v)
<1> DEFINE s == Shell(words, word, opened, "plain")
           n == Len(v)
           none == << >>
           half == <<"'">>
           base == <<"'", "'">>
           part(k) == word \o SubSeq(v, 1, k)
<1>1. /\ n \in Nat /\ DOMAIN v = 1..n /\ "'" \in D
      /\ none \in Seq(D) /\ half \in Seq(D) /\ base \in Seq(D)
      /\ half = Append(none, "'") /\ base = Append(half, "'")
  BY DEF Marks
<1>2. Escaped(v) = InEscaping!LeftFold(0, base, v)
  BY DEF Escaped, EscapeStep, InEscaping!LeftFold, FoldLeft, InEscaping!FoldLeft,
         MapThenFoldSet, InEscaping!MapThenFoldSet, Max, InEscaping!Max
<1>3. word \o SubSeq(v, 1, 0) = word /\ word \o SubSeq(v, 1, n) = word \o v
  <2>1. SubSeq(v, 1, 0) = << >> /\ SubSeq(v, 1, n) = v
    OBVIOUS
  <2> QED
    BY <2>1
<1>4. Reads(s, none) = s
  <2> HIDE DEF s
  <2> QED
    BY ReadsNone
<1>5. ShellReads(s, "'") = Shell(words, word, TRUE, "quoted")
  BY ReadsMark
<1>6. ShellReads(Shell(words, word, TRUE, "quoted"), "'") = Shell(words, word, TRUE, "plain")
  BY ReadsMark
<1> HIDE DEF s, n, none, half, base, part
<1>7. Reads(s, half) = ShellReads(Reads(s, none), "'")
  BY <1>1, ReadsMore
<1>8. Reads(s, base) = ShellReads(Reads(s, half), "'")
  <2>1. Reads(s, Append(half, "'")) = ShellReads(Reads(s, half), "'")
    <3>1. half \in Seq(D) /\ "'" \in D
      BY <1>1
    <3> QED
      BY <3>1, ReadsMore
  <2> QED
    BY <1>1, <2>1
<1>9. Plainly(s, base, words, part(0))
  BY <1>3, <1>4, <1>5, <1>6, <1>7, <1>8 DEF Plainly, part
<1>10. PICK r : InEscaping!Stepwise(0, base, n, v, r)
  BY <1>1, InEscaping!FoldsStepwise
<1>11. /\ r[0] = base
       /\ \A k \in 1..n : r[k] = r[k - 1] \o <<"\\", v[k]>>
       /\ InEscaping!LeftFold(0, base, v) = r[n]
  BY <1>10 DEF InEscaping!Stepwise, EscapeStep
<1> DEFINE S == {k \in 0..n : r[k] \in Seq(D) /\ Plainly(s, r[k], words, part(k))}
<1>12. ASSUME NEW k \in 0..(n - 1), k \in S PROVE k + 1 \in S
  <2>1. k + 1 \in 1..n /\ (k + 1) - 1 = k /\ k + 1 \in 0..n /\ k \in 0..(Len(v) - 1)
    BY <1>1 DEF n
  <2>2. v[k + 1] \in D /\ part(k + 1) = Append(part(k), v[k + 1])
    BY <2>1, Longer DEF part
  <2>3. r[k + 1] = Escape1(r[k], v[k + 1]) /\ r[k + 1] \in Seq(D)
    <3> DEFINE out == r[k]
               c == v[k + 1]
    <3>1. r[k + 1] = out \o <<"\\", c>>
      BY <1>11, <2>1
    <3>2. out \in Seq(D) /\ c \in D /\ "\\" \in D
      BY <1>12, <2>2 DEF Marks
    <3> HIDE DEF out, c
    <3>3. out \o <<"\\", c>> = Escape1(out, c) /\ Escape1(out, c) \in Seq(D)
      BY <3>2 DEF Escape1
    <3> QED
      BY <3>1, <3>3 DEF out, c
  <2>4. r[k] \in Seq(D) /\ Plainly(s, r[k], words, part(k))
    BY <1>12
  <2>5. Plainly(s, Escape1(r[k], v[k + 1]), words, Append(part(k), v[k + 1]))
    BY <2>2, <2>4, ReadsEscape1
  <2> QED
    BY <2>1, <2>2, <2>3, <2>5
<1>13. n \in S
  <2>1. r[0] \in Seq(D) /\ Plainly(s, r[0], words, part(0))
    <3>1. base \in Seq(D)
      BY <1>1
    <3> QED
      BY <1>9, <1>11, <3>1
  <2>2. 0 \in 0..n /\ n \in 0..n
    BY <1>1
  <2>3. 0 \in S
    BY <2>1, <2>2
  <2> HIDE DEF S
  <2> QED
    BY <1>1, <1>12, <2>2, <2>3, InEscaping!Induction
<1> QED
  BY <1>2, <1>3, <1>11, <1>13 DEF Plainly, part, s, Adds

--------------------------------------------------------------------------------
(* Commands. *)

\* A shell that has not read anything.
Idle == Shell(<< >>, << >>, FALSE, "plain")

LEMMA WordsAreRead ==
  ASSUME NEW text
  PROVE  ShellWords(text) = [words |-> EndWord(Reads(Idle, text)).words,
                             complete |-> Reads(Idle, text).mode = "plain"]
BY DEF ShellWords, Idle, Shell, Reads, ReadStep, InReading!LeftFold, FoldLeft,
       InReading!FoldLeft, MapThenFoldSet, InReading!MapThenFoldSet, Max, InReading!Max

\* A shell at any place of a command: in a word of characters, or in none.
IsShell(D, s) ==
  \E words, word, opened, mode :
    /\ s = Shell(words, word, opened, mode) /\ word \in Seq(D)
    /\ mode \in {"plain", "quoted", "escaped"}
    /\ opened = TRUE \/ (opened = FALSE /\ word = << >>)

LEMMA StaysShell ==
  ASSUME NEW D, NEW s, IsShell(D, s), NEW c \in D
  PROVE  IsShell(D, ShellReads(s, c))
<1>1. PICK words, word, opened, mode :
        /\ s = Shell(words, word, opened, mode) /\ word \in Seq(D)
        /\ mode \in {"plain", "quoted", "escaped"}
        /\ opened = TRUE \/ (opened = FALSE /\ word = << >>)
  BY DEF IsShell
<1>2. << >> \in Seq(D) /\ Append(word, c) \in Seq(D)
  BY <1>1
<1>3. CASE mode = "escaped"
  <2>1. ShellReads(s, c) = Shell(words, Append(word, c), TRUE, "plain")
    BY <1>1, <1>3, ReadsEscaped
  <2> QED
    BY <1>2, <2>1 DEF IsShell
<1>4. CASE mode = "quoted" /\ c = "'"
  <2>1. ShellReads(s, c) = Shell(words, word, opened, "plain")
    BY <1>1, <1>4, ReadsMark
  <2> QED
    BY <1>1, <2>1 DEF IsShell
<1>5. CASE mode = "quoted" /\ c # "'"
  <2>0. s = Shell(words, word, opened, "quoted") /\ c # "'"
    BY <1>1, <1>5
  <2>1. ShellReads(s, c) = Shell(words, Append(word, c), TRUE, "quoted")
    BY <2>0, ReadsInQuotes
  <2> QED
    BY <1>2, <2>1 DEF IsShell
<1>6. CASE mode = "plain" /\ c = "'"
  <2>1. ShellReads(s, c) = Shell(words, word, TRUE, "quoted")
    BY <1>1, <1>6, ReadsMark
  <2> QED
    BY <1>1, <2>1 DEF IsShell
<1>7. CASE mode = "plain" /\ c = "\\"
  <2>1. ShellReads(s, c) = Shell(words, word, TRUE, "escaped")
    BY <1>1, <1>7, ReadsEscape
  <2> QED
    BY <1>1, <2>1 DEF IsShell
<1>8. CASE mode = "plain" /\ c = " "
  <2>1. \/ ShellReads(s, c) = Shell(Append(words, word), << >>, FALSE, "plain")
        \/ ShellReads(s, c) = Shell(words, word, opened, "plain")
    BY <1>1, <1>8 DEF ShellReads, ReadsPlain, EndWord, Shell
  <2> QED
    BY <1>1, <1>2, <2>1 DEF IsShell
<1>9. CASE mode = "plain" /\ c = "|"
  <2>1. \/ ShellReads(s, c) = Shell(Append(Append(words, word), <<"pipe">>), << >>, FALSE, "plain")
        \/ ShellReads(s, c) = Shell(Append(words, <<"pipe">>), word, opened, "plain")
    BY <1>1, <1>9 DEF ShellReads, ReadsPlain, EndWord, Shell
  <2> QED
    BY <1>1, <1>2, <2>1 DEF IsShell
<1>10. CASE mode = "plain" /\ c \notin {"'", "\\", " ", "|"}
  <2>1. ShellReads(s, c) = Shell(words, Append(word, c), TRUE, "plain")
    BY <1>1, <1>10 DEF ShellReads, ReadsPlain, Put, Shell
  <2> QED
    BY <1>2, <2>1 DEF IsShell
<1> QED
  BY <1>1, <1>3, <1>4, <1>5, <1>6, <1>7, <1>8, <1>9, <1>10

LEMMA ReadIsShell ==
  ASSUME NEW D, NEW text \in Seq(D)
  PROVE  IsShell(D, Reads(Idle, text))
<1> DEFINE n == Len(text)
<1>1. n \in Nat /\ DOMAIN text = 1..n /\ \A k \in 1..n : text[k] \in D
  OBVIOUS
<1> HIDE DEF n
<1>2. PICK r : InReading!Stepwise(0, Idle, n, text, r)
  BY <1>1, InReading!FoldsStepwise
<1>3. /\ r[0] = Idle
      /\ \A k \in 1..n : r[k] = ShellReads(r[k - 1], text[k])
      /\ Reads(Idle, text) = r[n]
  BY <1>2 DEF InReading!Stepwise, ReadStep, Reads
<1> DEFINE S == {k \in 0..n : IsShell(D, r[k])}
<1>4. IsShell(D, Idle)
  <2>1. << >> \in Seq(D)
    OBVIOUS
  <2> QED
    BY <2>1 DEF IsShell, Idle
<1>5. ASSUME NEW k \in 0..(n - 1), k \in S PROVE k + 1 \in S
  <2>1. k + 1 \in 1..n /\ (k + 1) - 1 = k /\ k + 1 \in 0..n
    BY <1>1
  <2>2. r[k + 1] = ShellReads(r[k], text[k + 1]) /\ text[k + 1] \in D
    BY <1>1, <1>3, <2>1
  <2> QED
    BY <1>5, <2>1, <2>2, StaysShell
<1>6. n \in S
  <2>1. 0 \in S /\ n \in 0..n
    BY <1>1, <1>3, <1>4
  <2> HIDE DEF S
  <2> QED
    BY <1>1, <1>5, <2>1, InReading!Induction
<1> QED
  BY <1>3, <1>6

\* What is kept of a value is its beginning.
LEMMA KeptIsText ==
  ASSUME NEW D, NEW v \in Seq(D)
  PROVE  Kept(v) \in Seq(D)
<1> DEFINE n == Len(v)
           fits == {k \in 0..n : QuotedSize(v, k) <= QuoteMax}
<1>1. n \in Nat
  OBVIOUS
<1> HIDE DEF n
<1>2. QuotedSize(v, 0) = 2 /\ 0 \in 0..n
  BY <1>1, SizeGrows
<1>3. 0 \in fits
  BY <1>2, ShellTextAssumption
<1>4. PICK m \in 0..n : /\ QuotedSize(v, m) <= QuoteMax
                        /\ m = n \/ QuotedSize(v, m + 1) > QuoteMax
  <2> DEFINE S == {k \in 0..n : QuotedSize(v, k) <= QuoteMax}
  <2> SUFFICES ASSUME \A k \in 0..n : QuotedSize(v, k) <= QuoteMax
                        => k # n /\ ~(QuotedSize(v, k + 1) > QuoteMax)
               PROVE  FALSE
    OBVIOUS
  <2>1. ASSUME NEW k \in 0..(n - 1), k \in S PROVE k + 1 \in S
    <3>1. k \in 0..n /\ k + 1 \in 0..n /\ k \in Nat /\ k + 1 \in Nat
      BY <1>1
    <3>2. QuotedSize(v, k + 1) \in Nat /\ QuoteMax \in Nat
      BY <3>1, SizeGrows, ShellTextAssumption
    <3>3. ~(QuotedSize(v, k + 1) > QuoteMax)
      BY <2>1, <3>1
    <3> QED
      BY <3>1, <3>2, <3>3
  <2>2. 0 \in S /\ n \in 0..n
    BY <1>1, <1>3
  <2> HIDE DEF S
  <2>3. n \in S
    BY <1>1, <2>1, <2>2, InReading!Induction
  <2> QED
    BY <2>3 DEF S
<1>5. Kept(v) = SubSeq(v, 1, m)
  BY <1>1, <1>4, KeptIs DEF n
<1> QED
  BY <1>1, <1>5 DEF n

\* util_shellquote(): wherever a value is put into a command, outside of quotation marks
\* of the command's own, it stands for itself, character by character, and so it can
\* neither end a word or a command nor begin one; only what does not fit into the buffer
\* is left out, and the buffer does not overflow.
THEOREM ValuesAreQuoted ==
  ASSUME NEW D, Marks \subseteq D, NEW v \in Seq(D), NEW before \in Seq(D), NEW after \in Seq(D),
         ShellWords(before).complete
  PROVE  /\ Len(ShellQuote(v)) <= QuoteMax
         /\ ShellWords(before \o ShellQuote(v) \o after)
              = ShellWords(before \o Escaped(Kept(v)) \o after)
<1> DEFINE reached == Reads(Idle, before)
           kept == Kept(v)
           quoted == ShellQuote(v)
           escaped == Escaped(kept)
<1>1. kept \in Seq(D)
  BY KeptIsText
<1>2. reached.mode = "plain"
  BY WordsAreRead
<1>3. PICK words, word, opened, mode :
        /\ reached = Shell(words, word, opened, mode) /\ word \in Seq(D)
        /\ mode \in {"plain", "quoted", "escaped"}
        /\ opened = TRUE \/ (opened = FALSE /\ word = << >>)
  BY ReadIsShell DEF IsShell
<1>4. reached = Shell(words, word, opened, "plain") /\ word \in Seq(D)
  BY <1>2, <1>3 DEF Shell
<1> HIDE DEF quoted, escaped, reached, kept
<1>5. /\ quoted \in Seq(D) /\ Len(quoted) <= QuoteMax
      /\ Adds(words, word, opened, quoted, kept)
  <2>1. word \in Seq(D)
    BY <1>4
  <2> QED
    BY <2>1, QuotedIsRead DEF quoted, kept
<1>6. escaped \in Seq(D) /\ Adds(words, word, opened, escaped, kept)
  <2>1. word \in Seq(D)
    BY <1>4
  <2> QED
    BY <1>1, <2>1, EscapedIsRead DEF escaped
<1>7. Reads(reached, quoted) = Reads(reached, escaped)
  BY <1>4, <1>5, <1>6 DEF Adds
<1>8. ASSUME NEW text \in Seq(D)
      PROVE  Reads(Idle, before \o text \o after) = Reads(Reads(reached, text), after)
  <2> DEFINE both == before \o text
  <2>1. both \in Seq(D)
    OBVIOUS
  <2>2. Reads(Idle, both) = Reads(reached, text)
    BY ReadsBoth DEF reached
  <2> HIDE DEF both
  <2>3. Reads(Idle, both \o after) = Reads(Reads(Idle, both), after)
    BY <2>1, ReadsBoth
  <2> QED
    BY <2>2, <2>3 DEF both
<1>9. Reads(Idle, before \o quoted \o after) = Reads(Idle, before \o escaped \o after)
  BY <1>5, <1>6, <1>7, <1>8
<1> DEFINE one == before \o quoted \o after
           two == before \o escaped \o after
<1> HIDE DEF one, two
<1>10. ShellWords(one) = ShellWords(two)
  BY <1>9, WordsAreRead DEF one, two
<1> QED
  BY <1>5, <1>10 DEF one, two, quoted, escaped, kept

\* A blank ends the word, if there is one.
Blank == " "

LEMMA ReadsBlank ==
  ASSUME NEW s, s.mode = "plain"
  PROVE  ShellReads(s, Blank) = EndWord(s)
BY DEF ShellReads, ReadsPlain, Blank

LEMMA EndOfWord ==
  ASSUME NEW words, NEW word
  PROVE  /\ EndWord(Shell(words, word, TRUE, "plain"))
              = Shell(Append(words, word), << >>, FALSE, "plain")
         /\ EndWord(Shell(words, word, FALSE, "plain")) = Shell(words, word, FALSE, "plain")
<1>1. EndWord(Shell(words, word, FALSE, "plain")) = Shell(words, word, FALSE, "plain")
  BY DEF EndWord, Shell
<1>2. EndWord(Shell(words, word, TRUE, "plain"))
        = Shell(Append(words, word), << >>, FALSE, "plain")
  <2> DEFINE more == Append(words, word)
             no == FALSE
             yes == TRUE
             none == << >>
             plain == "plain"
             s == Shell(words, word, yes, plain)
  <2>1. EndWord(s) = [s EXCEPT !.words = more, !.word = none, !.open = no]
    BY DEF EndWord, Shell
  <2> HIDE DEF more, no, yes, none, plain
  <2>2. [s EXCEPT !.words = more] = Shell(more, word, yes, plain)
    BY DEF Shell
  <2>3. [Shell(more, word, yes, plain) EXCEPT !.word = none] = Shell(more, none, yes, plain)
    BY DEF Shell
  <2>4. [Shell(more, none, yes, plain) EXCEPT !.open = no] = Shell(more, none, no, plain)
    BY DEF Shell
  <2> HIDE DEF s
  <2>5. [s EXCEPT !.words = more, !.word = none, !.open = no]
          = [[[s EXCEPT !.words = more] EXCEPT !.word = none] EXCEPT !.open = no]
    OBVIOUS
  <2> QED
    BY <2>1, <2>2, <2>3, <2>4, <2>5 DEF s, more, no, yes, none, plain
<1> QED
  BY <1>1, <1>2

\* After a blank, and with nothing behind it, a value is one word of the command: the
\* value, and neither less than one word nor more.
THEOREM ValueIsAWord ==
  ASSUME NEW D, Marks \subseteq D, Blank \in D, NEW v \in Seq(D), NEW before \in Seq(D),
         ShellWords(before).complete
  PROVE  ShellWords(Append(before, Blank) \o ShellQuote(v))
           = [words |-> Append(ShellWords(before).words, Kept(v)), complete |-> TRUE]
<1> DEFINE reached == Reads(Idle, before)
           kept == Kept(v)
           quoted == ShellQuote(v)
           none == << >>
           blank == Append(before, Blank)
           past == EndWord(reached).words
<1>1. kept \in Seq(D)
  BY KeptIsText
<1>16. none \in Seq(D)
  OBVIOUS
<1>17. blank \in Seq(D)
  OBVIOUS
<1>2. reached.mode = "plain"
  BY WordsAreRead
<1>3. PICK words, word, opened, mode :
        /\ reached = Shell(words, word, opened, mode) /\ word \in Seq(D)
        /\ mode \in {"plain", "quoted", "escaped"}
        /\ opened = TRUE \/ (opened = FALSE /\ word = << >>)
  BY ReadIsShell DEF IsShell
<1>4. ShellReads(reached, Blank) = EndWord(reached)
  <2> HIDE DEF reached
  <2> QED
    BY <1>2, ReadsBlank
<1>5. EndWord(reached) = Shell(past, none, FALSE, "plain")
  <2>1. reached = Shell(words, word, opened, "plain")
    BY <1>2, <1>3 DEF Shell
  <2> HIDE DEF reached
  <2>2. CASE opened = TRUE
    <3>1. reached = Shell(words, word, TRUE, "plain")
      BY <2>1, <2>2
    <3>2. EndWord(reached) = Shell(Append(words, word), none, FALSE, "plain")
      BY <3>1, EndOfWord
    <3> HIDE DEF none
    <3>3. past = Append(words, word)
      BY <3>2 DEF Shell
    <3> QED
      BY <3>2, <3>3
  <2>3. CASE opened = FALSE /\ word = << >>
    <3>1. reached = Shell(words, none, FALSE, "plain")
      BY <2>1, <2>3
    <3> HIDE DEF none
    <3>2. EndWord(reached) = Shell(words, none, FALSE, "plain")
      BY <3>1, EndOfWord
    <3>3. past = words
      BY <3>2 DEF Shell
    <3> QED
      BY <3>2, <3>3
  <2> QED
    BY <1>3, <2>2, <2>3
<1> HIDE DEF past, none, kept, quoted
<1>6. Reads(Idle, blank) = ShellReads(reached, Blank)
  BY ReadsMore
<1> HIDE DEF reached, blank
<1>7. quoted \in Seq(D) /\ Adds(past, none, FALSE, quoted, kept)
  BY <1>16, QuotedIsRead DEF quoted, kept
<1>8. none \o kept = kept
  BY <1>1 DEF none
<1>9. Reads(Idle, blank \o quoted) = Reads(Reads(Idle, blank), quoted)
  BY <1>7, <1>17, ReadsBoth
<1>10. Reads(Idle, blank \o quoted) = Shell(past, kept, TRUE, "plain")
  BY <1>4, <1>5, <1>6, <1>7, <1>8, <1>9 DEF Adds
<1>11. EndWord(Shell(past, kept, TRUE, "plain")).words = Append(past, kept)
  BY DEF EndWord, Shell
<1>12. Shell(past, kept, TRUE, "plain").mode = "plain"
  BY DEF Shell
<1> DEFINE text == blank \o quoted
<1> HIDE DEF text
<1>13. Reads(Idle, text) = Shell(past, kept, TRUE, "plain")
  BY <1>10 DEF text
<1>14. ShellWords(text) = [words |-> Append(past, kept), complete |-> TRUE]
  <2> DEFINE w == EndWord(Reads(Idle, text)).words
  <2>1. ShellWords(text) = [words |-> w, complete |-> Reads(Idle, text).mode = "plain"]
    BY WordsAreRead
  <2>2. w = Append(past, kept)
    BY <1>11, <1>13
  <2>3. Reads(Idle, text).mode = "plain"
    BY <1>12, <1>13
  <2> HIDE DEF w
  <2> QED
    BY <2>1, <2>2, <2>3
<1>15. ShellWords(before).words = past
  BY WordsAreRead DEF past, reached
<1> QED
  BY <1>14, <1>15 DEF text, blank, quoted, kept
================================================================================
