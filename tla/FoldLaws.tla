-------------------------------- MODULE FoldLaws --------------------------------
(***************************************************************************)
(* What a fold makes of a sequence, step by step: the reading of a file, of  *)
(* a block of it and of a command line are folds, and so is quoting.  The    *)
(* library defines them by recursion over sets of places; here that is shown *)
(* to be a walk from the first element to the last.                          *)
(*                                                                          *)
(* op is the operation, and its first argument what stays the same in all    *)
(* steps.  A module that has a fold takes its laws by INSTANCE.               *)
(***************************************************************************)
EXTENDS SequencesExt, WellFoundedInduction, TLAPS

CONSTANT op(_, _, _)

LeftFold(c, base, seq) == FoldLeft(LAMBDA r, x : op(c, r, x), base, seq)

--------------------------------------------------------------------------------
(* Natural numbers: the least of them, and the greatest of a set. *)

LessThan == {p \in Nat \X Nat : p[1] < p[2]}

\* There is no endless descent in the natural numbers.
LEMMA LessThanWellFounded == IsWellFoundedOn(LessThan, Nat)
BY NatLessThanWellFounded DEF OpToRel, LessThan

\* A set of natural numbers has a least one.
LEMMA Least ==
  ASSUME NEW T, T \subseteq Nat, T # {}
  PROVE \E n \in T : \A m \in T : n <= m
<1>1. PICK n \in T : \A m \in T : ~ (<<m, n>> \in LessThan)
  BY LessThanWellFounded, WFMin
<1>2. \A m \in T : ~(m < n)
  BY <1>1 DEF LessThan
<1> QED
  BY <1>2

\* What holds at first, and is handed on from each step to the next, holds to the end.
LEMMA Induction ==
  ASSUME NEW n \in Nat, NEW S, 0 \in S, \A k \in 0..(n - 1) : k \in S => k + 1 \in S
  PROVE  \A k \in 0..n : k \in S
<1> DEFINE Bad == (0..n) \ S
<1> SUFFICES ASSUME Bad # {} PROVE FALSE
  OBVIOUS
<1>1. PICK k \in Bad : \A m \in Bad : k <= m
  <2>1. Bad \subseteq Nat
    OBVIOUS
  <2> HIDE DEF Bad
  <2> QED
    BY <2>1, Least
<1>2. k # 0
  OBVIOUS
<1>3. k - 1 \in 0..(n - 1) /\ k - 1 \notin Bad
  BY <1>1, <1>2
<1> QED
  BY <1>3

\* A set of places has a last one.
LEMMA MaxOf ==
  ASSUME NEW n \in Nat, NEW S, S \subseteq 1..n, S # {}
  PROVE  Max(S) \in S /\ \A x \in S : x <= Max(S)
<1> DEFINE T == {n - x : x \in S}
<1>1. \A x \in S : x \in Nat /\ x <= n
  OBVIOUS
<1>2. T \subseteq Nat /\ T # {}
  <2>1. \A x \in S : n - x \in Nat
    BY <1>1
  <2> QED
    BY <2>1
<1>3. PICK d \in T : \A m \in T : d <= m
  BY <1>2, Least
<1>4. PICK x \in S : d = n - x
  OBVIOUS
<1>5. ASSUME NEW y \in S PROVE y <= x
  <2>1. n - y \in T
    OBVIOUS
  <2>2. d <= n - y
    BY <1>3, <2>1
  <2> QED
    BY <1>1, <1>4, <2>2
<1> QED
  BY <1>4, <1>5 DEF Max

\* A fold from the left is what its steps make of the base, one element after another.
LEMMA FoldsFromLeft ==
  ASSUME NEW c, NEW base, NEW n \in Nat, NEW seq, DOMAIN seq = 1..n
  PROVE  \E r : /\ r[0] = base
                /\ \A k \in 1..n : r[k] = op(c, r[k - 1], seq[k])
                /\ LeftFold(c, base, seq) = r[n]
<1> DEFINE Value(h, s) == IF s = {} THEN base
                          ELSE op(c, h[s \ {Max(s)}], seq[Max(s)])
           Good(h, k) == \A s \in SUBSET (1..k) : h[s] = Value(h, s)
           Bad == {k \in 0..n : ~ \E h : Good(h, k)}
<1>1. \E h : Good(h, 0)
  <2> DEFINE h == [s \in {{}} |-> base]
  <2>1. Good(h, 0)
    OBVIOUS
  <2> QED
    BY <2>1
<1>2. ASSUME NEW k \in 0..(n - 1), NEW h, Good(h, k)
      PROVE  \E g : Good(g, k + 1)
  <2> DEFINE g == [s \in SUBSET (1..n) |-> Value(h, s)]
  <2>1. ASSUME NEW s \in SUBSET (1..(k + 1)) PROVE g[s] = Value(g, s)
    <3>1. CASE s = {}
      BY <3>1
    <3>2. CASE s # {}
      <4> DEFINE t == s \ {Max(s)}
      <4>1. Max(s) \in s /\ \A x \in s : x <= Max(s)
        <5>1. k + 1 \in Nat
          OBVIOUS
        <5>2. s \subseteq 1..(k + 1)
          OBVIOUS
        <5> HIDE DEF t, g
        <5> QED
          BY <3>2, <5>1, <5>2, MaxOf
      <4>2. t \in SUBSET (1..k)
        <5> SUFFICES ASSUME NEW x \in t PROVE x \in 1..k
          OBVIOUS
        <5>1. x \in 1..(k + 1) /\ Max(s) \in 1..(k + 1) /\ x <= Max(s) /\ x # Max(s)
          BY <4>1
        <5> QED
          BY <5>1
      <4>3. t \in SUBSET (1..n) /\ s \in SUBSET (1..n)
        <5>1. 1..(k + 1) \subseteq 1..n
          OBVIOUS
        <5> QED
          BY <5>1
      <4>4. g[t] = Value(h, t)
        BY <4>3
      <4>5. Value(h, t) = h[t]
        BY <4>2, <1>2
      <4>6. g[s] = op(c, h[t], seq[Max(s)])
        BY <4>3, <3>2
      <4> HIDE DEF g
      <4> QED
        BY <4>4, <4>5, <4>6, <3>2
    <3> QED
      BY <3>1, <3>2
  <2> QED
    BY <2>1
<1>3. Bad = {}
  <2> HIDE DEF Good
  <2> SUFFICES ASSUME Bad # {} PROVE FALSE
    OBVIOUS
  <2>1. PICK k \in Bad : \A m \in Bad : k <= m
    <3>1. Bad \subseteq Nat
      OBVIOUS
    <3> HIDE DEF Bad
    <3> QED
      BY <3>1, Least
  <2>2. k # 0
    BY <1>1
  <2>3. k - 1 \in 0..(n - 1) /\ k - 1 \notin Bad
    BY <2>1, <2>2
  <2>4. \E h : Good(h, k - 1)
    BY <2>3
  <2> QED
    BY <1>2, <2>3, <2>4
<1>4. PICK h : Good(h, n)
  <2> HIDE DEF Good
  <2>1. n \in 0..n
    OBVIOUS
  <2> QED
    BY <1>3, <2>1
<1> DEFINE f == [s \in SUBSET (1..n) |-> Value(h, s)]
           iter == CHOOSE g : g = [s \in SUBSET (1..n) |-> Value(g, s)]
<1>5. f = [s \in SUBSET (1..n) |-> Value(f, s)]
  <2>1. \A s \in SUBSET (1..n) : f[s] = h[s]
    BY <1>4
  <2>2. ASSUME NEW s \in SUBSET (1..n) PROVE Value(f, s) = Value(h, s)
    <3>1. s \ {Max(s)} \in SUBSET (1..n)
      OBVIOUS
    <3> HIDE DEF f
    <3> QED
      BY <2>1, <3>1
  <2> QED
    BY <2>2
<1>6. iter = [s \in SUBSET (1..n) |-> Value(iter, s)]
  <2> HIDE DEF f, Value
  <2> QED
    BY <1>5
<1>7. LeftFold(c, base, seq) = iter[1..n]
  BY DEF LeftFold, FoldLeft, MapThenFoldSet
<1> DEFINE r == [k \in 0..n |-> iter[1..k]]
<1>8. \A s \in SUBSET (1..n) : iter[s] = Value(iter, s)
  <2> HIDE DEF iter, Value
  <2> QED
    BY <1>6
<1> HIDE DEF iter
<1>9. r[0] = base
  <2>1. 1..0 = {} /\ 0 \in 0..n
    OBVIOUS
  <2>2. iter[{}] = base
    BY <1>8
  <2> QED
    BY <2>1, <2>2
<1>10. ASSUME NEW k \in 1..n PROVE r[k] = op(c, r[k - 1], seq[k])
  <2>1. 1..k \in SUBSET (1..n) /\ 1..k # {} /\ k \in Nat
    OBVIOUS
  <2>2. Max(1..k) = k
    <3>1. Max(1..k) \in 1..k /\ \A x \in 1..k : x <= Max(1..k)
      BY <2>1, MaxOf
    <3> QED
      BY <3>1
  <2>3. (1..k) \ {k} = 1..(k - 1)
    OBVIOUS
  <2>4. iter[1..k] = op(c, iter[1..(k - 1)], seq[k])
    BY <1>8, <2>1, <2>2, <2>3
  <2> QED
    BY <2>4
<1>11. LeftFold(c, base, seq) = r[n]
  BY <1>7
<1> HIDE DEF r
<1> QED
  BY <1>9, <1>10, <1>11

\* One element more is one step more.
LEMMA FoldOfMore ==
  ASSUME NEW c, NEW base, NEW X, NEW seq \in Seq(X), NEW x \in X
  PROVE  LeftFold(c, base, Append(seq, x)) = op(c, LeftFold(c, base, seq), x)
<1> DEFINE n == Len(seq)
           more == Append(seq, x)
<1>1. n \in Nat /\ DOMAIN seq = 1..n /\ DOMAIN more = 1..(n + 1)
  OBVIOUS
<1>2. (\A k \in 1..n : more[k] = seq[k]) /\ more[n + 1] = x
  OBVIOUS
<1> HIDE DEF n, more
<1>3. PICK r : /\ r[0] = base
               /\ \A k \in 1..n : r[k] = op(c, r[k - 1], seq[k])
               /\ LeftFold(c, base, seq) = r[n]
  BY <1>1, FoldsFromLeft
<1>4. PICK t : /\ t[0] = base
               /\ \A k \in 1..(n + 1) : t[k] = op(c, t[k - 1], more[k])
               /\ LeftFold(c, base, more) = t[n + 1]
  <2>1. n + 1 \in Nat
    BY <1>1
  <2> QED
    BY <1>1, <2>1, FoldsFromLeft
<1> DEFINE S == {k \in 0..n : t[k] = r[k]}
<1>5. ASSUME NEW k \in 0..(n - 1), k \in S PROVE k + 1 \in S
  <2>1. k + 1 \in 1..n /\ k + 1 \in 1..(n + 1) /\ (k + 1) - 1 = k /\ k + 1 \in 0..n
    BY <1>1
  <2>2. t[k + 1] = op(c, t[k], more[k + 1]) /\ r[k + 1] = op(c, r[k], seq[k + 1])
    BY <1>3, <1>4, <2>1
  <2> QED
    BY <1>2, <1>5, <2>1, <2>2
<1>6. n \in S
  <2>1. 0 \in S /\ n \in 0..n
    BY <1>1, <1>3, <1>4
  <2> HIDE DEF S
  <2> QED
    BY <1>1, <1>5, <2>1, Induction
<1>7. n + 1 \in 1..(n + 1) /\ (n + 1) - 1 = n
  BY <1>1
<1> QED
  BY <1>2, <1>3, <1>4, <1>6, <1>7 DEF more

\* A fold over two sequences goes on over the second from what it made of the first.
LEMMA FoldOfTwo ==
  ASSUME NEW c, NEW base, NEW X, NEW seq \in Seq(X), NEW x \in X, NEW y \in X
  PROVE  LeftFold(c, base, Append(Append(seq, x), y))
           = op(c, op(c, LeftFold(c, base, seq), x), y)
<1> DEFINE more == Append(seq, x)
<1>1. more \in Seq(X) /\ LeftFold(c, base, more) = op(c, LeftFold(c, base, seq), x)
  BY FoldOfMore
<1> HIDE DEF more
<1>2. LeftFold(c, base, Append(more, y)) = op(c, LeftFold(c, base, more), y)
  BY <1>1, FoldOfMore
<1> QED
  BY <1>1, <1>2 DEF more

\* What is made of a sequence after each of its elements.
Stepwise(c, base, n, seq, r) ==
  /\ r[0] = base
  /\ \A k \in 1..n : r[k] = op(c, r[k - 1], seq[k])
  /\ LeftFold(c, base, seq) = r[n]

LEMMA FoldsStepwise ==
  ASSUME NEW c, NEW base, NEW n \in Nat, NEW seq, DOMAIN seq = 1..n
  PROVE  \E r : Stepwise(c, base, n, seq, r)
BY FoldsFromLeft DEF Stepwise

\* One sequence, and another one behind it.
Behind(seq, n, more, m, both) ==
  /\ DOMAIN seq = 1..n /\ DOMAIN more = 1..m /\ DOMAIN both = 1..(n + m)
  /\ \A k \in 1..n : both[k] = seq[k]
  /\ \A k \in 1..m : both[n + k] = more[k]

\* A fold over places, first some and then more.
LEMMA FoldGoesOn ==
  ASSUME NEW c, NEW base, NEW n \in Nat, NEW m \in Nat, NEW seq, NEW more, NEW both,
         Behind(seq, n, more, m, both)
  PROVE  LeftFold(c, base, both) = LeftFold(c, LeftFold(c, base, seq), more)
<1> DEFINE made == LeftFold(c, base, seq)
<1> HIDE DEF made
<1>1. /\ n \in Nat /\ m \in Nat /\ n + m \in Nat
      /\ DOMAIN seq = 1..n /\ DOMAIN more = 1..m /\ DOMAIN both = 1..(n + m)
  BY DEF Behind
<1>2. (\A k \in 1..n : both[k] = seq[k]) /\ (\A k \in 1..m : both[n + k] = more[k])
  BY DEF Behind
<1>3. PICK r : Stepwise(c, base, n, seq, r)
  BY <1>1, FoldsStepwise
<1>4. PICK t : Stepwise(c, base, n + m, both, t)
  BY <1>1, FoldsStepwise
<1>5. PICK u : Stepwise(c, made, m, more, u)
  BY <1>1, FoldsStepwise
<1>6. t[n] = r[n]
  <2> DEFINE S == {k \in 0..n : t[k] = r[k]}
  <2>1. ASSUME NEW k \in 0..(n - 1), k \in S PROVE k + 1 \in S
    <3>1. k + 1 \in 1..n /\ k + 1 \in 1..(n + m) /\ (k + 1) - 1 = k /\ k + 1 \in 0..n
      BY <1>1
    <3>2. t[k + 1] = op(c, t[k], both[k + 1]) /\ r[k + 1] = op(c, r[k], seq[k + 1])
      BY <1>3, <1>4, <3>1 DEF Stepwise
    <3> QED
      BY <1>2, <2>1, <3>1, <3>2
  <2>2. 0 \in S /\ n \in 0..n
    BY <1>1, <1>3, <1>4 DEF Stepwise
  <2> HIDE DEF S
  <2>3. n \in S
    BY <1>1, <2>1, <2>2, Induction
  <2> QED
    BY <2>3 DEF S
<1>7. t[n + m] = u[m]
  <2> DEFINE S == {k \in 0..m : t[n + k] = u[k]}
  <2>1. ASSUME NEW k \in 0..(m - 1), k \in S PROVE k + 1 \in S
    <3>1. /\ k + 1 \in 1..m /\ n + (k + 1) \in 1..(n + m) /\ (k + 1) - 1 = k
          /\ (n + (k + 1)) - 1 = n + k /\ k + 1 \in 0..m
      BY <1>1
    <3>2. t[n + (k + 1)] = op(c, t[n + k], both[n + (k + 1)])
      BY <1>4, <3>1 DEF Stepwise
    <3>3. u[k + 1] = op(c, u[k], more[k + 1])
      BY <1>5, <3>1 DEF Stepwise
    <3> QED
      BY <1>2, <2>1, <3>1, <3>2, <3>3
  <2>2. 0 \in S /\ m \in 0..m
    <3>1. n + 0 = n /\ 0 \in 0..m /\ m \in 0..m
      BY <1>1
    <3> QED
      BY <1>3, <1>5, <1>6, <3>1 DEF made, Stepwise
  <2> HIDE DEF S
  <2>3. m \in S
    BY <1>1, <2>1, <2>2, Induction
  <2> QED
    BY <2>3 DEF S
<1> QED
  BY <1>4, <1>5, <1>7 DEF made, Stepwise

\* What comes behind is folded into what was made of the sequence before.
LEMMA FoldOfBoth ==
  ASSUME NEW c, NEW base, NEW X, NEW seq \in Seq(X), NEW more \in Seq(X)
  PROVE  LeftFold(c, base, seq \o more) = LeftFold(c, LeftFold(c, base, seq), more)
<1> DEFINE n == Len(seq)
           m == Len(more)
           both == seq \o more
<1>1. n \in Nat /\ DOMAIN seq = 1..n /\ m \in Nat /\ DOMAIN more = 1..m
  OBVIOUS
<1>2. DOMAIN both = 1..(n + m)
  OBVIOUS
<1>3. (\A k \in 1..n : both[k] = seq[k]) /\ (\A k \in 1..m : both[n + k] = more[k])
  OBVIOUS
<1> HIDE DEF n, m, both
<1>4. Behind(seq, n, more, m, both)
  BY <1>1, <1>2, <1>3 DEF Behind
<1>5. LeftFold(c, base, both) = LeftFold(c, LeftFold(c, base, seq), more)
  BY <1>1, <1>4, FoldGoesOn
<1> QED
  BY <1>5 DEF both

\* Nothing is made of an empty sequence.
LEMMA FoldOfNone ==
  ASSUME NEW c, NEW base
  PROVE  LeftFold(c, base, << >>) = base
<1> DEFINE none == << >>
           n == 0
<1>1. n \in Nat /\ DOMAIN none = 1..n
  OBVIOUS
<1>3. n = 0
  OBVIOUS
<1> HIDE DEF none, n
<1>2. PICK r : Stepwise(c, base, n, none, r)
  BY <1>1, FoldsStepwise
<1> QED
  BY <1>2, <1>3 DEF Stepwise, none
================================================================================
