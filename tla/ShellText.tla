-------------------------------- MODULE ShellText --------------------------------
(***************************************************************************)
(* Texts with placeholders, and how a value is put into a shell command     *)
(* (src/src/util.c).  A text is a sequence of characters; "\" and "'" are   *)
(* what they are to a shell.  At the end, the reference: how a shell reads   *)
(* a command, and what a template means.                                    *)
(***************************************************************************)
EXTENDS Integers, SequencesExt

CONSTANTS
  NULL,      \* a NULL pointer
  QuoteMax   \* SHELLQUOTE_OUTLEN_MAX

ASSUME ShellTextAssumption == QuoteMax \in Nat /\ QuoteMax >= 2

Artist == <<"@", "a", "@">>
Album == <<"@", "b", "@">>
Title == <<"@", "t", "@">>
String == <<"@", "s", "@">>
Track == <<"@", "T", "@">>
Metadata == <<"@", "M", "@">>

\* The places of a text where a placeholder stands.
PlacesOf(w, text) ==
  {i \in DOMAIN text : IsPrefix(w, SubSeq(text, i, Len(text)))}

Replaced(text, dict) ==
  LET words == {w \in DOMAIN dict : IsPrefix(w, text)}
  IN IF words = {} THEN text
     ELSE LET w == CHOOSE w \in words : TRUE
          IN dict[w] \o SubSeq(text, Len(w) + 1, Len(text))

\* util_expand_words(): from the last character to the first.
ExpandWords(in, dict) ==
  FoldRight(LAMBDA c, rest : Replaced(<<c>> \o rest, dict), in, << >>)

\* Mutant: a quotation mark is copied.
Quoted_Plain(q, c) ==
  IF q.stop \/ q.left <= 1 THEN q
  ELSE [q EXCEPT !.out = Append(@, c), !.left = @ - 1]

\* What is put before a character: for a quotation mark, the end of the quotation and
\* a backslash, which is outside of it.
Escape(c) == IF c = "'" THEN <<"'", "\\", "'">> ELSE << >>

\* One character, as long as it fits and the closing quotation mark after it.
Quoted(q, c) ==
  IF q.stop \/ q.left <= 1 THEN q
  ELSE IF c = "'" /\ q.left <= 4 THEN [q EXCEPT !.stop = TRUE]
  ELSE [q EXCEPT !.out = @ \o Escape(c) \o <<c>>, !.left = @ - Len(Escape(c)) - 1]

\* util_shellquote(in, 0)
ShellQuote(in) ==
  Append(FoldLeft(Quoted, [out |-> <<"'">>, left |-> QuoteMax - 1, stop |-> FALSE], in).out,
         "'")

--------------------------------------------------------------------------------
(* The reference. *)

\* A shell reads a command character by character: quotation marks, and outside of
\* them backslashes, blanks and pipes.
Put(s, c) == [s EXCEPT !.word = Append(@, c), !.open = TRUE]

EndWord(s) ==
  IF s.open THEN [s EXCEPT !.words = Append(@, s.word), !.word = << >>, !.open = FALSE]
  ELSE s

ReadsPlain(s, c) ==
  CASE c = "'" -> [s EXCEPT !.mode = "quoted", !.open = TRUE]
    [] c = "\\" -> [s EXCEPT !.mode = "escaped", !.open = TRUE]
    [] c = " " -> EndWord(s)
    [] c = "|" -> [EndWord(s) EXCEPT !.words = Append(@, <<"pipe">>)]
    [] OTHER -> Put(s, c)

ShellReads(s, c) ==
  CASE s.mode = "escaped" -> [Put(s, c) EXCEPT !.mode = "plain"]
    [] s.mode = "quoted" -> IF c = "'" THEN [s EXCEPT !.mode = "plain"] ELSE Put(s, c)
    [] s.mode = "plain" -> ReadsPlain(s, c)

ShellWords(text) ==
  LET s == FoldLeft(ShellReads,
                    [words |-> << >>, word |-> << >>, open |-> FALSE, mode |-> "plain"],
                    text)
  IN [words |-> EndWord(s).words, complete |-> s.mode = "plain"]

\* The longest beginning of a value of which the quoted form fits.
Kept(value) ==
  LET size == [n \in 0..Len(value) |->
                 2 + n + 3 * Cardinality({i \in 1..n : value[i] = "'"})]
      fits == {n \in DOMAIN size : size[n] <= QuoteMax}
  IN SubSeq(value, 1, CHOOSE n \in fits : \A k \in fits : k <= n)

\* A value, with every character of it escaped.
Escaped(value) == FoldLeft(LAMBDA text, c : text \o <<"\\", c>>, <<"'", "'">>, value)

\* Every placeholder of a template stands for its value, from left to right.
Substituted(template, dict) ==
  LET n == Len(template)
      From[i \in 1..(n + 1)] ==
        LET words == {w \in DOMAIN dict : IsPrefix(w, SubSeq(template, i, n))}
        IN IF i > n THEN << >>
           ELSE IF words = {} THEN <<template[i]>> \o From[i + 1]
           ELSE LET w == CHOOSE w \in words : TRUE IN dict[w] \o From[i + Len(w)]
  IN From[1]
================================================================================
