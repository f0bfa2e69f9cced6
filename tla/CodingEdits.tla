----------------------------- MODULE CodingEdits -----------------------------
(***************************************************************************)
(* How the coding graph turns a model's proposal into file contents        *)
(* (worker.py, apply_coding_graph_edits and the resolvers it falls back    *)
(* on).  A text is a sequence of lines; a line is a word and what follows  *)
(* it up to the line break: nothing, blanks, or a carriage return.         *)
(*                                                                         *)
(* What a proposal comes to is a value: Refused, or the new contents of    *)
(* every file it names.  Where the code compares texts by a ratio of       *)
(* similarity, the model lets every comparison come out both ways.         *)
(***************************************************************************)
EXTENDS Integers, Sequences, FiniteSets

CONSTANTS Path, Word,
          Absent,        \* no such file
          Refused,       \* CodingEditError or ValueError
          Editable,      \* paths that are safe and under CODING_GRAPH_ROOTS
          Python,        \* paths ending in .py
          Links,         \* words that stand for a symbolic link or a submodule
          Definitions,   \* words that stand for the head of a def or class
          MinAnchor,     \* context a transplanted delta needs (12 characters)
          MaxDelta,      \* the longest delta that is transplanted (256 characters)
          MaxFileSize    \* lines of a file that may be written (2 MiB)

Empty == "empty"         \* the word of a line without one
Ends == {"lf", "blank", "cr"}
Line == [word : Word \cup {Empty}, end : Ends]
Texts == Seq(Line)

ASSUME EditsAssumption ==
  /\ MinAnchor \in Nat \ {0} /\ MaxDelta \in Nat /\ MaxFileSize \in Nat
  /\ Empty \notin Definitions /\ Absent \notin Texts

\* read_text and the pipes of subprocess translate line breaks: what is read of
\* a file has no carriage returns left. write_text writes those it is given.
AsRead(t) ==
  [i \in DOMAIN t |-> [word |-> t[i].word, end |-> IF t[i].end = "cr" THEN "lf" ELSE t[i].end]]

Has(t, words) == \E i \in DOMAIN t : t[i].word \in words

-----------------------------------------------------------------------------
(* Where a snippet occurs. *)

Slice(t, i, n) == SubSeq(t, i, i + n - 1)

Starts(t, s) == {i \in 1..(Len(t) - Len(s) + 1) : Slice(t, i, Len(s)) = s}

\* str.count and re.finditer find the leftmost occurrences that do not overlap.
Hits(t, s) ==
  LET counted[i \in 1..Len(t)] ==
        i \in Starts(t, s)
        /\ \A j \in 1..(i - 1) : i - j < Len(s) => ~counted[j]
  IN  {i \in 1..Len(t) : counted[i]}

\* A piece of text to replace: the lines from..upto - 1.
Span(from, upto, new) == [from |-> from, upto |-> upto, new |-> new]
Skipped == Span(0, 0, <<>>)       \* "an edit already present"
NoSpan == Span(-1, -1, <<>>)

Only(S) == CHOOSE x \in S : TRUE

\* The members of a finite S, as R puts one before another.
Sorted(S, R) ==
  [n \in 1..Cardinality(S) |->
     CHOOSE x \in S : Cardinality({y \in S : <<y, x>> \in R}) = n - 1]
InOrder(S) == Sorted(S, {r \in S \X S : r[1] < r[2]})

\* The places of a text where there is a word.
WordsAt(t) == InOrder({i \in DOMAIN t : t[i].word # Empty})

\* unique_whitespace_edit_span: the words of old follow each other in one place
\* only, whatever blanks and empty lines are between them.
WhitespaceSpan(t, old, new) ==
  LET at == WordsAt(t)
      words == [i \in 1..Len(at) |-> t[at[i]].word]
      quoted == [i \in 1..Len(WordsAt(old)) |-> old[WordsAt(old)[i]].word]
      hits == IF quoted = <<>> THEN {} ELSE Hits(words, quoted)
  IN  IF Cardinality(hits) # 1 THEN NoSpan
      ELSE Span(at[Only(hits)], at[Only(hits) + Len(quoted) - 1] + 1, new)

\* unique_minimal_delta_span: what differs between old and new is moved to
\* where its surroundings, as far as they reach, are found once; the farthest
\* surroundings found once count.
Agree(s, t, n) == n <= Len(s) /\ n <= Len(t) /\ SubSeq(s, 1, n) = SubSeq(t, 1, n)
Longest(S) == CHOOSE n \in S : \A m \in S : m <= n

DeltaSpan(t, old, new) ==
  LET Ending(s, n) == SubSeq(s, Len(s) - n + 1, Len(s))
      short == IF Len(old) < Len(new) THEN Len(old) ELSE Len(new)
      prefix == Longest({n \in 0..short : Agree(old, new, n)})
      suffix == Longest({n \in 0..(short - prefix) : Ending(old, n) = Ending(new, n)})
      oldDelta == SubSeq(old, prefix + 1, Len(old) - suffix)
      newDelta == SubSeq(new, prefix + 1, Len(new) - suffix)
      Before(n) == IF n < prefix THEN n ELSE prefix
      Needle(n) == SubSeq(old, prefix - Before(n) + 1,
                          IF n < suffix THEN Len(old) - suffix + n ELSE Len(old))
      unique == {n \in MinAnchor..Len(old) : Cardinality(Hits(t, Needle(n))) = 1}
      best == Longest(unique)
      from == Only(Hits(t, Needle(best))) + Before(best)
  IN  IF prefix < MinAnchor \/ suffix < MinAnchor
         \/ Len(oldDelta) \notin 1..MaxDelta \/ Len(newDelta) > MaxDelta \/ unique = {}
      THEN NoSpan
      ELSE Span(from, from + Len(oldDelta), newDelta)

\* unique_fuzzy_edit_span: the block of a definition that old and new both
\* start to define, if one is similar enough and more so than the others. A
\* block ends with the last word before the next definition.
FuzzySpans(t, old, new) ==
  LET Defs(s) == {i \in 1..Len(s) : s[i].word \in Definitions}
      First(s) == s[CHOOSE i \in Defs(s) : \A j \in Defs(s) : i <= j].word
      End(i) == 1 + Longest({j \in i..Len(t) :
                               /\ t[j].word # Empty
                               /\ \A k \in (i + 1)..j : k \notin Defs(t)})
  IN  IF Defs(old) = {} \/ Defs(new) = {} THEN {}
      ELSE IF First(old) # First(new) THEN {}
      ELSE {Span(i, End(i), new) : i \in {j \in Defs(t) : t[j].word = First(old)}}

-----------------------------------------------------------------------------
(* One edit of a file: the spans it may come to. *)

Resolved(t, e) ==
  LET found == Hits(t, e.old)
      tolerant == WhitespaceSpan(t, e.old, e.new)
      delta == DeltaSpan(t, e.old, e.new)
  IN  IF e.op # "replace" \/ e.old = <<>> THEN {NoSpan}
      ELSE IF Cardinality(found) = 1
        THEN {Span(Only(found), Only(found) + Len(e.old), e.new)}
      ELSE IF found # {} THEN {NoSpan}
      ELSE IF e.new # <<>> /\ Cardinality(Hits(t, e.new)) = 1 THEN {Skipped}
      ELSE IF tolerant # NoSpan THEN {tolerant}
      ELSE IF delta # NoSpan THEN {delta}
      ELSE {NoSpan} \cup IF e.path \in Python THEN FuzzySpans(t, e.old, e.new) ELSE {}

\* Only spans that contain another are taken to overlap it.
OverlapNested(spans) ==
  \E i, j \in DOMAIN spans :
    /\ i # j /\ spans[i] # Skipped /\ spans[j] # Skipped
    /\ spans[i].from < spans[j].from /\ spans[i].upto > spans[j].upto

\* The replacements are sorted, must not overlap, and are made from the last to
\* the first, so that none moves the place of another.
Overlap(spans) ==
  \E i, j \in DOMAIN spans :
    /\ i # j /\ spans[i] # Skipped /\ spans[j] # Skipped
    /\ \/ spans[i].from < spans[j].from
       \/ spans[i].from = spans[j].from /\ i < j
    /\ spans[i].upto > spans[j].from

Replace(t, s) ==
  IF s = Skipped THEN t
  ELSE SubSeq(t, 1, s.from - 1) \o s.new \o SubSeq(t, s.upto, Len(t))

\* The order they are listed in.
AsListed(spans) == spans

LastFirst(spans) ==
  LET n == DOMAIN spans
      order == Sorted(n, {r \in n \X n : \/ spans[r[1]].from > spans[r[2]].from
                                         \/ /\ spans[r[1]].from = spans[r[2]].from
                                            /\ r[1] > r[2]})
  IN  [i \in DOMAIN order |-> spans[order[i]]]

InTurn(t, order) ==
  LET upTo[n \in 0..Len(order)] == IF n = 0 THEN t ELSE Replace(upTo[n - 1], order[n])
  IN  upTo[Len(order)]

Replaced(t, spans) == InTurn(t, LastFirst(spans))

-----------------------------------------------------------------------------
(* All edits of a file, and a whole proposal. *)

\* old is the content of the file, or Absent; tracked, it is in the baseline;
\* shown, the model was shown all of it as it is.  An edit's expects is the
\* content whose digest it quotes.
NewTexts(old, tracked, shown, edits) ==
  LET first == edits[1]
      Alone(op) == Len(edits) = 1 /\ first.op = op /\ first.old = <<>>
  IN
  IF old = Absent THEN {IF Alone("create") THEN first.new ELSE Refused}
  ELSE IF ~tracked /\ Alone("create") THEN {first.new}
  ELSE IF Len(edits) = 1 /\ first.op = "replace_file"
    THEN {IF first.old = <<>> /\ first.expects = old THEN first.new ELSE Refused}
  ELSE IF shown /\ Alone("create") THEN {first.new}
  ELSE {IF NoSpan \in {s[i] : i \in DOMAIN s} \/ Overlap(s) THEN Refused
        ELSE Replaced(old, s)
        : s \in {f \in [DOMAIN edits -> UNION {Resolved(old, edits[i]) : i \in DOMAIN edits}] :
                   \A i \in DOMAIN edits : f[i] \in Resolved(old, edits[i])}}

EditsOf(edits, p) ==
  LET at == InOrder({i \in DOMAIN edits : edits[i].path = p})
  IN  [i \in DOMAIN at |-> edits[at[i]]]
PathsOf(edits) == {edits[i].path : i \in DOMAIN edits}

NothingNew == [p \in {} |-> <<>>]

\* Everything is computed before anything is written, from the files as they
\* are read. A proposal that names a link, would change nothing, or would make a
\* file too large is refused.
Outcomes(files, tracked, shown, edits) ==
  LET Of(p) == NewTexts(files[p], p \in tracked, p \in shown, EditsOf(edits, p))
      ways == {f \in [PathsOf(edits) -> UNION {Of(p) : p \in PathsOf(edits)}] :
                 \A p \in PathsOf(edits) : f[p] \in Of(p)}
      Was(p) == IF files[p] = Absent THEN <<>> ELSE files[p]
  IN  {IF \/ ~PathsOf(edits) \subseteq Editable
          \/ \E p \in PathsOf(edits) : f[p] = Refused \/ Len(f[p]) > MaxFileSize \/ Has(Was(p), Links)
          \/ \A p \in PathsOf(edits) : f[p] = Was(p)
       THEN NothingNew ELSE f : f \in ways}
==============================================================================
