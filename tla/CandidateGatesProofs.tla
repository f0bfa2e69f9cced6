------------------------- MODULE CandidateGatesProofs -------------------------
(***************************************************************************)
(* Proofs about CandidateGates, for all paths, words, proposals, restored  *)
(* trees and limits.  First what the operators of CodingEdits come to:     *)
(* lists in order, places, spans, replacements, whole proposals, and what  *)
(* is left of one in the text.  Then the invariants of the graph and the   *)
(* two gates, and what follows from them.                                  *)
(***************************************************************************)
EXTENDS CandidateGates, Induction, SequenceTheorems

-----------------------------------------------------------------------------
(* Putting the members of a set in order. *)

\* What a strict total order puts before a member counts it, so that every
\* number below the cardinality counts one.
LEMMA SortedOrders ==
  ASSUME NEW S, IsFiniteSet(S), NEW R,
         \A x \in S : <<x, x>> \notin R,
         \A x, y, z \in S : <<x, y>> \in R /\ <<y, z>> \in R => <<x, z>> \in R,
         \A x, y \in S : x # y => <<x, y>> \in R \/ <<y, x>> \in R
  PROVE  /\ Cardinality(S) \in Nat
         /\ Sorted(S, R) \in [1..Cardinality(S) -> S]
         /\ \A a, b \in 1..Cardinality(S) :
              a < b => <<Sorted(S, R)[a], Sorted(S, R)[b]>> \in R
         /\ Range(Sorted(S, R)) = S
  <1> DEFINE n == Cardinality(S)
             Below(x) == {y \in S : <<y, x>> \in R}
             rank == [x \in S |-> Cardinality(Below(x))]
  <1>0. n \in Nat
    BY FS_CardinalityType
  <1>1. ASSUME NEW x \in S
        PROVE  IsFiniteSet(Below(x)) /\ Cardinality(Below(x)) \in 0..(n - 1)
    <2>1. Below(x) \in SUBSET (S \ {x})
      OBVIOUS
    <2>2. IsFiniteSet(S \ {x}) /\ Cardinality(S \ {x}) = n - 1
      BY FS_RemoveElement
    <2>3. IsFiniteSet(Below(x)) /\ Cardinality(Below(x)) <= Cardinality(S \ {x})
      <3> HIDE DEF Below
      <3> QED BY <2>1, <2>2, FS_Subset
    <2>4. Cardinality(Below(x)) \in Nat
      BY <2>3, FS_CardinalityType
    <2> QED BY <2>2, <2>3, <2>4, <1>0
  <1>2. ASSUME NEW x \in S, NEW y \in S, <<x, y>> \in R
        PROVE  Cardinality(Below(x)) < Cardinality(Below(y))
    <2>1. Below(x) \in SUBSET Below(y) /\ x \in Below(y) /\ x \notin Below(x)
      BY <1>2
    <2>2. /\ Cardinality(Below(x)) <= Cardinality(Below(y))
          /\ Cardinality(Below(y)) = Cardinality(Below(x)) => Below(y) = Below(x)
      <3>1. IsFiniteSet(Below(y))
        BY <1>1
      <3> HIDE DEF Below
      <3> QED BY <2>1, <3>1, FS_Subset
    <2>3. Cardinality(Below(x)) \in 0..(n - 1) /\ Cardinality(Below(y)) \in 0..(n - 1)
      BY <1>1
    <2>4. Below(y) # Below(x)
      BY <2>1
    <2> HIDE DEF Below
    <2> QED BY <2>2, <2>3, <2>4, <1>0
  <1>3. ASSUME NEW k \in 0..(n - 1)
        PROVE  \E x \in S : Cardinality(Below(x)) = k
    <2> SUFFICES ASSUME \A x \in S : Cardinality(Below(x)) # k PROVE FALSE
      OBVIOUS
    <2> DEFINE T == (0..(n - 1)) \ {k}
    <2>1. IsFiniteSet(0..(n - 1)) /\ Cardinality(0..(n - 1)) = n
      BY <1>0, FS_Interval
    <2>2. IsFiniteSet(T) /\ Cardinality(T) = n - 1
      BY <2>1, FS_RemoveElement
    <2>3. rank \in [S -> T]
      <3> HIDE DEF Below
      <3> QED BY <1>1
    <2>4. Cardinality(T) < n
      <3> HIDE DEF T
      <3> QED BY <2>2, <1>0
    <2>5. PICK x, y \in S : x # y /\ rank[x] = rank[y]
      <3> HIDE DEF T, rank
      <3> QED BY <2>2, <2>3, <2>4, FS_PigeonHole
    <2>6. Cardinality(Below(x)) = Cardinality(Below(y))
      <3> HIDE DEF Below
      <3> QED BY <2>5
    <2>7. Cardinality(Below(x)) \in Nat /\ Cardinality(Below(y)) \in Nat
      <3>1. /\ Cardinality(Below(x)) \in 0..(n - 1)
            /\ Cardinality(Below(y)) \in 0..(n - 1)
        BY <1>1
      <3> HIDE DEF Below
      <3> QED BY <3>1, <1>0
    <2>8. <<x, y>> \in R \/ <<y, x>> \in R
      BY <2>5
    <2>9. Cardinality(Below(x)) # Cardinality(Below(y))
      <3>1. CASE <<x, y>> \in R
        <4>1. Cardinality(Below(x)) < Cardinality(Below(y))
          BY <3>1, <1>2
        <4> HIDE DEF Below
        <4> QED BY <4>1, <2>7
      <3>2. CASE <<y, x>> \in R
        <4>1. Cardinality(Below(y)) < Cardinality(Below(x))
          BY <3>2, <1>2
        <4> HIDE DEF Below
        <4> QED BY <4>1, <2>7
      <3> QED BY <2>8, <3>1, <3>2
    <2> QED BY <2>6, <2>9
  <1> DEFINE At(k) == CHOOSE x \in S : Cardinality(Below(x)) = k - 1
  <1>4. ASSUME NEW k \in 1..n
        PROVE  At(k) \in S /\ Cardinality(Below(At(k))) = k - 1
    <2>1. k - 1 \in 0..(n - 1)
      BY <1>0
    <2>2. \E x \in S : Cardinality(Below(x)) = k - 1
      BY <2>1, <1>3
    <2> HIDE DEF Below
    <2> QED BY <2>2
  <1>5. Sorted(S, R) = [k \in 1..n |-> At(k)]
    BY DEF Sorted
  <1>6. ASSUME NEW a \in 1..n, NEW b \in 1..n, a < b
        PROVE  <<At(a), At(b)>> \in R
    <2>1. At(a) \in S /\ At(b) \in S
      BY <1>4
    <2>2. Cardinality(Below(At(a))) = a - 1 /\ Cardinality(Below(At(b))) = b - 1
      BY <1>4
    <2>3. At(a) # At(b)
      <3> HIDE DEF At, Below
      <3> QED BY <2>2, <1>6, <1>0
    <2>4. CASE <<At(b), At(a)>> \in R
      <3>1. Cardinality(Below(At(b))) < Cardinality(Below(At(a)))
        <4> HIDE DEF At, Below
        <4> QED BY <2>4, <2>1, <1>2
      <3> HIDE DEF At, Below
      <3> QED BY <3>1, <2>2, <1>6, <1>0
    <2> HIDE DEF At, Below
    <2> QED BY <2>1, <2>3, <2>4
  <1>7. \A k \in 1..n : At(k) \in S
    BY <1>4
  <1> HIDE DEF At, Below
  <1>8. Sorted(S, R) \in [1..n -> S]
    BY <1>5, <1>7
  <1>9. \A a, b \in 1..n : a < b => <<Sorted(S, R)[a], Sorted(S, R)[b]>> \in R
    BY <1>5, <1>6
  <1>10. ASSUME NEW x \in S PROVE \E k \in 1..n : Sorted(S, R)[k] = x
    <2> DEFINE k == Cardinality(Below(x)) + 1
    <2>1. k \in 1..n /\ Cardinality(Below(x)) = k - 1
      BY <1>1, <1>0
    <2>2. At(k) \in S /\ Cardinality(Below(At(k))) = k - 1
      <3> HIDE DEF k
      <3> QED BY <2>1, <1>4
    <2>3. At(k) = x
      <3> SUFFICES ASSUME At(k) # x PROVE FALSE
        OBVIOUS
      <3> HIDE DEF k
      <3>1. <<At(k), x>> \in R \/ <<x, At(k)>> \in R
        BY <2>2
      <3>2. \/ Cardinality(Below(At(k))) < Cardinality(Below(x))
            \/ Cardinality(Below(x)) < Cardinality(Below(At(k)))
        BY <2>2, <3>1, <1>2
      <3> QED BY <2>1, <2>2, <3>2, <1>0
    <2> HIDE DEF k
    <2> QED BY <1>5, <2>1, <2>3
  <1>11. Range(Sorted(S, R)) = S
    <2> DEFINE s == Sorted(S, R)
    <2>1. \A k \in 1..n : s[k] \in S
      BY <1>8
    <2>2. \A x \in S : \E k \in 1..n : s[k] = x
      BY <1>10
    <2> HIDE DEF s, n
    <2>3. {s[k] : k \in 1..n} = S
      BY <2>1, <2>2
    <2>4. DOMAIN s = 1..n
      BY <1>8 DEF s
    <2> QED BY <2>3, <2>4 DEF s, Range
  <1> QED BY <1>0, <1>8, <1>9, <1>11

\* Numbers in order are all there, each once, and go up.
LEMMA InOrderIs ==
  ASSUME NEW n \in Nat, NEW S \in SUBSET (1..n)
  PROVE  /\ InOrder(S) \in Seq(S)
         /\ Len(InOrder(S)) = Cardinality(S)
         /\ \A a, b \in 1..Len(InOrder(S)) : a < b => InOrder(S)[a] < InOrder(S)[b]
         /\ Range(InOrder(S)) = S
  <1> DEFINE R == {r \in S \X S : r[1] < r[2]}
  <1>1. IsFiniteSet(S)
    <2>1. IsFiniteSet(1..n)
      BY FS_Interval
    <2> QED BY <2>1, FS_Subset
  <1>2. \A x, y \in S : <<x, y>> \in R <=> x < y
    OBVIOUS
  <1>3. /\ \A x \in S : <<x, x>> \notin R
        /\ \A x, y, z \in S : <<x, y>> \in R /\ <<y, z>> \in R => <<x, z>> \in R
        /\ \A x, y \in S : x # y => <<x, y>> \in R \/ <<y, x>> \in R
    <2> HIDE DEF R
    <2> QED BY <1>2
  <1>4. /\ Cardinality(S) \in Nat /\ Sorted(S, R) \in [1..Cardinality(S) -> S]
        /\ \A a, b \in 1..Cardinality(S) :
             a < b => <<Sorted(S, R)[a], Sorted(S, R)[b]>> \in R
        /\ Range(Sorted(S, R)) = S
    <2> HIDE DEF R
    <2>1. Cardinality(S) \in Nat
      BY <1>1, FS_CardinalityType
    <2>2. Sorted(S, R) \in [1..Cardinality(S) -> S]
      BY <1>1, <1>3, SortedOrders
    <2>3. \A a, b \in 1..Cardinality(S) :
            a < b => <<Sorted(S, R)[a], Sorted(S, R)[b]>> \in R
      BY <1>1, <1>3, SortedOrders
    <2>4. Range(Sorted(S, R)) = S
      BY <1>1, <1>3, SortedOrders
    <2> QED BY <2>1, <2>2, <2>3, <2>4
  <1>5. InOrder(S) = Sorted(S, R)
    BY DEF InOrder
  <1> HIDE DEF R
  <1> DEFINE s == Sorted(S, R)
  <1>6. s \in Seq(S) /\ Len(s) = Cardinality(S)
    BY <1>4
  <1>7. \A a, b \in 1..Len(s) : a < b => s[a] < s[b]
    <2> SUFFICES ASSUME NEW a \in 1..Len(s), NEW b \in 1..Len(s), a < b PROVE s[a] < s[b]
      OBVIOUS
    <2> HIDE DEF s
    <2>1. s[a] \in S /\ s[b] \in S
      BY <1>6
    <2>2. <<s[a], s[b]>> \in R
      BY <1>4, <1>6 DEF s
    <2> QED BY <2>1, <2>2, <1>2
  <1> HIDE DEF s
  <1> QED BY <1>4, <1>5, <1>6, <1>7 DEF s

\* The words of a text have their places in it.
LEMMA WordsAtIs ==
  ASSUME NEW t \in Texts
  PROVE  /\ WordsAt(t) \in Seq(1..Len(t))
         /\ \A a, b \in 1..Len(WordsAt(t)) : a < b => WordsAt(t)[a] < WordsAt(t)[b]
  <1> DEFINE S == {i \in DOMAIN t : t[i].word # Empty}
  <1>1. Len(t) \in Nat /\ S \in SUBSET (1..Len(t))
    BY DEF Texts
  <1>2. WordsAt(t) = InOrder(S)
    BY DEF WordsAt
  <1>3. /\ InOrder(S) \in Seq(S)
        /\ \A a, b \in 1..Len(InOrder(S)) : a < b => InOrder(S)[a] < InOrder(S)[b]
    <2> HIDE DEF S
    <2> QED BY <1>1, InOrderIs
  <1> HIDE DEF S
  <1> QED BY <1>1, <1>2, <1>3, SeqMonotonic

\* The edits of a file are edits of the proposal.
LEMMA EditsOfIs ==
  ASSUME NEW E, NEW es \in Seq(E), NEW p
  PROVE  EditsOf(es, p) \in Seq(E)
  <1> DEFINE S == {i \in DOMAIN es : es[i].path = p}
             at == InOrder(S)
  <1>1. Len(es) \in Nat /\ S \in SUBSET (1..Len(es))
    OBVIOUS
  <1>2. at \in Seq(S)
    <2> HIDE DEF S
    <2> QED BY <1>1, InOrderIs
  <1>3. EditsOf(es, p) = [i \in DOMAIN at |-> es[at[i]]]
    BY DEF EditsOf
  <1>4. Len(at) \in Nat /\ DOMAIN at = 1..Len(at) /\ \A i \in DOMAIN at : es[at[i]] \in E
    <2>1. \A i \in S : es[i] \in E
      BY <1>1
    <2> HIDE DEF at, S
    <2> QED BY <1>2, <2>1
  <1> HIDE DEF at
  <1> QED BY <1>3, <1>4

-----------------------------------------------------------------------------
(* Where a snippet occurs. *)

\* The recursion of Hits is along the text: what is counted up to a place
\* depends on the places before it only.
LEMMA HitsAreStarts ==
  ASSUME NEW t, NEW s, Len(t) \in Nat
  PROVE  /\ Hits(t, s) \subseteq Starts(t, s) \cap 1..Len(t)
         /\ Starts(t, s) \cap 1..Len(t) # {} => Hits(t, s) # {}
  <1> DEFINE n == Len(t)
             Said(f, i) == /\ i \in Starts(t, s)
                           /\ \A j \in 1..(i - 1) : i - j < Len(s) => ~f[j]
             F == [1..n -> BOOLEAN]
             M == {m \in Nat : \E f \in F : \A i \in 1..n : i <= m => f[i] = Said(f, i)}
             counted == CHOOSE f : f = [i \in 1..n |-> Said(f, i)]
  <1>1. 0 \in M
    <2>1. [i \in 1..n |-> TRUE] \in F
      OBVIOUS
    <2>2. \A i \in 1..n : ~(i <= 0)
      OBVIOUS
    <2> QED BY <2>1, <2>2
  <1>2. ASSUME NEW m \in Nat, m \in M PROVE m + 1 \in M
    <2>1. PICK f \in F : \A i \in 1..n : i <= m => f[i] = Said(f, i)
      BY <1>2
    <2> DEFINE g == [i \in 1..n |-> Said(f, i)]
    <2>2. g \in F
      OBVIOUS
    <2>3. ASSUME NEW i \in 1..n, i <= m + 1 PROVE g[i] = Said(g, i)
      <3>1. ASSUME NEW j \in 1..(i - 1) PROVE g[j] = f[j]
        <4>1. j \in 1..n /\ j <= m
          BY <2>3
        <4>2. f[j] = Said(f, j)
          BY <4>1, <2>1
        <4> HIDE DEF Said
        <4> QED BY <4>1, <4>2
      <3>2. Said(g, i) = Said(f, i)
        <4> HIDE DEF g
        <4> QED BY <3>1, Zenon
      <3>3. g[i] = Said(f, i)
        BY Zenon
      <3> HIDE DEF g, Said
      <3> QED BY <3>2, <3>3
    <2>4. m + 1 \in Nat
      OBVIOUS
    <2> HIDE DEF g, F, Said
    <2> QED BY <2>2, <2>3, <2>4
  <1>3. Nat \subseteq M
    <2> HIDE DEF M
    <2> QED BY <1>1, <1>2, SetInduction
  <1>4. PICK f \in F : \A i \in 1..n : i <= n => f[i] = Said(f, i)
    <2>1. n \in M
      BY <1>3
    <2> HIDE DEF F, Said
    <2> QED BY <2>1
  <1>5. \A i \in 1..n : f[i] = Said(f, i)
    <2>1. \A i \in 1..n : i <= n
      OBVIOUS
    <2> QED BY <1>4, <2>1, Zenon
  <1>6. f = [i \in 1..n |-> Said(f, i)]
    <2> HIDE DEF Said
    <2>1. f = [i \in 1..n |-> f[i]]
      OBVIOUS
    <2> QED BY <2>1, <1>5, Zenon
  <1>7. counted = [i \in 1..n |-> Said(counted, i)]
    <2> HIDE DEF Said
    <2> QED BY <1>6
  <1>8. Hits(t, s) = {i \in 1..n : counted[i]}
    BY DEF Hits
  <1>9. ASSUME NEW i \in 1..n, counted[i] PROVE i \in Starts(t, s)
    <2>1. counted[i] = Said(counted, i)
      <3> HIDE DEF counted, Said
      <3> QED BY <1>7
    <2> HIDE DEF counted
    <2> QED BY <2>1, <1>9, Zenon
  <1>10. ASSUME Starts(t, s) \cap 1..n # {} PROVE Hits(t, s) # {}
    <2>1. PICK i \in Starts(t, s) \cap 1..n : \A j \in Starts(t, s) \cap 1..n : i <= j
      <3> DEFINE T == Starts(t, s) \cap 1..n
      <3>1. T \in SUBSET (0..n) /\ T # {}
        BY <1>10
      <3> HIDE DEF T
      <3>2. \E i \in T : \A j \in T : i <= j
        BY <3>1, SmallestExists
      <3> QED BY <3>2 DEF T
    <2>2. ASSUME NEW j \in 1..(i - 1) PROVE ~counted[j]
      <3>1. j \in 1..n /\ ~(i <= j)
        OBVIOUS
      <3>2. j \notin Starts(t, s)
        BY <2>1, <3>1
      <3> HIDE DEF counted
      <3> QED BY <3>1, <3>2, <1>9
    <2>3. counted[i] = Said(counted, i)
      <3> HIDE DEF counted, Said
      <3> QED BY <1>7
    <2>4. Said(counted, i)
      <3> HIDE DEF counted
      <3> QED BY <2>1, <2>2, Zenon
    <2>5. counted[i]
      <3> HIDE DEF counted, Said
      <3> QED BY <2>3, <2>4
    <2> HIDE DEF counted
    <2> QED BY <2>5, <1>8
  <1> HIDE DEF counted
  <1> QED BY <1>8, <1>9, <1>10

\* CHOOSE is told to choose the one there is.
LEMMA OnlyIs ==
  ASSUME NEW S, Cardinality(S) = 1
  PROVE  Only(S) \in S
  <1>1. S # {}
    BY FS_EmptySet
  <1> QED BY <1>1 DEF Only

\* The most of a bounded number of places exists.
LEMMA LongestIs ==
  ASSUME NEW n \in Nat, NEW S \in SUBSET (0..n), S # {}
  PROVE  Longest(S) \in S /\ \A m \in S : m <= Longest(S)
  BY LargestExists DEF Longest

\* A part of a text.
LEMMA PartIs ==
  ASSUME NEW t \in Texts, NEW m \in Nat \ {0}, NEW n \in 0..Len(t)
  PROVE  /\ SubSeq(t, m, n) \in Texts
         /\ Len(SubSeq(t, m, n)) = IF m <= n THEN n - m + 1 ELSE 0
  <1>1. \A i \in m..n : t[i] \in Line
    BY DEF Texts
  <1>2. m \in Int /\ n \in Int
    BY DEF Texts
  <1>3. /\ SubSeq(t, m, n) \in Seq(Line)
        /\ Len(SubSeq(t, m, n)) = IF m <= n THEN n - m + 1 ELSE 0
    BY <1>1, <1>2, SubSeqProperties
  <1> QED BY <1>3 DEF Texts

-----------------------------------------------------------------------------
(* The spans an edit comes to lie in the text. *)

\* A span that is not empty, with a text to put there.
Fits(t, s) ==
  /\ s.from \in 1..Len(t) /\ s.upto \in 1..(Len(t) + 1) /\ s.from < s.upto
  /\ s.new \in Texts

\* Words found one after another whatever is between them: from the place of
\* the first to behind the place of the last.
LEMMA WhitespaceSpanFits ==
  ASSUME NEW t \in Texts, NEW old \in Texts, NEW new \in Texts,
         WhitespaceSpan(t, old, new) # NoSpan
  PROVE  Fits(t, WhitespaceSpan(t, old, new))
  <1> DEFINE at == WordsAt(t)
             words == [i \in 1..Len(at) |-> t[at[i]].word]
             quoted == [i \in 1..Len(WordsAt(old)) |-> old[WordsAt(old)[i]].word]
             hits == IF quoted = <<>> THEN {} ELSE Hits(words, quoted)
             i == Only(hits)
  <1>1. /\ Cardinality(hits) = 1
        /\ WhitespaceSpan(t, old, new) = Span(at[i], at[i + Len(quoted) - 1] + 1, new)
    BY DEF WhitespaceSpan
  <1>2. at \in Seq(1..Len(t)) /\ WordsAt(old) \in Seq(1..Len(old)) /\ Len(t) \in Nat
    BY WordsAtIs DEF Texts
  <1>3. Len(words) = Len(at) /\ Len(at) \in Nat
    <2> HIDE DEF at
    <2> QED BY <1>2
  <1>4. Len(quoted) \in Nat /\ (Len(quoted) = 0 => quoted = <<>>)
    <2>1. Len(WordsAt(old)) \in Nat
      BY <1>2
    <2> HIDE DEF at
    <2> QED BY <2>1
  <1>5. i \in hits
    <2> HIDE DEF hits
    <2> QED BY <1>1, OnlyIs
  <1>6. quoted # <<>> /\ i \in Starts(words, quoted) /\ i \in 1..Len(words)
    <2>1. Hits(words, quoted) \subseteq Starts(words, quoted) \cap 1..Len(words)
      <3> HIDE DEF words, quoted
      <3> QED BY <1>3, HitsAreStarts
    <2> HIDE DEF words, quoted, i
    <2> QED BY <1>5, <2>1
  <1>7. i \in 1..(Len(words) - Len(quoted) + 1)
    <2> HIDE DEF words, quoted, i
    <2> QED BY <1>6 DEF Starts
  <1>8. i \in 1..Len(at) /\ i + Len(quoted) - 1 \in 1..Len(at)
    <2> HIDE DEF words, quoted, i, at
    <2> QED BY <1>3, <1>4, <1>6, <1>7
  <1>9. at[i] \in 1..Len(t) /\ at[i + Len(quoted) - 1] \in 1..Len(t)
    <2> HIDE DEF quoted, i, at
    <2> QED BY <1>2, <1>8
  <1> DEFINE a == at[i]
             b == at[i + Len(quoted) - 1]
  <1>10. a \in 1..Len(t) /\ b \in 1..Len(t) /\ a <= b
    <2>1. \A x, y \in 1..Len(at) : x < y => at[x] < at[y]
      BY WordsAtIs
    <2> DEFINE k == i + Len(quoted) - 1
    <2>2. k \in 1..Len(at) /\ i <= k
      <3> HIDE DEF quoted, i, at
      <3> QED BY <1>3, <1>4, <1>6, <1>8
    <2>3. at[i] <= at[k]
      <3>1. CASE i = k
        <4> HIDE DEF k, i, at
        <4> QED BY <1>8, <1>9, <3>1
      <3>2. CASE i # k
        <4>1. i < k
          <5> HIDE DEF k, i, at
          <5> QED BY <2>2, <3>2, <1>8
        <4>2. at[i] < at[k]
          <5> HIDE DEF k, i, at
          <5> QED BY <2>1, <2>2, <4>1, <1>8
        <4> QED BY <4>2, <1>9
      <3> QED BY <3>1, <3>2
    <2> QED BY <1>9, <2>3
  <1>11. WhitespaceSpan(t, old, new) = Span(a, b + 1, new)
    BY <1>1
  <1> HIDE DEF a, b
  <1> QED BY <1>2, <1>10, <1>11 DEF Fits, Span

\* How many lines old and new begin and end with in common.
PrefixOf(old, new) ==
  LET short == IF Len(old) < Len(new) THEN Len(old) ELSE Len(new)
  IN  Longest({n \in 0..short : Agree(old, new, n)})
SuffixOf(old, new) ==
  LET short == IF Len(old) < Len(new) THEN Len(old) ELSE Len(new)
  IN  Longest({n \in 0..(short - PrefixOf(old, new)) :
                 SubSeq(old, Len(old) - n + 1, Len(old)) = SubSeq(new, Len(new) - n + 1, Len(new))})

\* They are lines of both, and no line is counted twice.
LEMMA SharedIs ==
  ASSUME NEW old \in Texts, NEW new \in Texts
  PROVE  /\ PrefixOf(old, new) \in Nat /\ SuffixOf(old, new) \in Nat
         /\ PrefixOf(old, new) + SuffixOf(old, new) <= Len(old)
         /\ PrefixOf(old, new) + SuffixOf(old, new) <= Len(new)
  <1> DEFINE short == IF Len(old) < Len(new) THEN Len(old) ELSE Len(new)
             alike == {n \in 0..short : Agree(old, new, n)}
             prefix == PrefixOf(old, new)
             closing == {n \in 0..(short - prefix) :
                           SubSeq(old, Len(old) - n + 1, Len(old))
                           = SubSeq(new, Len(new) - n + 1, Len(new))}
             suffix == SuffixOf(old, new)
  <1>1. Len(old) \in Nat /\ Len(new) \in Nat
        /\ short \in Nat /\ short <= Len(old) /\ short <= Len(new)
    BY DEF Texts
  <1>2. prefix \in 0..short
    <2>1. alike \in SUBSET (0..short)
      OBVIOUS
    <2>2. 0 \in alike
      <3>1. SubSeq(old, 1, 0) = <<>> /\ SubSeq(new, 1, 0) = <<>>
        BY SubSeqEmpty
      <3> QED BY <1>1, <3>1 DEF Agree
    <2>3. prefix = Longest(alike)
      BY DEF PrefixOf
    <2> HIDE DEF alike, short, prefix
    <2>4. Longest(alike) \in alike
      BY <1>1, <2>1, <2>2, LongestIs
    <2> QED BY <2>1, <2>3, <2>4
  <1>3. suffix \in 0..(short - prefix)
    <2>1. closing \in SUBSET (0..(short - prefix))
      OBVIOUS
    <2>2. short - prefix \in Nat
      <3> HIDE DEF prefix, short
      <3> QED BY <1>1, <1>2
    <2>3. 0 \in closing
      <3>1. SubSeq(old, Len(old) - 0 + 1, Len(old)) = <<>>
        BY <1>1, SubSeqEmpty
      <3>2. SubSeq(new, Len(new) - 0 + 1, Len(new)) = <<>>
        BY <1>1, SubSeqEmpty
      <3> HIDE DEF prefix, short
      <3> QED BY <2>2, <3>1, <3>2
    <2>4. suffix = Longest(closing)
      BY DEF SuffixOf
    <2> HIDE DEF closing, short, prefix, suffix
    <2>5. Longest(closing) \in closing
      BY <2>1, <2>2, <2>3, LongestIs
    <2> QED BY <2>1, <2>4, <2>5
  <1> HIDE DEF short, prefix, suffix
  <1>4. /\ prefix \in Nat /\ suffix \in Nat
        /\ prefix + suffix <= Len(old) /\ prefix + suffix <= Len(new)
    BY <1>1, <1>2, <1>3
  <1> QED BY <1>4 DEF prefix, suffix

\* A needle holds the context before the delta, the delta, and what follows.
LEMMA NeedleReaches ==
  ASSUME NEW l \in Nat, NEW p \in Nat, NEW s \in Nat, p + s <= l, NEW b \in Nat, b <= l
  PROVE  LET before_ == IF b < p THEN b ELSE p
             end == IF b < s THEN l - s + b ELSE l
         IN  /\ before_ \in Nat /\ p - before_ + 1 \in Nat \ {0} /\ end \in 0..l
             /\ end - (p - before_ + 1) + 1 >= before_ + (l - s - p)
             /\ l - s - p \in Nat
  OBVIOUS

\* What old and new do not share, where its surroundings are found once.
LEMMA DeltaSpanFits ==
  ASSUME NEW t \in Texts, NEW old \in Texts, NEW new \in Texts,
         DeltaSpan(t, old, new) # NoSpan
  PROVE  Fits(t, DeltaSpan(t, old, new))
  <1> DEFINE prefix == PrefixOf(old, new)
             suffix == SuffixOf(old, new)
             oldDelta == SubSeq(old, prefix + 1, Len(old) - suffix)
             newDelta == SubSeq(new, prefix + 1, Len(new) - suffix)
             Before(n) == IF n < prefix THEN n ELSE prefix
             Needle(n) == SubSeq(old, prefix - Before(n) + 1,
                                 IF n < suffix THEN Len(old) - suffix + n ELSE Len(old))
             unique == {n \in MinAnchor..Len(old) : Cardinality(Hits(t, Needle(n))) = 1}
             best == Longest(unique)
             from == Only(Hits(t, Needle(best))) + Before(best)
  <1>1. /\ unique # {}
        /\ DeltaSpan(t, old, new) = Span(from, from + Len(oldDelta), newDelta)
        /\ Len(oldDelta) \in 1..MaxDelta
    BY DEF DeltaSpan, PrefixOf, SuffixOf
  <1>2. Len(t) \in Nat /\ Len(old) \in Nat /\ Len(new) \in Nat
    BY DEF Texts
  <1>3. /\ prefix \in Nat /\ suffix \in Nat
        /\ prefix + suffix <= Len(old) /\ prefix + suffix <= Len(new)
    BY SharedIs
  <1>4. best \in unique
    <2>1. unique \in SUBSET (0..Len(old))
      <3> HIDE DEF Needle
      <3> QED BY <1>2, EditsAssumption
    <2> HIDE DEF unique
    <2> QED BY <1>1, <1>2, <2>1, LongestIs
  <1>5. best \in MinAnchor..Len(old) /\ Cardinality(Hits(t, Needle(best))) = 1
    <2> HIDE DEF Needle, best
    <2> QED BY <1>4
  <1>6. Only(Hits(t, Needle(best))) \in Starts(t, Needle(best)) \cap 1..Len(t)
    <2> HIDE DEF Needle, best
    <2> QED BY <1>2, <1>5, OnlyIs, HitsAreStarts
  <1>7. /\ Len(Needle(best)) >= Before(best) + (Len(old) - suffix - prefix)
        /\ Before(best) \in Nat /\ Len(Needle(best)) \in Nat
        /\ Len(old) - suffix - prefix \in Nat
    <2>1. best \in Nat
      <3> HIDE DEF best
      <3> QED BY <1>2, <1>5, EditsAssumption
    <2> DEFINE m == prefix - Before(best) + 1
               n == IF best < suffix THEN Len(old) - suffix + best ELSE Len(old)
    <2>2. prefix \in Nat /\ suffix \in Nat
      BY <1>3
    <2>3. m \in Nat \ {0} /\ n \in 0..Len(old) /\ n - m + 1 >= Before(best) + (Len(old) - suffix - prefix)
          /\ Before(best) \in Nat /\ Len(old) - suffix - prefix \in Nat
      <3>1. best <= Len(old)
        <4> HIDE DEF best
        <4> QED BY <1>2, <1>5, EditsAssumption
      <3> HIDE DEF prefix, suffix, best
      <3> QED BY <1>2, <1>3, <2>1, <2>2, <3>1, NeedleReaches
    <2>4. Len(Needle(best)) = IF m <= n THEN n - m + 1 ELSE 0
      <3> HIDE DEF m, n
      <3>1. Needle(best) = SubSeq(old, m, n)
        BY DEF m, n
      <3> HIDE DEF Needle
      <3> QED BY <2>3, <3>1, PartIs
    <2> HIDE DEF m, n, Needle, Before, prefix, suffix
    <2> QED BY <1>2, <2>3, <2>4
  <1>8. Only(Hits(t, Needle(best))) \in 1..(Len(t) - Len(Needle(best)) + 1)
    <2> HIDE DEF Needle, best
    <2> QED BY <1>6 DEF Starts
  <1>9. Len(oldDelta) = Len(old) - suffix - prefix /\ newDelta \in Texts
    <2>1. prefix + 1 \in Nat \ {0} /\ Len(old) - suffix \in 0..Len(old)
          /\ Len(new) - suffix \in 0..Len(new)
      <3>1. prefix \in Nat /\ suffix \in Nat
        BY <1>3
      <3> HIDE DEF prefix, suffix
      <3> QED BY <1>2, <1>3, <3>1
    <2>2. newDelta \in Texts
      <3> HIDE DEF prefix, suffix
      <3> QED BY <2>1, PartIs
    <2> DEFINE a == prefix + 1
               b == Len(old) - suffix
    <2>3. Len(SubSeq(old, a, b)) = IF a <= b THEN b - a + 1 ELSE 0
      <3> HIDE DEF a, b
      <3> QED BY <2>1, PartIs DEF a, b
    <2>4. prefix \in Nat /\ suffix \in Nat
      BY <1>3
    <2>5. Len(SubSeq(old, a, b)) = Len(old) - suffix - prefix
      <3> HIDE DEF prefix, suffix
      <3> QED BY <1>2, <1>3, <2>3, <2>4
    <2> HIDE DEF newDelta, prefix, suffix
    <2> QED BY <2>2, <2>5
  <1>10. /\ from \in 1..Len(t) /\ from + Len(oldDelta) \in 1..(Len(t) + 1)
         /\ from < from + Len(oldDelta)
    <2> HIDE DEF Needle, best, Before, oldDelta, prefix, suffix
    <2> QED BY <1>1, <1>2, <1>7, <1>8, <1>9, EditsAssumption
  <1> DEFINE upto == from + Len(oldDelta)
  <1>11. DeltaSpan(t, old, new) = Span(from, upto, newDelta) /\ newDelta \in Texts
    BY <1>1, <1>9
  <1>12. from \in 1..Len(t) /\ upto \in 1..(Len(t) + 1) /\ from < upto
    BY <1>10
  <1> HIDE DEF from, upto, newDelta
  <1> QED BY <1>11, <1>12 DEF Fits, Span

\* The block of a definition.
LEMMA FuzzySpansFit ==
  ASSUME NEW t \in Texts, NEW old \in Texts, NEW new \in Texts,
         NEW s \in FuzzySpans(t, old, new)
  PROVE  Fits(t, s)
  <1> DEFINE Defs(u) == {i \in 1..Len(u) : u[i].word \in Definitions}
             First(u) == u[CHOOSE i \in Defs(u) : \A j \in Defs(u) : i <= j].word
             within(i) == {j \in i..Len(t) : /\ t[j].word # Empty
                                             /\ \A k \in (i + 1)..j : k \notin Defs(t)}
             End(i) == 1 + Longest(within(i))
  <1>1. PICK i \in Defs(t) : s = Span(i, End(i), new)
    BY DEF FuzzySpans
  <1>2. Len(t) \in Nat /\ i \in 1..Len(t)
    BY DEF Texts
  <1>3. within(i) \in SUBSET (0..Len(t))
    <2> HIDE DEF Defs
    <2> QED BY <1>2
  <1>4. i \in within(i)
    <2>1. t[i].word # Empty
      BY EditsAssumption
    <2>2. \A k \in (i + 1)..i : k \notin Defs(t)
      <3> HIDE DEF Defs
      <3> QED BY <1>2
    <2> HIDE DEF Defs
    <2> QED BY <1>2, <2>1, <2>2
  <1>5. Longest(within(i)) \in 0..Len(t) /\ i <= Longest(within(i))
    <2> HIDE DEF within
    <2> QED BY <1>2, <1>3, <1>4, LongestIs
  <1>6. End(i) \in 1..(Len(t) + 1) /\ i < End(i)
    <2> HIDE DEF within
    <2> QED BY <1>2, <1>5
  <1> HIDE DEF End
  <1> QED BY <1>1, <1>2, <1>6 DEF Fits, Span

\* Whichever way an edit is resolved, it is refused, taken for made already, or
\* comes to a span of the text (the four resolvers of apply_coding_graph_edits).
LEMMA ResolvedFit ==
  ASSUME NEW t \in Texts, NEW e, e.old \in Texts, e.new \in Texts,
         NEW s \in Resolved(t, e), s # NoSpan
  PROVE  s = Skipped \/ Fits(t, s)
  <1> DEFINE found == Hits(t, e.old)
             tolerant == WhitespaceSpan(t, e.old, e.new)
             delta == DeltaSpan(t, e.old, e.new)
  <1>1. \/ Cardinality(found) = 1 /\ s = Span(Only(found), Only(found) + Len(e.old), e.new)
        \/ s = Skipped
        \/ tolerant # NoSpan /\ s = tolerant
        \/ delta # NoSpan /\ s = delta
        \/ s \in FuzzySpans(t, e.old, e.new)
    <2> HIDE DEF found, tolerant, delta
    <2>1. Resolved(t, e) =
            IF e.op # "replace" \/ e.old = <<>> THEN {NoSpan}
            ELSE IF Cardinality(found) = 1
              THEN {Span(Only(found), Only(found) + Len(e.old), e.new)}
            ELSE IF found # {} THEN {NoSpan}
            ELSE IF e.new # <<>> /\ Cardinality(Hits(t, e.new)) = 1 THEN {Skipped}
            ELSE IF tolerant # NoSpan THEN {tolerant}
            ELSE IF delta # NoSpan THEN {delta}
            ELSE {NoSpan} \cup IF e.path \in Python THEN FuzzySpans(t, e.old, e.new) ELSE {}
      BY DEF Resolved, found, tolerant, delta
    <2> QED BY <2>1
  <1>2. CASE Cardinality(found) = 1 /\ s = Span(Only(found), Only(found) + Len(e.old), e.new)
    <2>1. Len(t) \in Nat /\ Len(e.old) \in Nat
      BY DEF Texts
    <2>2. Only(found) \in found
      <3> HIDE DEF found
      <3> QED BY <1>2, OnlyIs
    <2>3. /\ Only(found) \in 1..Len(t)
          /\ Only(found) \in 1..(Len(t) - Len(e.old) + 1)
      <3>1. found \subseteq Starts(t, e.old) \cap 1..Len(t)
        BY <2>1, HitsAreStarts
      <3> HIDE DEF found
      <3> QED BY <2>2, <3>1 DEF Starts
    <2>4. Len(e.old) > 0
      <3>1. e.old # <<>>
        BY <1>2 DEF Resolved, Span, NoSpan
      <3> QED BY <2>1, <3>1 DEF Texts
    <2>5. Only(found) + Len(e.old) \in 1..(Len(t) + 1) /\ Only(found) < Only(found) + Len(e.old)
      <3> DEFINE i == Only(found)
                 n == Len(e.old)
                 m == Len(t)
      <3>1. m \in Nat /\ n \in Nat /\ n > 0 /\ i \in 1..m /\ i \in 1..(m - n + 1)
        BY <2>1, <2>3, <2>4
      <3> HIDE DEF i, n, m
      <3>2. i + n \in 1..(m + 1) /\ i < i + n
        BY <3>1
      <3> QED BY <3>2 DEF i, n, m
    <2> HIDE DEF found
    <2> QED BY <1>2, <2>3, <2>5 DEF Fits, Span
  <1>3. CASE tolerant # NoSpan /\ s = tolerant
    BY <1>3, WhitespaceSpanFits
  <1>4. CASE delta # NoSpan /\ s = delta
    BY <1>4, DeltaSpanFits
  <1>5. CASE s \in FuzzySpans(t, e.old, e.new)
    BY <1>5, FuzzySpansFit
  <1> QED BY <1>1, <1>2, <1>3, <1>4, <1>5

-----------------------------------------------------------------------------
(* The same members in another order. *)

\* f and g name every place once, and undo each other.
Swap(n, f, g) ==
  /\ f \in [1..n -> 1..n] /\ g \in [1..n -> 1..n]
  /\ \A k \in 1..n : g[f[k]] = k /\ f[g[k]] = k

\* y lists what x lists.
Rearranged(n, x, y) ==
  \E f, g : Swap(n, f, g) /\ \A k \in 1..n : y[k] = x[f[k]]

\* There and back may be exchanged.
LEMMA SwapBack ==
  ASSUME NEW n \in Nat, NEW f, NEW g, Swap(n, f, g)
  PROVE  Swap(n, g, f)
  BY DEF Swap

LEMMA RearrangedBack ==
  ASSUME NEW n \in Nat, NEW x, NEW y, Rearranged(n, x, y)
  PROVE  Rearranged(n, y, x)
  <1>1. PICK f, g : Swap(n, f, g) /\ \A k \in 1..n : y[k] = x[f[k]]
    BY DEF Rearranged
  <1>2. Swap(n, g, f)
    BY <1>1, SwapBack
  <1>3. \A k \in 1..n : x[k] = y[g[k]]
    <2>1. \A k \in 1..n : g[k] \in 1..n /\ f[g[k]] = k
      BY <1>1 DEF Swap
    <2> QED BY <1>1, <2>1, Zenon
  <1> QED BY <1>2, <1>3, Zenon DEF Rearranged

\* A rearrangement of a rearrangement is one.
LEMMA RearrangedAgain ==
  ASSUME NEW n \in Nat, NEW x, NEW y, NEW z, Rearranged(n, x, y), Rearranged(n, y, z)
  PROVE  Rearranged(n, x, z)
  <1>1. PICK f, g : Swap(n, f, g) /\ \A k \in 1..n : y[k] = x[f[k]]
    BY DEF Rearranged
  <1>2. PICK ff, gg : Swap(n, ff, gg) /\ \A k \in 1..n : z[k] = y[ff[k]]
    BY DEF Rearranged
  <1> DEFINE F == [k \in 1..n |-> f[ff[k]]]
             G == [k \in 1..n |-> gg[g[k]]]
  <1>3. Swap(n, F, G)
    <2>1. ASSUME NEW k \in 1..n
          PROVE  F[k] \in 1..n /\ G[k] \in 1..n /\ G[F[k]] = k /\ F[G[k]] = k
      <3>1. /\ ff[k] \in 1..n /\ f[ff[k]] \in 1..n /\ g[k] \in 1..n /\ gg[g[k]] \in 1..n
            /\ g[f[ff[k]]] = ff[k] /\ gg[ff[k]] = k /\ ff[gg[g[k]]] = g[k] /\ f[g[k]] = k
        BY <1>1, <1>2 DEF Swap
      <3> QED BY <3>1
    <2> QED BY <2>1 DEF Swap
  <1>4. \A k \in 1..n : z[k] = x[F[k]]
    <2>1. \A k \in 1..n : F[k] = f[ff[k]] /\ ff[k] \in 1..n
      BY <1>2 DEF Swap
    <2> HIDE DEF F
    <2> QED BY <1>1, <1>2, <2>1, Zenon
  <1> HIDE DEF F, G
  <1> QED BY <1>3, <1>4, Zenon DEF Rearranged

\* What names every place once rearranges.
LEMMA Swaps ==
  ASSUME NEW n \in Nat, NEW f \in [1..n -> 1..n], Range(f) = 1..n,
         \A a, b \in 1..n : a < b => f[a] # f[b]
  PROVE  \E g : Swap(n, f, g)
  <1> DEFINE g == [i \in 1..n |-> CHOOSE k \in 1..n : f[k] = i]
  <1>1. ASSUME NEW i \in 1..n PROVE g[i] \in 1..n /\ f[g[i]] = i
    <2>1. i \in {f[k] : k \in DOMAIN f}
      BY DEF Range
    <2>2. \E k \in 1..n : f[k] = i
      BY <2>1
    <2> QED BY <2>2
  <1>2. ASSUME NEW k \in 1..n PROVE g[f[k]] = k
    <2>1. f[k] \in 1..n
      OBVIOUS
    <2>2. g[f[k]] \in 1..n /\ f[g[f[k]]] = f[k]
      BY <2>1, <1>1
    <2> HIDE DEF g
    <2>3. ~(g[f[k]] < k) /\ ~(k < g[f[k]])
      BY <2>2
    <2> QED BY <2>2, <2>3
  <1>3. g \in [1..n -> 1..n]
    BY <1>1
  <1> HIDE DEF g
  <1> QED BY <1>1, <1>2, <1>3 DEF Swap

\* Of what is in descending order the k-th is no more than it was before it was
\* rearranged: one of the first k came from the k-th place or from behind it.
LEMMA NotAbove ==
  ASSUME NEW n \in Nat, NEW x \in [1..n -> Int], NEW y \in [1..n -> Int], Rearranged(n, x, y),
         \A a, b \in 1..n : a < b => x[a] >= x[b],
         \A a, b \in 1..n : a < b => y[a] >= y[b],
         NEW k \in 1..n
  PROVE  y[k] <= x[k]
  <1>1. PICK f, g : Swap(n, f, g) /\ \A i \in 1..n : y[i] = x[f[i]]
    BY DEF Rearranged
  <1>2. /\ f \in [1..n -> 1..n] /\ g \in [1..n -> 1..n]
        /\ \A i \in 1..n : g[f[i]] = i /\ y[i] = x[f[i]]
    BY <1>1 DEF Swap
  <1>3. PICK a \in 1..k : f[a] >= k
    <2> SUFFICES ASSUME \A a \in 1..k : ~(f[a] >= k) PROVE FALSE
      OBVIOUS
    <2> DEFINE S == 1..k
               T == 1..(k - 1)
               h == [a \in S |-> f[a]]
    <2>1. /\ IsFiniteSet(S) /\ Cardinality(S) = k
          /\ IsFiniteSet(T) /\ Cardinality(T) = k - 1
      BY FS_Interval
    <2>2. \A a \in S : f[a] \in T /\ a \in 1..n
      BY <1>2
    <2>3. h \in [S -> T]
      <3> HIDE DEF S, T
      <3> QED BY <2>2
    <2>4. Cardinality(T) < Cardinality(S)
      <3> HIDE DEF S, T
      <3> QED BY <2>1
    <2>5. \E a, b \in S : a # b /\ h[a] = h[b]
      <3> HIDE DEF S, T, h
      <3> QED BY <2>1, <2>3, <2>4, FS_PigeonHole
    <2>6. PICK a \in S, b \in S : a # b /\ f[a] = f[b]
      <3> HIDE DEF S
      <3> QED BY <2>5
    <2>7. g[f[a]] = a /\ g[f[b]] = b
      BY <2>2, <1>2
    <2> QED BY <2>6, <2>7
  <1>4. a \in 1..n /\ f[a] \in 1..n /\ a <= k /\ y[a] = x[f[a]]
    BY <1>2, <1>3
  <1>5. y[k] <= y[a]
    BY <1>4
  <1>6. x[f[a]] <= x[k]
    BY <1>3, <1>4
  <1> QED BY <1>4, <1>5, <1>6

Descending(n, x) == \A a, b \in 1..n : a < b => x[a].from >= x[b].from

\* No two begin at one place.
Placed(n, x) ==
  /\ \A k \in 1..n : x[k].from \in Int
  /\ \A a, b \in 1..n : x[a].from = x[b].from => x[a] = x[b]

\* What is in descending order is so in one way only.
LEMMA SameOrder ==
  ASSUME NEW n \in Nat, NEW x, NEW y, Rearranged(n, x, y),
         Placed(n, x), Descending(n, x), Descending(n, y)
  PROVE  \A k \in 1..n : y[k] = x[k]
  <1> DEFINE X == [k \in 1..n |-> x[k].from]
             Y == [k \in 1..n |-> y[k].from]
  <1>1. PICK f, g : Swap(n, f, g) /\ \A i \in 1..n : y[i] = x[f[i]]
    BY DEF Rearranged
  <1>2. \A i \in 1..n : f[i] \in 1..n
    BY <1>1 DEF Swap
  <1>3. \A i \in 1..n : y[i].from = x[f[i]].from
    BY <1>1, Zenon
  <1>4. X \in [1..n -> Int]
    BY DEF Placed
  <1>5. Y \in [1..n -> Int]
    <2>1. \A i \in 1..n : y[i].from \in Int
      BY <1>2, <1>3, Zenon DEF Placed
    <2> QED BY <2>1
  <1>6. /\ \A a, b \in 1..n : a < b => X[a] >= X[b]
        /\ \A a, b \in 1..n : a < b => Y[a] >= Y[b]
    BY DEF Descending
  <1>7. \A i \in 1..n : Y[i] = X[f[i]]
    BY <1>2, <1>3
  <1>8. ASSUME NEW k \in 1..n PROVE X[k] = Y[k]
    <2> HIDE DEF X, Y
    <2>1. Rearranged(n, X, Y)
      BY <1>1, <1>7, Zenon DEF Rearranged
    <2>2. Rearranged(n, Y, X)
      BY <2>1, RearrangedBack
    <2>3. Y[k] <= X[k]
      BY <1>4, <1>5, <1>6, <2>1, NotAbove
    <2>4. X[k] <= Y[k]
      BY <1>4, <1>5, <1>6, <2>2, NotAbove
    <2>5. X[k] \in Int /\ Y[k] \in Int
      BY <1>4, <1>5
    <2> QED BY <2>3, <2>4, <2>5
  <1>9. ASSUME NEW k \in 1..n PROVE y[k] = x[k]
    <2>1. f[k] \in 1..n /\ y[k] = x[f[k]]
      BY <1>1, <1>2
    <2>2. x[k].from = x[f[k]].from
      <3>1. X[k] = Y[k] /\ Y[k] = X[f[k]]
        BY <1>7, <1>8
      <3> QED BY <2>1, <3>1
    <2> QED BY <2>1, <2>2, Zenon DEF Placed
  <1> QED BY <1>9

-----------------------------------------------------------------------------
(* What the replacements of a file make of it. *)

\* Sorting puts every replacement in the list once, the last in the text first.
LEMMA LastFirstIs ==
  ASSUME NEW n \in Nat, NEW spans, DOMAIN spans = 1..n,
         \A i \in 1..n : spans[i].from \in Nat
  PROVE  /\ Len(LastFirst(spans)) = n
         /\ LastFirst(spans) = [k \in 1..n |-> LastFirst(spans)[k]]
         /\ Rearranged(n, spans, LastFirst(spans))
         /\ \A i \in 1..n : \E j \in 1..n : LastFirst(spans)[i] = spans[j]
         /\ \A i, j \in 1..n :
              i < j => LastFirst(spans)[i].from >= LastFirst(spans)[j].from
  <1> DEFINE D == DOMAIN spans
             R == {r \in D \X D : \/ spans[r[1]].from > spans[r[2]].from
                                  \/ /\ spans[r[1]].from = spans[r[2]].from
                                     /\ r[1] > r[2]}
             order == Sorted(D, R)
  <1>1. LastFirst(spans) = [i \in DOMAIN order |-> spans[order[i]]]
    BY DEF LastFirst
  <1>2. IsFiniteSet(D) /\ Cardinality(D) = n
    <2>1. IsFiniteSet(1..n) /\ Cardinality(1..n) = n
      BY FS_Interval
    <2> QED BY <2>1
  <1>3. \A x, y \in D : <<x, y>> \in R <=> \/ spans[x].from > spans[y].from
                                           \/ spans[x].from = spans[y].from /\ x > y
    OBVIOUS
  <1>4. \A x \in D : spans[x].from \in Nat /\ x \in Nat
    OBVIOUS
  <1>5. /\ \A x \in D : <<x, x>> \notin R
        /\ \A x, y, z \in D : <<x, y>> \in R /\ <<y, z>> \in R => <<x, z>> \in R
        /\ \A x, y \in D : x # y => <<x, y>> \in R \/ <<y, x>> \in R
    <2> HIDE DEF R, D
    <2> QED BY <1>3, <1>4
  <1>6. /\ order \in [1..Cardinality(D) -> D]
        /\ \A a, b \in 1..Cardinality(D) : a < b => <<order[a], order[b]>> \in R
        /\ Range(order) = D
    <2> HIDE DEF R, D
    <2> QED BY <1>2, <1>5, SortedOrders
  <1>7. /\ order \in [1..n -> D]
        /\ \A a, b \in 1..n : a < b => <<order[a], order[b]>> \in R
    <2> HIDE DEF R, D, order
    <2> QED BY <1>2, <1>6
  <1>8. LastFirst(spans) = [i \in 1..n |-> spans[order[i]]]
    <2> HIDE DEF order
    <2> QED BY <1>1, <1>7
  <1>9. Len(LastFirst(spans)) = n
    BY <1>8
  <1>10. ASSUME NEW a \in 1..n, NEW b \in 1..n, a < b
         PROVE  spans[order[a]].from >= spans[order[b]].from
    <2>1. <<order[a], order[b]>> \in R /\ order[a] \in D /\ order[b] \in D
      <3> HIDE DEF R, D, order
      <3> QED BY <1>7, <1>10
    <2>2. ASSUME NEW x \in D, NEW y \in D, <<x, y>> \in R
          PROVE  spans[x].from >= spans[y].from
      <3>1. spans[x].from > spans[y].from \/ spans[x].from = spans[y].from
        BY <2>2
      <3>2. spans[x].from \in Nat /\ spans[y].from \in Nat
        OBVIOUS
      <3> QED BY <3>1, <3>2
    <2> HIDE DEF R, D, order
    <2> QED BY <2>1, <2>2
  <1>11. \A i \in 1..n : order[i] \in 1..n
    <2> HIDE DEF order, R
    <2> QED BY <1>7
  <1>12. \A i \in 1..n : LastFirst(spans)[i] = spans[order[i]]
    <2> HIDE DEF order, R
    <2> QED BY <1>8
  <1>13. LastFirst(spans) = [k \in 1..n |-> LastFirst(spans)[k]]
    <2> HIDE DEF order
    <2> QED BY <1>8
  <1>14. Rearranged(n, spans, LastFirst(spans))
    <2>1. order \in [1..n -> 1..n] /\ Range(order) = 1..n
      <3> HIDE DEF order, R
      <3> QED BY <1>6, <1>7
    <2>2. ASSUME NEW a \in 1..n, NEW b \in 1..n, a < b PROVE order[a] # order[b]
      <3>1. <<order[a], order[b]>> \in R /\ order[a] \in D
        <4> HIDE DEF order, R, D
        <4> QED BY <2>2, <1>7
      <3>2. \A x \in D : <<x, x>> \notin R
        BY <1>5
      <3> HIDE DEF order, R, D
      <3> QED BY <3>1, <3>2
    <2>3. \E g : Swap(n, order, g)
      <3> HIDE DEF order, R, D
      <3> QED BY <2>1, <2>2, Swaps
    <2> HIDE DEF order, R, D
    <2> QED BY <2>3, <1>12, Zenon DEF Rearranged
  <1> HIDE DEF order
  <1> QED BY <1>9, <1>10, <1>11, <1>12, <1>13, <1>14

\* One replacement leaves what is before it, puts the new lines where the old
\* were, and leaves what is behind it.
LEMMA ReplaceIs ==
  ASSUME NEW t \in Texts, NEW s, s # Skipped, s.from \in 1..(Len(t) + 1),
         s.upto \in Nat \ {0}, s.new \in Texts
  PROVE  Replace(t, s) \in Texts /\ Len(Replace(t, s)) >= s.from - 1
  <1> DEFINE head == SubSeq(t, 1, s.from - 1)
             right == SubSeq(t, s.upto, Len(t))
  <1>1. Len(t) \in Nat
    BY DEF Texts
  <1>2. head \in Texts /\ Len(head) = s.from - 1 /\ right \in Texts
    <2>1. s.from - 1 \in 0..Len(t) /\ Len(t) \in 0..Len(t) /\ 1 \in Nat \ {0}
      BY <1>1
    <2>2. head \in Texts /\ Len(head) = IF 1 <= s.from - 1 THEN s.from - 1 - 1 + 1 ELSE 0
      <3> DEFINE n == s.from - 1
      <3>1. n \in 0..Len(t)
        BY <2>1
      <3> HIDE DEF n
      <3>2. SubSeq(t, 1, n) \in Texts
            /\ Len(SubSeq(t, 1, n)) = IF 1 <= n THEN n - 1 + 1 ELSE 0
        BY <3>1, <2>1, PartIs
      <3> USE DEF n
      <3> QED BY <3>2
    <2>3. right \in Texts
      BY <2>1, PartIs
    <2> HIDE DEF head, right
    <2> QED BY <2>1, <2>2, <2>3
  <1>3. Replace(t, s) = head \o s.new \o right
    BY DEF Replace
  <1>4. head \o s.new \in Texts /\ Len(head \o s.new) = Len(head) + Len(s.new)
    <2> HIDE DEF head
    <2> QED BY <1>2, ConcatProperties DEF Texts
  <1>5. /\ (head \o s.new) \o right \in Texts
        /\ Len((head \o s.new) \o right) = Len(head \o s.new) + Len(right)
    <2> DEFINE u == head \o s.new
    <2>1. u \in Texts
      BY <1>4
    <2> HIDE DEF u, right
    <2>2. u \o right \in Texts /\ Len(u \o right) = Len(u) + Len(right)
      BY <1>2, <2>1, ConcatProperties DEF Texts
    <2> USE DEF u
    <2> QED BY <2>2
  <1>6. Len(s.new) \in Nat /\ Len(right) \in Nat
    <2> HIDE DEF right
    <2> QED BY <1>2 DEF Texts
  <1> HIDE DEF head, right
  <1> QED BY <1>1, <1>2, <1>3, <1>4, <1>5, <1>6

\* The texts there are after each replacement.
Turns(t, n, order, u) ==
  u[0] = t /\ \A k \in 1..n : u[k] = Replace(u[k - 1], order[k])

\* What InTurn comes to is made step by step: its recursion is along the list.
LEMMA InTurnIs ==
  ASSUME NEW t, NEW n \in Nat, NEW order, Len(order) = n
  PROVE  \E u : Turns(t, n, order, u) /\ InTurn(t, order) = u[n]
  <1> DEFINE Made(f, k) == IF k = 0 THEN t ELSE Replace(f[k - 1], order[k])
             upTo == CHOOSE f : f = [k \in 0..Len(order) |-> Made(f, k)]
  <1>1. \E f : f = [k \in 0..n |-> Made(f, k)]
    <2> DEFINE F(f) == f = [k \in 0..n |-> f[k]]
               M == {m \in Nat : \E f : F(f) /\ \A k \in 0..n : k <= m => f[k] = Made(f, k)}
    <2>1. 0 \in M
      <3> DEFINE g == [k \in 0..n |-> t]
      <3>1. F(g)
        OBVIOUS
      <3>2. \A k \in 0..n : k <= 0 => g[k] = Made(g, k)
        OBVIOUS
      <3> HIDE DEF g, F, Made
      <3> QED BY <3>1, <3>2
    <2>2. ASSUME NEW m \in Nat, m \in M PROVE m + 1 \in M
      <3>1. PICK f : F(f) /\ \A k \in 0..n : k <= m => f[k] = Made(f, k)
        BY <2>2
      <3> DEFINE g == [k \in 0..n |-> Made(f, k)]
      <3>2. F(g)
        <4> HIDE DEF Made
        <4> QED OBVIOUS
      <3>3. ASSUME NEW k \in 0..n, k <= m + 1 PROVE g[k] = Made(g, k)
        <4>1. CASE k = 0
          BY <4>1
        <4>2. CASE k # 0
          <5>1. k - 1 \in 0..n /\ k - 1 <= m
            BY <3>3, <4>2
          <5>2. g[k - 1] = f[k - 1]
            <6> HIDE DEF Made
            <6> QED BY <5>1, <3>1
          <5>3. Made(g, k) = Made(f, k)
            <6> HIDE DEF g
            <6> QED BY <5>2
          <5> HIDE DEF Made
          <5> QED BY <5>3
        <4> QED BY <4>1, <4>2
      <3> HIDE DEF g, F, Made
      <3> QED BY <3>2, <3>3
    <2>3. n \in M
      <3> HIDE DEF M
      <3> QED BY <2>1, <2>2, SetInduction
    <2>4. PICK f : F(f) /\ \A k \in 0..n : k <= n => f[k] = Made(f, k)
      <3> HIDE DEF F, Made
      <3> QED BY <2>3
    <2>5. \A k \in 0..n : f[k] = Made(f, k)
      <3> HIDE DEF F, Made
      <3> QED BY <2>4
    <2>6. [k \in 0..n |-> f[k]] = [k \in 0..n |-> Made(f, k)]
      <3> HIDE DEF Made
      <3> QED BY <2>5
    <2> HIDE DEF Made
    <2> QED BY <2>4, <2>6
  <1>2. upTo = [k \in 0..n |-> Made(upTo, k)]
    <2>1. upTo = CHOOSE f : f = [k \in 0..n |-> Made(f, k)]
      <3> HIDE DEF Made
      <3> QED OBVIOUS
    <2> HIDE DEF Made
    <2> QED BY <1>1, <2>1
  <1>3. Turns(t, n, order, upTo)
    <2> HIDE DEF upTo
    <2>1. \A k \in 0..n : upTo[k] = Made(upTo, k)
      <3> HIDE DEF Made
      <3> QED BY <1>2
    <2> QED BY <2>1 DEF Turns
  <1>4. InTurn(t, order) = upTo[n]
    BY DEF InTurn
  <1> HIDE DEF upTo
  <1> QED BY <1>3, <1>4

\* From the last replacement to the first: each leaves the text before it, in
\* which all that are still to be made begin.
LEMMA ReplacedIs ==
  ASSUME NEW t \in Texts, NEW n \in Nat, NEW spans, DOMAIN spans = 1..n,
         \A i \in 1..n : spans[i] = Skipped \/ Fits(t, spans[i])
  PROVE  Replaced(t, spans) \in Texts
  <1> DEFINE order == LastFirst(spans)
  <1>0. Len(t) \in Nat
    BY DEF Texts
  <1>1. \A i \in 1..n : spans[i].from \in Nat
    BY <1>0 DEF Fits, Skipped, Span
  <1>2. /\ Len(order) = n
        /\ \A i \in 1..n : order[i] = Skipped \/ Fits(t, order[i])
        /\ \A i, j \in 1..n : i < j => order[i].from >= order[j].from
    <2>1. /\ Len(order) = n
          /\ \A i \in 1..n : \E j \in 1..n : order[i] = spans[j]
          /\ \A i, j \in 1..n : i < j => order[i].from >= order[j].from
      BY <1>1, LastFirstIs
    <2> HIDE DEF order
    <2> QED BY <2>1
  <1>3. PICK upTo : Turns(t, n, order, upTo) /\ InTurn(t, order) = upTo[n]
    <2>1. Len(order) = n
      BY <1>2
    <2> HIDE DEF order
    <2> QED BY <2>1, InTurnIs
  <1> DEFINE Room(k, j) == order[j] = Skipped \/ order[j].from <= Len(upTo[k]) + 1
             K == {k \in Nat : k <= n => /\ upTo[k] \in Texts
                                         /\ \A j \in (k + 1)..n : Room(k, j)}
  <1>4. 0 \in K
    <2> HIDE DEF order
    <2>1. ASSUME NEW j \in 1..n PROVE Room(0, j)
      BY <1>0, <1>2, <1>3 DEF Fits, Turns
    <2> HIDE DEF Room
    <2> QED BY <1>3, <2>1 DEF Turns
  <1>5. ASSUME NEW k \in Nat, k \in K PROVE k + 1 \in K
    <2> HIDE DEF order
    <2> SUFFICES ASSUME k + 1 <= n
                 PROVE  /\ upTo[k + 1] \in Texts
                        /\ \A j \in (k + 1 + 1)..n : Room(k + 1, j)
      OBVIOUS
    <2> DEFINE u == upTo[k]
               s == order[k + 1]
    <2>1. u \in Texts /\ (\A j \in (k + 1)..n : Room(k, j)) /\ Len(u) \in Nat
      BY <1>5 DEF Texts
    <2>2. upTo[k + 1] = Replace(u, s)
      <3>1. k + 1 \in 1..n /\ (k + 1) - 1 = k
        OBVIOUS
      <3> QED BY <3>1, <1>3 DEF Turns
    <2>3. CASE s = Skipped
      <3>1. upTo[k + 1] = u
        BY <2>2, <2>3 DEF Replace
      <3>2. \A j \in (k + 1 + 1)..n : j \in (k + 1)..n
        OBVIOUS
      <3> QED BY <2>1, <3>1, <3>2
    <2>4. CASE s # Skipped
      <3>1. k + 1 \in 1..n /\ k + 1 \in (k + 1)..n
        OBVIOUS
      <3>2. Fits(t, s) /\ Room(k, k + 1)
        <4> HIDE DEF Room
        <4> QED BY <2>1, <2>4, <3>1, <1>2
      <3>3. s.from \in 1..(Len(u) + 1) /\ s.upto \in Nat \ {0} /\ s.new \in Texts
        BY <2>1, <2>4, <3>2, <1>0 DEF Fits
      <3>4. Replace(u, s) \in Texts /\ Len(Replace(u, s)) >= s.from - 1
        <4> HIDE DEF u, s
        <4> QED BY <2>1, <2>4, <3>3, ReplaceIs
      <3>5. ASSUME NEW j \in (k + 1 + 1)..n PROVE Room(k + 1, j)
        <4>1. j \in 1..n /\ k + 1 < j
          OBVIOUS
        <4>2. s.from >= order[j].from
          BY <3>1, <4>1, <1>2
        <4>3. order[j] = Skipped \/ order[j].from \in Nat
          BY <4>1, <1>2, <1>0 DEF Fits
        <4>4. Len(Replace(u, s)) \in Nat
          <5> HIDE DEF u, s
          <5> QED BY <3>4 DEF Texts
        <4> HIDE DEF u, s
        <4> QED BY <2>2, <3>3, <3>4, <4>2, <4>3, <4>4, <2>1
      <3> HIDE DEF Room, u, s
      <3> QED BY <2>2, <3>4, <3>5
    <2> QED BY <2>3, <2>4
  <1>6. n \in K
    <2> HIDE DEF K
    <2> QED BY <1>4, <1>5, SetInduction
  <1>7. upTo[n] \in Texts
    <2> HIDE DEF Room, order
    <2> QED BY <1>6
  <1>8. Replaced(t, spans) = upTo[n]
    BY <1>3 DEF Replaced
  <1> HIDE DEF order
  <1> QED BY <1>2, <1>7, <1>8

\* A proposal that is not refused comes to a text for every file it names, and
\* names no other than those that may be edited.
LEMMA NewTextsAre ==
  ASSUME NEW old \in Texts \cup {Absent}, NEW tracked, NEW shown,
         NEW es \in Seq(Edits),
         NEW r \in NewTexts(old, tracked, shown, es), r # Refused
  PROVE  r \in Texts
  <1> DEFINE n == Len(es)
             first == es[1]
             Alone(op) == Len(es) = 1 /\ first.op = op /\ first.old = <<>>
             Ways == {f \in [DOMAIN es -> UNION {Resolved(old, es[i]) : i \in DOMAIN es}] :
                        \A i \in DOMAIN es : f[i] \in Resolved(old, es[i])}
  <1>1. n \in Nat /\ DOMAIN es = 1..n /\ \A i \in 1..n : es[i] \in Edits
    OBVIOUS
  <1>2. \A i \in 1..n : es[i].old \in Texts /\ es[i].new \in Texts
    BY <1>1, GatesAssumption
  <1>3. \/ n = 1 /\ r = first.new
        \/ old # Absent /\ \E s \in Ways : /\ ~(NoSpan \in {s[i] : i \in DOMAIN s})
                                           /\ r = Replaced(old, s)
    <2> HIDE DEF Ways
    <2>1. NewTexts(old, tracked, shown, es) =
            IF old = Absent THEN {IF Alone("create") THEN first.new ELSE Refused}
            ELSE IF ~tracked /\ Alone("create") THEN {first.new}
            ELSE IF Len(es) = 1 /\ first.op = "replace_file"
              THEN {IF first.old = <<>> /\ first.expects = old THEN first.new ELSE Refused}
            ELSE IF shown /\ Alone("create") THEN {first.new}
            ELSE {IF NoSpan \in {s[i] : i \in DOMAIN s} \/ Overlap(s) THEN Refused
                  ELSE Replaced(old, s) : s \in Ways}
      BY DEF NewTexts, Ways
    <2> QED BY <2>1
  <1>4. CASE n = 1 /\ r = first.new
    BY <1>2, <1>4
  <1>5. ASSUME old # Absent, NEW s \in Ways, ~(NoSpan \in {s[i] : i \in DOMAIN s}),
               r = Replaced(old, s)
        PROVE  r \in Texts
    <2>1. DOMAIN s = 1..n /\ \A i \in 1..n : s[i] \in Resolved(old, es[i]) /\ s[i] # NoSpan
      BY <1>1, <1>5
    <2>2. old \in Texts
      BY <1>5
    <2>3. ASSUME NEW i \in 1..n PROVE s[i] = Skipped \/ Fits(old, s[i])
      BY <2>1, <2>2, <1>2, ResolvedFit
    <2> HIDE DEF Ways, n
    <2> QED BY <1>1, <1>5, <2>1, <2>2, <2>3, ReplacedIs
  <1> QED BY <1>3, <1>4, <1>5

\* A whole proposal: nothing, or a text for each of some files that may be
\* edited (apply_coding_graph_edits).
LEMMA OutcomesAre ==
  ASSUME NEW tree \in [Path -> Texts \cup {Absent}], NEW tracked, NEW shown,
         NEW es \in Seq(Edits),
         NEW o \in Outcomes(tree, tracked, shown, es), o # NothingNew
  PROVE  /\ DOMAIN o = PathsOf(es) /\ o = [p \in PathsOf(es) |-> o[p]]
         /\ DOMAIN o \subseteq Editable /\ \A p \in DOMAIN o : o[p] \in Texts
         /\ \A p \in PathsOf(es) :
              /\ o[p] # Refused
              /\ o[p] \in NewTexts(tree[p], p \in tracked, p \in shown, EditsOf(es, p))
  <1> DEFINE Alt(p) == NewTexts(tree[p], p \in tracked, p \in shown, EditsOf(es, p))
             P == PathsOf(es)
             ways == {f \in [P -> UNION {Alt(p) : p \in P}] : \A p \in P : f[p] \in Alt(p)}
             Was(p) == IF tree[p] = Absent THEN <<>> ELSE tree[p]
  <1>1. PICK f \in ways : o = IF \/ ~P \subseteq Editable
                                 \/ \E p \in P : f[p] = Refused \/ Len(f[p]) > MaxFileSize \/ Has(Was(p), Links)
                                 \/ \A p \in P : f[p] = Was(p)
                              THEN NothingNew ELSE f
    <2>1. Outcomes(tree, tracked, shown, es) =
            {IF \/ ~P \subseteq Editable
                \/ \E p \in P : f[p] = Refused \/ Len(f[p]) > MaxFileSize \/ Has(Was(p), Links)
                \/ \A p \in P : f[p] = Was(p)
             THEN NothingNew ELSE f : f \in ways}
      BY DEF Outcomes
    <2> HIDE DEF ways, Was, P
    <2> QED BY <2>1
  <1>2. o = f /\ P \subseteq Editable /\ \A p \in P : f[p] # Refused
    <2> HIDE DEF ways, Was, P
    <2> QED BY <1>1
  <1>3. DOMAIN f = P /\ f = [p \in P |-> f[p]] /\ \A p \in P : f[p] \in Alt(p)
    <2> HIDE DEF Alt, P
    <2> QED OBVIOUS
  <1>4. ASSUME NEW p \in P PROVE f[p] \in Texts
    <2>1. p \in Path
      BY <1>2, GatesAssumption
    <2>2. EditsOf(es, p) \in Seq(Edits)
      BY EditsOfIs
    <2>3. tree[p] \in Texts \cup {Absent}
      BY <2>1
    <2>4. f[p] \in NewTexts(tree[p], p \in tracked, p \in shown, EditsOf(es, p))
      BY <1>3
    <2> DEFINE old == tree[p]
               it == EditsOf(es, p)
               a == p \in tracked
               b == p \in shown
               r == f[p]
    <2>5. r \in NewTexts(old, a, b, it) /\ r # Refused
      BY <2>4, <1>2
    <2> HIDE DEF P, ways, old, it, a, b, r
    <2>6. old \in Texts \cup {Absent} /\ it \in Seq(Edits)
      BY <2>2, <2>3 DEF old, it
    <2>7. r \in Texts
      BY <2>5, <2>6, NewTextsAre
    <2> QED BY <2>7 DEF r
  <1>5. \A p \in P : f[p] \in NewTexts(tree[p], p \in tracked, p \in shown, EditsOf(es, p))
    BY <1>3
  <1> HIDE DEF ways, Alt
  <1> QED BY <1>2, <1>3, <1>4, <1>5

-----------------------------------------------------------------------------
(* The order edits are listed in. *)

\* Neither of two spans is empty, nor before nor behind the other.
Apart(s) ==
  \A i, j \in DOMAIN s :
    i # j /\ s[i] # Skipped /\ s[j] # Skipped => s[i].upto <= s[j].from \/ s[j].upto <= s[i].from

\* Spans overlap unless each is before or behind each other one.
LEMMA OverlapIs ==
  ASSUME NEW t \in Texts, NEW n \in Nat, NEW s, DOMAIN s = 1..n,
         \A i \in 1..n : s[i] = Skipped \/ Fits(t, s[i])
  PROVE  Overlap(s) <=> ~Apart(s)
  <1>1. ASSUME NEW i \in 1..n, s[i] # Skipped
        PROVE  s[i].from \in Int /\ s[i].upto \in Int /\ s[i].from < s[i].upto
    <2>1. Len(t) \in Nat
      BY DEF Texts
    <2>2. Fits(t, s[i])
      BY <1>1
    <2> QED BY <2>1, <2>2 DEF Fits
  <1>2. ASSUME Overlap(s) PROVE ~Apart(s)
    <2>1. PICK i \in 1..n, j \in 1..n :
            /\ i # j /\ s[i] # Skipped /\ s[j] # Skipped
            /\ \/ s[i].from < s[j].from
               \/ s[i].from = s[j].from /\ i < j
            /\ s[i].upto > s[j].from
      BY <1>2 DEF Overlap
    <2> DEFINE a == s[i].from
               b == s[i].upto
               c == s[j].from
               d == s[j].upto
    <2>2. /\ a \in Int /\ b \in Int /\ c \in Int /\ d \in Int /\ a < b /\ c < d
          /\ a < c \/ a = c
          /\ b > c
      BY <2>1, <1>1
    <2>3. ~(b <= c) /\ ~(d <= a)
      <3> HIDE DEF a, b, c, d
      <3> QED BY <2>2
    <2> QED BY <2>1, <2>3 DEF Apart
  <1>3. ASSUME ~Apart(s) PROVE Overlap(s)
    <2>1. PICK i \in 1..n, j \in 1..n :
            /\ i # j /\ s[i] # Skipped /\ s[j] # Skipped
            /\ ~(s[i].upto <= s[j].from) /\ ~(s[j].upto <= s[i].from)
      BY <1>3 DEF Apart
    <2> DEFINE a == s[i].from
               b == s[i].upto
               c == s[j].from
               d == s[j].upto
    <2>2. /\ a \in Int /\ b \in Int /\ c \in Int /\ d \in Int
          /\ ~(b <= c) /\ ~(d <= a)
      BY <2>1, <1>1
    <2>3. /\ b > c /\ d > a
          /\ a < c \/ (a = c /\ i < j) \/ c < a \/ (c = a /\ j < i)
      <3> HIDE DEF a, b, c, d
      <3> QED BY <2>1, <2>2
    <2>4. CASE a < c \/ (a = c /\ i < j)
      BY <2>1, <2>3, <2>4 DEF Overlap
    <2>5. CASE c < a \/ (c = a /\ j < i)
      BY <2>1, <2>3, <2>5 DEF Overlap
    <2> QED BY <2>3, <2>4, <2>5
  <1> QED BY <1>2, <1>3

\* The order they are listed in does not matter to that.
LEMMA ApartKept ==
  ASSUME NEW n \in Nat, NEW s, NEW r, DOMAIN s = 1..n, DOMAIN r = 1..n,
         Rearranged(n, s, r), Apart(s)
  PROVE  Apart(r)
  <1>1. PICK f, g : Swap(n, f, g) /\ \A k \in 1..n : r[k] = s[f[k]]
    BY DEF Rearranged
  <1> SUFFICES ASSUME NEW i \in 1..n, NEW j \in 1..n, i # j, r[i] # Skipped, r[j] # Skipped
               PROVE  r[i].upto <= r[j].from \/ r[j].upto <= r[i].from
    BY Zenon DEF Apart
  <1>2. f[i] \in 1..n /\ f[j] \in 1..n /\ f[i] # f[j]
    BY <1>1 DEF Swap
  <1>3. r[i] = s[f[i]] /\ r[j] = s[f[j]]
    BY <1>1
  <1>4. s[f[i]].upto <= s[f[j]].from \/ s[f[j]].upto <= s[f[i]].from
    BY <1>2, <1>3, Zenon DEF Apart
  <1> QED BY <1>3, <1>4, Zenon

\* Replacements that do not overlap are put in one order, whichever they come
\* in.
LEMMA ReplacedAgain ==
  ASSUME NEW t \in Texts, NEW n \in Nat, NEW s, NEW r, DOMAIN s = 1..n, DOMAIN r = 1..n,
         \A i \in 1..n : s[i] = Skipped \/ Fits(t, s[i]),
         Rearranged(n, s, r), Apart(s)
  PROVE  Replaced(t, r) = Replaced(t, s)
  <1> DEFINE x == LastFirst(s)
             y == LastFirst(r)
  <1>1. PICK f, g : Swap(n, f, g) /\ \A k \in 1..n : r[k] = s[f[k]]
    BY DEF Rearranged
  <1>2. Len(t) \in Nat
    BY DEF Texts
  <1>3. \A i \in 1..n : s[i].from \in Nat
    BY <1>2 DEF Fits, Skipped, Span
  <1>4. \A i \in 1..n : r[i].from \in Nat
    <2>1. \A i \in 1..n : f[i] \in 1..n
      BY <1>1 DEF Swap
    <2> QED BY <1>1, <1>3, <2>1, Zenon
  <1>5. /\ x = [k \in 1..n |-> x[k]] /\ Rearranged(n, s, x)
        /\ \A i, j \in 1..n : i < j => x[i].from >= x[j].from
        /\ \A i \in 1..n : \E j \in 1..n : x[i] = s[j]
    BY <1>3, LastFirstIs
  <1>6. /\ y = [k \in 1..n |-> y[k]] /\ Rearranged(n, r, y)
        /\ \A i, j \in 1..n : i < j => y[i].from >= y[j].from
    BY <1>4, LastFirstIs
  <1>7. Rearranged(n, x, y)
    <2> HIDE DEF x, y
    <2>1. Rearranged(n, x, s)
      BY <1>5, RearrangedBack
    <2>2. Rearranged(n, x, r)
      BY <2>1, RearrangedAgain
    <2> QED BY <1>6, <2>2, RearrangedAgain
  <1>8. \A a \in 1..n : x[a].from \in Int
    <2> HIDE DEF x
    <2>1. \A a \in 1..n : x[a].from \in Nat
      BY <1>3, <1>5, Zenon
    <2> QED BY <2>1
  <1>9. ASSUME NEW a \in 1..n, NEW b \in 1..n, s[a].from = s[b].from PROVE s[a] = s[b]
    <2> SUFFICES ASSUME s[a] # s[b] PROVE FALSE
      OBVIOUS
    <2>1. CASE s[a] # Skipped /\ s[b] # Skipped
      <3>1. Fits(t, s[a]) /\ Fits(t, s[b])
        BY <2>1
      <3>2. s[a].from < s[a].upto /\ s[b].from < s[b].upto
        BY <3>1 DEF Fits
      <3>3. /\ s[a].from \in Int /\ s[a].upto \in Int
            /\ s[b].from \in Int /\ s[b].upto \in Int
        BY <3>1, <1>2 DEF Fits
      <3>4. s[a].upto <= s[b].from \/ s[b].upto <= s[a].from
        BY <2>1 DEF Apart
      <3> QED BY <1>9, <3>2, <3>3, <3>4
    <2>2. CASE s[a] = Skipped
      <3>1. s[b] # Skipped /\ s[a].from = 0
        BY <2>2 DEF Skipped, Span
      <3>2. Fits(t, s[b])
        BY <3>1
      <3> QED BY <1>2, <1>9, <3>1, <3>2 DEF Fits
    <2>3. CASE s[b] = Skipped
      <3>1. s[a] # Skipped /\ s[b].from = 0
        BY <2>3 DEF Skipped, Span
      <3>2. Fits(t, s[a])
        BY <3>1
      <3> QED BY <1>2, <1>9, <3>1, <3>2 DEF Fits
    <2> QED BY <2>1, <2>2, <2>3
  <1>10. \A a, b \in 1..n : x[a].from = x[b].from => x[a] = x[b]
    <2> SUFFICES ASSUME NEW a \in 1..n, NEW b \in 1..n, x[a].from = x[b].from
                 PROVE  x[a] = x[b]
      BY Zenon
    <2> HIDE DEF x
    <2>1. PICK c \in 1..n : x[a] = s[c]
      BY <1>5
    <2>2. PICK d \in 1..n : x[b] = s[d]
      BY <1>5
    <2>3. s[c].from = s[d].from
      BY <2>1, <2>2
    <2>4. s[c] = s[d]
      BY <2>3, <1>9
    <2> QED BY <2>1, <2>2, <2>4
  <1>11. \A k \in 1..n : y[k] = x[k]
    <2> HIDE DEF x, y
    <2>1. Descending(n, x) /\ Descending(n, y)
      BY <1>5, <1>6, Zenon DEF Descending
    <2>2. Placed(n, x)
      BY <1>8, <1>10, Zenon DEF Placed
    <2> QED BY <1>7, <2>1, <2>2, SameOrder
  <1>12. x = y
    <2> HIDE DEF x, y
    <2>1. [k \in 1..n |-> x[k]] = [k \in 1..n |-> y[k]]
      BY <1>11
    <2> QED BY <1>5, <1>6, <2>1
  <1> QED BY <1>12 DEF Replaced

\* What the edits of a file come to is nothing that their order decides.
LEMMA NewTextsAgain ==
  ASSUME NEW old \in Texts \cup {Absent}, NEW tracked, NEW shown, NEW n \in Nat \ {0},
         NEW es \in Seq(Edits), Len(es) = n, NEW er \in Seq(Edits), Len(er) = n,
         Rearranged(n, es, er), NEW r \in NewTexts(old, tracked, shown, es)
  PROVE  r \in NewTexts(old, tracked, shown, er)
  <1>0. /\ DOMAIN es = 1..n /\ DOMAIN er = 1..n
        /\ \A i \in 1..n : es[i] \in Edits /\ er[i] \in Edits
    OBVIOUS
  <1>1. PICK f, g : Swap(n, f, g) /\ \A k \in 1..n : er[k] = es[f[k]]
    BY DEF Rearranged
  <1>2. f \in [1..n -> 1..n] /\ g \in [1..n -> 1..n]
    BY <1>1 DEF Swap
  <1>3. CASE n = 1
    <2>1. f[1] = 1
      BY <1>2, <1>3
    <2>2. er[1] = es[1]
      BY <1>1, <1>3, <2>1
    <2>3. es = [i \in 1..n |-> es[i]] /\ er = [i \in 1..n |-> er[i]]
      BY <1>0
    <2>4. [i \in 1..n |-> es[i]] = [i \in 1..n |-> er[i]]
      BY <1>3, <2>2
    <2>5. er = es
      BY <2>3, <2>4
    <2> QED BY <2>5
  <1>4. CASE n # 1
    <2> DEFINE Ways(e) == {h \in [DOMAIN e -> UNION {Resolved(old, e[i]) : i \in DOMAIN e}] :
                             \A i \in DOMAIN e : h[i] \in Resolved(old, e[i])}
               Comes(h) == IF NoSpan \in {h[i] : i \in DOMAIN h} \/ Overlap(h) THEN Refused
                           ELSE Replaced(old, h)
    <2>1. ASSUME NEW e \in Seq(Edits), Len(e) = n
          PROVE  NewTexts(old, tracked, shown, e) =
                   IF old = Absent THEN {Refused} ELSE {Comes(h) : h \in Ways(e)}
      <3>1. Len(e) # 1
        BY <1>4, <2>1
      <3> HIDE DEF Ways, Comes
      <3>2. NewTexts(old, tracked, shown, e) =
              IF old = Absent
                THEN {IF Len(e) = 1 /\ e[1].op = "create" /\ e[1].old = <<>> THEN e[1].new
                      ELSE Refused}
              ELSE IF ~tracked /\ Len(e) = 1 /\ e[1].op = "create" /\ e[1].old = <<>> THEN {e[1].new}
              ELSE IF Len(e) = 1 /\ e[1].op = "replace_file"
                THEN {IF e[1].old = <<>> /\ e[1].expects = old THEN e[1].new ELSE Refused}
              ELSE IF shown /\ Len(e) = 1 /\ e[1].op = "create" /\ e[1].old = <<>> THEN {e[1].new}
              ELSE {Comes(h) : h \in Ways(e)}
        BY DEF NewTexts, Comes, Ways
      <3> QED BY <3>1, <3>2
    <2>2. CASE old = Absent
      BY <2>1, <2>2
    <2>3. CASE old # Absent
      <3>1. PICK s \in Ways(es) : r = Comes(s)
        <4> HIDE DEF Ways, Comes
        <4> QED BY <2>1, <2>3
      <3>2. DOMAIN s = 1..n /\ \A i \in 1..n : s[i] \in Resolved(old, es[i])
        BY <1>0
      <3> DEFINE h == [k \in 1..n |-> s[f[k]]]
      <3>3. \A k \in 1..n : f[k] \in 1..n /\ h[k] = s[f[k]]
        BY <1>2
      <3>4. DOMAIN h = 1..n /\ \A k \in 1..n : h[k] \in Resolved(old, er[k])
        BY <1>1, <3>2, <3>3
      <3>5. Rearranged(n, s, h)
        <4> HIDE DEF h
        <4> QED BY <1>1, <3>3, Zenon DEF Rearranged
      <3>6. h \in Ways(er)
        <4>1. \A k \in 1..n : h[k] \in UNION {Resolved(old, er[i]) : i \in DOMAIN er}
          <5> HIDE DEF h
          <5> QED BY <1>0, <3>4
        <4> QED BY <1>0, <3>4, <4>1
      <3>7. Comes(h) = Comes(s)
        <4>1. {h[i] : i \in DOMAIN h} = {s[i] : i \in DOMAIN s}
          <5>1. \A k \in 1..n : g[k] \in 1..n /\ s[k] = h[g[k]]
            <6>1. \A k \in 1..n : g[k] \in 1..n /\ f[g[k]] = k
              BY <1>1 DEF Swap
            <6> QED BY <3>3, <6>1
          <5>2. DOMAIN s = 1..n /\ DOMAIN h = 1..n
            BY <3>2, <3>4
          <5> HIDE DEF h, Ways
          <5>3. {h[i] : i \in DOMAIN h} \subseteq {s[i] : i \in DOMAIN s}
            BY <3>3, <5>2
          <5>4. {s[i] : i \in DOMAIN s} \subseteq {h[i] : i \in DOMAIN h}
            BY <5>1, <5>2
          <5> QED BY <5>3, <5>4
        <4>2. CASE NoSpan \in {s[i] : i \in DOMAIN s}
          <5> HIDE DEF h
          <5> QED BY <4>1, <4>2
        <4>3. CASE ~(NoSpan \in {s[i] : i \in DOMAIN s})
          <5>1. old \in Texts
            BY <2>3
          <5>2. \A i \in 1..n : es[i].old \in Texts /\ es[i].new \in Texts
            BY <1>0, GatesAssumption
          <5>3. ASSUME NEW i \in 1..n PROVE s[i] = Skipped \/ Fits(old, s[i])
            <6>1. s[i] # NoSpan
              BY <3>2, <4>3
            <6>2. s[i] \in Resolved(old, es[i])
              BY <3>2
            <6> QED BY <5>1, <5>2, <6>1, <6>2, ResolvedFit
          <5>4. \A i \in 1..n : h[i] = Skipped \/ Fits(old, h[i])
            <6> HIDE DEF h
            <6> QED BY <3>3, <5>3, Zenon
          <5> HIDE DEF h
          <5>5. Overlap(s) <=> ~Apart(s)
            BY <5>1, <5>3, <3>2, OverlapIs
          <5>6. Overlap(h) <=> ~Apart(h)
            BY <5>1, <5>4, <3>4, OverlapIs
          <5>7. Apart(s) => Apart(h)
            BY <3>2, <3>4, <3>5, ApartKept
          <5>8. Apart(h) => Apart(s)
            <6>1. Rearranged(n, h, s)
              BY <3>5, RearrangedBack
            <6> QED BY <3>2, <3>4, <6>1, ApartKept
          <5>9. Apart(s) => Replaced(old, h) = Replaced(old, s)
            BY <5>1, <5>3, <3>2, <3>4, <3>5, ReplacedAgain
          <5> QED BY <4>1, <5>5, <5>6, <5>7, <5>8, <5>9
        <4> QED BY <4>2, <4>3
      <3> HIDE DEF h, Ways, Comes
      <3> QED BY <2>1, <2>3, <3>1, <3>6, <3>7
    <2> QED BY <2>2, <2>3
  <1> QED BY <1>3, <1>4

\* As many places from the front as from the back.
LEMMA NoFewer ==
  ASSUME NEW n \in Nat, NEW S \in SUBSET (1..n), NEW T \in SUBSET (1..n),
         \A i \in S : n + 1 - i \in T
  PROVE  Cardinality(S) <= Cardinality(T)
  <1>1. IsFiniteSet(S) /\ IsFiniteSet(T)
    <2>1. IsFiniteSet(1..n)
      BY FS_Interval
    <2> QED BY <2>1, FS_Subset
  <1>2. Cardinality(S) \in Nat /\ Cardinality(T) \in Nat
    BY <1>1, FS_CardinalityType
  <1> SUFFICES ASSUME Cardinality(T) < Cardinality(S) PROVE FALSE
    BY <1>2
  <1> DEFINE h == [i \in S |-> n + 1 - i]
  <1>3. h \in [S -> T]
    OBVIOUS
  <1>4. PICK x, y \in S : x # y /\ h[x] = h[y]
    <2> HIDE DEF h
    <2> QED BY <1>1, <1>3, FS_PigeonHole
  <1>5. n + 1 - x = n + 1 - y /\ x \in Int /\ y \in Int
    BY <1>4
  <1> QED BY <1>4, <1>5

\* The edits of a file, by their places in the proposal.
PlacesOf(es, p) == {i \in DOMAIN es : es[i].path = p}

\* The edits of a file are those at its places, each once and in that order.
LEMMA EditsAt ==
  ASSUME NEW E, NEW es \in Seq(E), NEW p
  PROVE  LET S == PlacesOf(es, p) IN
         /\ Cardinality(S) \in Nat
         /\ InOrder(S) \in [1..Cardinality(S) -> S] /\ Range(InOrder(S)) = S
         /\ \A a, b \in 1..Cardinality(S) : a < b => InOrder(S)[a] < InOrder(S)[b]
         /\ EditsOf(es, p) = [k \in 1..Cardinality(S) |-> es[InOrder(S)[k]]]
  <1> DEFINE S == PlacesOf(es, p)
  <1>1. Len(es) \in Nat /\ S \in SUBSET (1..Len(es))
    BY DEF PlacesOf
  <1>8. EditsOf(es, p) = [k \in DOMAIN InOrder(S) |-> es[InOrder(S)[k]]]
    BY DEF EditsOf, PlacesOf
  <1> HIDE DEF S
  <1>2. IsFiniteSet(S)
    <2>1. IsFiniteSet(1..Len(es))
      BY <1>1, FS_Interval
    <2> QED BY <1>1, <2>1, FS_Subset
  <1>3. Cardinality(S) \in Nat
    BY <1>2, FS_CardinalityType
  <1>4. InOrder(S) \in Seq(S) /\ Len(InOrder(S)) = Cardinality(S) /\ Range(InOrder(S)) = S
    BY <1>1, InOrderIs
  <1>5. \A a, b \in 1..Cardinality(S) : a < b => InOrder(S)[a] < InOrder(S)[b]
    <2>1. \A a, b \in 1..Len(InOrder(S)) : a < b => InOrder(S)[a] < InOrder(S)[b]
      BY <1>1, InOrderIs
    <2> QED BY <1>4, <2>1
  <1>6. InOrder(S) \in [1..Cardinality(S) -> S] /\ DOMAIN InOrder(S) = 1..Cardinality(S)
    <2> DEFINE at == InOrder(S)
    <2>1. at \in Seq(S) /\ Len(at) = Cardinality(S)
      BY <1>4
    <2> HIDE DEF at
    <2>2. at \in [1..Len(at) -> S] /\ DOMAIN at = 1..Len(at)
      BY <2>1, LenProperties
    <2>3. at \in [1..Cardinality(S) -> S] /\ DOMAIN at = 1..Cardinality(S)
      BY <2>1, <2>2
    <2> QED BY <2>3 DEF at
  <1>7. EditsOf(es, p) = [k \in 1..Cardinality(S) |-> es[InOrder(S)[k]]]
    BY <1>6, <1>8
  <1> QED BY <1>3, <1>4, <1>5, <1>6, <1>7 DEF S

\* Listed from the back, a file has the same edits.
LEMMA EditsReversed ==
  ASSUME NEW E, NEW es \in Seq(E), NEW p \in PathsOf(es)
  PROVE  /\ EditsOf(es, p) \in Seq(E) /\ EditsOf(Reverse(es), p) \in Seq(E)
         /\ Len(EditsOf(es, p)) \in Nat \ {0}
         /\ Len(EditsOf(Reverse(es), p)) = Len(EditsOf(es, p))
         /\ Rearranged(Len(EditsOf(es, p)), EditsOf(es, p), EditsOf(Reverse(es), p))
  <1> DEFINE n == Len(es)
             er == Reverse(es)
             S == PlacesOf(es, p)
             T == PlacesOf(er, p)
             m == Cardinality(S)
             at == InOrder(S)
             ar == InOrder(T)
  <1>1. n \in Nat /\ DOMAIN es = 1..n
    OBVIOUS
  <1>2. er = [i \in 1..n |-> es[(n - i) + 1]]
    BY DEF Reverse
  <1>3. \A i \in 1..n : (n - i) + 1 \in 1..n /\ er[i] = es[(n - i) + 1]
    BY <1>1, <1>2
  <1>4. er \in Seq(E) /\ Len(er) = n /\ DOMAIN er = 1..n
    <2>1. \A i \in 1..n : er[i] \in E
      BY <1>1, <1>3
    <2> QED BY <1>1, <1>2, <2>1
  <1> HIDE DEF er, n
  <1>5. \A i \in 1..n : (i \in T <=> (n - i) + 1 \in S) /\ (i \in S <=> (n - i) + 1 \in T)
    <2>1. \A i \in 1..n : (n - ((n - i) + 1)) + 1 = i
      BY <1>1
    <2>2. \A i \in 1..n : er[(n - i) + 1] = es[i]
      BY <1>3, <2>1
    <2> QED BY <1>1, <1>3, <1>4, <2>2 DEF PlacesOf
  <1>6. S \in SUBSET (1..n) /\ T \in SUBSET (1..n)
    BY <1>1, <1>4 DEF PlacesOf
  <1>7. Cardinality(T) = m
    <2> HIDE DEF S, T
    <2>1. \A i \in 1..n : (n - i) + 1 = n + 1 - i
      BY <1>1
    <2>2. \A i \in S : n + 1 - i \in T
      BY <1>5, <1>6, <2>1
    <2>3. \A i \in T : n + 1 - i \in S
      BY <1>5, <1>6, <2>1
    <2>4. Cardinality(S) <= Cardinality(T) /\ Cardinality(T) <= Cardinality(S)
      BY <1>1, <1>6, <2>2, <2>3, NoFewer
    <2>5. Cardinality(S) \in Nat /\ Cardinality(T) \in Nat
      <3>1. IsFiniteSet(1..n)
        BY <1>1, FS_Interval
      <3> QED BY <1>6, <3>1, FS_Subset, FS_CardinalityType
    <2> QED BY <2>4, <2>5
  <1>8. /\ m \in Nat /\ at \in [1..m -> S] /\ Range(at) = S
        /\ \A a, b \in 1..m : a < b => at[a] < at[b]
        /\ EditsOf(es, p) = [k \in 1..m |-> es[at[k]]]
    BY EditsAt
  <1>9. /\ ar \in [1..m -> T] /\ Range(ar) = T
        /\ \A a, b \in 1..m : a < b => ar[a] < ar[b]
        /\ EditsOf(er, p) = [k \in 1..m |-> er[ar[k]]]
    <2>2. /\ ar \in [1..Cardinality(T) -> T] /\ Range(ar) = T
          /\ \A a, b \in 1..Cardinality(T) : a < b => ar[a] < ar[b]
          /\ EditsOf(er, p) = [k \in 1..Cardinality(T) |-> er[ar[k]]]
      BY <1>4, EditsAt
    <2> HIDE DEF T, m
    <2> QED BY <1>7, <2>2
  <1>10. m # 0
    <2>1. PICK i \in DOMAIN es : p = es[i].path
      BY DEF PathsOf
    <2>2. S # {}
      BY <2>1 DEF PlacesOf
    <2> HIDE DEF S
    <2>3. IsFiniteSet(S)
      <3>1. IsFiniteSet(1..n)
        BY <1>1, FS_Interval
      <3> QED BY <1>6, <3>1, FS_Subset
    <2> QED BY <2>2, <2>3, FS_EmptySet
  <1> HIDE DEF m, at, ar
  <1>11. \A i \in S : \E k \in 1..m : at[k] = i
    <2>1. S = {at[k] : k \in 1..m}
      BY <1>8 DEF Range
    <2> HIDE DEF S
    <2> QED BY <2>1
  <1> DEFINE f == [k \in 1..m |-> CHOOSE j \in 1..m : at[j] = (n - ar[k]) + 1]
  <1>12. ASSUME NEW k \in 1..m PROVE f[k] \in 1..m /\ at[f[k]] = (n - ar[k]) + 1
    <2>1. ar[k] \in T
      BY <1>9
    <2>2. (n - ar[k]) + 1 \in S
      <3> HIDE DEF S, T
      <3> QED BY <2>1, <1>5, <1>6
    <2> HIDE DEF S, T
    <2>3. \E j \in 1..m : at[j] = (n - ar[k]) + 1
      BY <2>2, <1>11
    <2> QED BY <2>3
  <1>13. f \in [1..m -> 1..m]
    BY <1>12
  <1>14. ASSUME NEW a \in 1..m, NEW b \in 1..m, a < b PROVE f[a] # f[b]
    <2>1. ar[a] < ar[b] /\ ar[a] \in 1..n /\ ar[b] \in 1..n
      <3> HIDE DEF T
      <3> QED BY <1>6, <1>9, <1>14
    <2>2. at[f[a]] = (n - ar[a]) + 1 /\ at[f[b]] = (n - ar[b]) + 1
      BY <1>12
    <2> HIDE DEF f
    <2> QED BY <1>1, <2>1, <2>2
  <1>15. Range(f) = 1..m
    <2>1. ASSUME NEW j \in 1..m PROVE \E k \in 1..m : f[k] = j
      <3>1. at[j] \in S
        BY <1>8
      <3>2. (n - at[j]) + 1 \in T /\ at[j] \in 1..n
        <4> HIDE DEF S, T
        <4> QED BY <3>1, <1>5, <1>6
      <3>3. PICK k \in 1..m : ar[k] = (n - at[j]) + 1
        <4>1. T = {ar[k] : k \in 1..m}
          BY <1>9 DEF Range
        <4> HIDE DEF T
        <4> QED BY <3>2, <4>1
      <3>4. f[k] \in 1..m /\ at[f[k]] = (n - ar[k]) + 1
        BY <1>12
      <3>5. at[f[k]] = at[j]
        <4> HIDE DEF f
        <4> QED BY <1>1, <3>2, <3>3, <3>4
      <3>6. ~(f[k] < j) /\ ~(j < f[k])
        <4>1. /\ f[k] < j => at[f[k]] < at[j]
              /\ j < f[k] => at[j] < at[f[k]]
          <5> HIDE DEF f
          <5> QED BY <1>8, <3>4
        <4> HIDE DEF f
        <4> QED BY <3>2, <3>5, <4>1
      <3> HIDE DEF f
      <3>7. f[k] = j
        BY <3>4, <3>6
      <3> QED BY <3>7
    <2>2. DOMAIN f = 1..m
      OBVIOUS
    <2> HIDE DEF f
    <2> QED BY <1>13, <2>1, <2>2 DEF Range
  <1>16. \E g : Swap(m, f, g)
    <2> HIDE DEF f
    <2> QED BY <1>8, <1>13, <1>14, <1>15, Swaps
  <1> DEFINE x == EditsOf(es, p)
             y == EditsOf(er, p)
  <1>17. ASSUME NEW k \in 1..m PROVE y[k] = x[f[k]]
    <2>1. y[k] = er[ar[k]] /\ ar[k] \in 1..n
      <3> HIDE DEF T
      <3> QED BY <1>6, <1>9
    <2>2. x[f[k]] = es[at[f[k]]]
      <3>1. f[k] \in 1..m
        BY <1>12
      <3> HIDE DEF f
      <3> QED BY <1>8, <3>1
    <2>3. er[ar[k]] = es[(n - ar[k]) + 1]
      BY <2>1, <1>3
    <2> HIDE DEF x, y, f
    <2> QED BY <2>1, <2>2, <2>3, <1>12
  <1>18. Rearranged(m, x, y)
    <2> HIDE DEF x, y, f
    <2> QED BY <1>16, <1>17, Zenon DEF Rearranged
  <1>19. Len(x) = m /\ Len(y) = m
    BY <1>8, <1>9
  <1>20. x \in Seq(E) /\ y \in Seq(E)
    BY <1>4, EditsOfIs
  <1> HIDE DEF x, y
  <1> QED BY <1>8, <1>10, <1>18, <1>19, <1>20 DEF x, y, er

\* Listed from the back, a proposal names the same files.
LEMMA PathsReversed ==
  ASSUME NEW E, NEW es \in Seq(E)
  PROVE  Reverse(es) \in Seq(E) /\ PathsOf(Reverse(es)) = PathsOf(es)
  <1> DEFINE n == Len(es)
             er == Reverse(es)
  <1>1. n \in Nat /\ DOMAIN es = 1..n
    OBVIOUS
  <1>2. er = [i \in 1..n |-> es[(n - i) + 1]]
    BY DEF Reverse
  <1>3. \A i \in 1..n : /\ (n - i) + 1 \in 1..n /\ er[i] = es[(n - i) + 1]
                        /\ er[(n - i) + 1] = es[i]
    <2>1. \A i \in 1..n : (n - i) + 1 \in 1..n /\ (n - ((n - i) + 1)) + 1 = i
      BY <1>1
    <2>2. \A i \in 1..n : er[i] = es[(n - i) + 1]
      BY <1>2
    <2> HIDE DEF er, n
    <2>3. \A i \in 1..n : er[(n - i) + 1] = es[(n - ((n - i) + 1)) + 1]
      BY <2>1, <2>2
    <2> QED BY <2>1, <2>2, <2>3
  <1>4. DOMAIN er = 1..n
    BY <1>2
  <1>5. er \in Seq(E)
    <2>1. \A i \in 1..n : es[(n - i) + 1] \in E
      BY <1>1, <1>3
    <2> QED BY <1>1, <1>2, <2>1
  <1>6. PathsOf(er) \subseteq PathsOf(es)
    <2> SUFFICES ASSUME NEW i \in DOMAIN er PROVE er[i].path \in PathsOf(es)
      BY DEF PathsOf
    <2>1. i \in 1..n
      BY <1>4
    <2> HIDE DEF er, n
    <2>2. (n - i) + 1 \in DOMAIN es /\ er[i].path = es[(n - i) + 1].path
      BY <1>1, <1>3, <2>1
    <2> QED BY <2>2, Zenon DEF PathsOf
  <1>7. PathsOf(es) \subseteq PathsOf(er)
    <2> SUFFICES ASSUME NEW i \in DOMAIN es PROVE es[i].path \in PathsOf(er)
      BY DEF PathsOf
    <2>1. i \in 1..n
      BY <1>1
    <2> HIDE DEF er, n
    <2>2. (n - i) + 1 \in DOMAIN er /\ es[i].path = er[(n - i) + 1].path
      BY <1>4, <1>3, <2>1
    <2> QED BY <2>2, Zenon DEF PathsOf
  <1> QED BY <1>5, <1>6, <1>7

\* What a proposal may come to it may come to listed from the back.
LEMMA OutcomesReversed ==
  ASSUME NEW tree \in [Path -> Texts \cup {Absent}], NEW tracked, NEW shown,
         NEW es \in Seq(Edits),
         NEW o \in Outcomes(tree, tracked, shown, es), o # NothingNew
  PROVE  o \in Outcomes(tree, tracked, shown, Reverse(es))
  <1> DEFINE Alt(e, p) == NewTexts(tree[p], p \in tracked, p \in shown, EditsOf(e, p))
             Ways(e, P) == {f \in [P -> UNION {Alt(e, p) : p \in P}] : \A p \in P : f[p] \in Alt(e, p)}
             Was(p) == IF tree[p] = Absent THEN <<>> ELSE tree[p]
             Nothing(f, P) == \/ ~P \subseteq Editable
                              \/ \E p \in P : f[p] = Refused \/ Len(f[p]) > MaxFileSize \/ Has(Was(p), Links)
                              \/ \A p \in P : f[p] = Was(p)
             P == PathsOf(es)
             er == Reverse(es)
  <1>1. ASSUME NEW e
        PROVE  Outcomes(tree, tracked, shown, e) =
                 {IF Nothing(f, PathsOf(e)) THEN NothingNew ELSE f : f \in Ways(e, PathsOf(e))}
    BY DEF Outcomes
  <1>2. PathsOf(er) = P
    BY PathsReversed
  <1>3. PICK f \in Ways(es, P) : o = IF Nothing(f, P) THEN NothingNew ELSE f
    <2> HIDE DEF Ways, Nothing, P
    <2>1. Outcomes(tree, tracked, shown, es) =
            {IF Nothing(f, P) THEN NothingNew ELSE f : f \in Ways(es, P)}
      BY <1>1 DEF P
    <2> QED BY <2>1
  <1>4. o = f /\ ~Nothing(f, P)
    <2> HIDE DEF Ways, Nothing, P
    <2> QED BY <1>3
  <1>5. DOMAIN f = P /\ f = [p \in P |-> f[p]] /\ \A p \in P : f[p] \in Alt(es, p)
    <2> HIDE DEF Alt, P
    <2> QED OBVIOUS
  <1>6. P \subseteq Path
    <2>1. P \subseteq Editable
      <3> HIDE DEF P
      <3> QED BY <1>4
    <2> QED BY <2>1, GatesAssumption
  <1>7. ASSUME NEW p \in P PROVE f[p] \in Alt(er, p)
    <2> DEFINE old == tree[p]
               a == p \in tracked
               b == p \in shown
               x == EditsOf(es, p)
               y == EditsOf(er, p)
               r == f[p]
               n == Len(x)
    <2>1. old \in Texts \cup {Absent}
      BY <1>6
    <2>2. r \in NewTexts(old, a, b, x)
      BY <1>5
    <2>3. /\ x \in Seq(Edits) /\ y \in Seq(Edits) /\ n \in Nat \ {0} /\ Len(y) = n
          /\ Rearranged(n, x, y)
      BY EditsReversed
    <2> HIDE DEF old, a, b, x, y, r, n, Ways, P
    <2>4. n = Len(x)
      BY DEF n
    <2>5. r \in NewTexts(old, a, b, y)
      BY <2>1, <2>2, <2>3, <2>4, NewTextsAgain
    <2> QED BY <2>5 DEF old, a, b, y, r
  <1>8. f \in Ways(er, P)
    <2>1. f \in [P -> UNION {Alt(er, p) : p \in P}]
      <3> HIDE DEF Alt, P, Ways, er
      <3> QED BY <1>5, <1>7
    <2> HIDE DEF Alt, P, er
    <2> QED BY <1>7, <2>1
  <1>9. Outcomes(tree, tracked, shown, er) =
          {IF Nothing(h, P) THEN NothingNew ELSE h : h \in Ways(er, P)}
    <2> HIDE DEF Ways, Nothing, P, er
    <2>1. Outcomes(tree, tracked, shown, er) =
            {IF Nothing(h, PathsOf(er)) THEN NothingNew ELSE h : h \in Ways(er, PathsOf(er))}
      BY <1>1
    <2> QED BY <1>2, <2>1
  <1> HIDE DEF Ways, Nothing, P, er
  <1>10. o \in Outcomes(tree, tracked, shown, er)
    BY <1>4, <1>8, <1>9
  <1> QED BY <1>10 DEF er

-----------------------------------------------------------------------------
(* Where replacements leave what they put in. *)

\* The lines x are in the text t, from the place q on.
Lies(t, q, x) ==
  q + Len(x) <= Len(t) + 1 /\ \A i \in 1..Len(x) : t[q + i - 1] = x[i]

\* A part of a text lies in it.
LEMMA PartLies ==
  ASSUME NEW t \in Texts, NEW m \in Nat \ {0}, NEW n \in 0..Len(t), m <= n
  PROVE  Lies(t, m, SubSeq(t, m, n))
  <1>1. Len(t) \in Nat /\ \A i \in m..n : t[i] \in Line
    BY DEF Texts
  <1>2. m \in Int /\ n \in Int
    BY <1>1
  <1> DEFINE x == SubSeq(t, m, n)
  <1>3. Len(x) = n - m + 1 /\ \A i \in 1..(n - m + 1) : x[i] = t[m + i - 1]
    BY <1>1, <1>2, SubSeqProperties
  <1> HIDE DEF x
  <1>4. Lies(t, m, x)
    BY <1>1, <1>3 DEF Lies
  <1> QED BY <1>4 DEF x

\* What lies in what lies in a text lies in it.
LEMMA LiesWithin ==
  ASSUME NEW t \in Texts, NEW x \in Texts, NEW y \in Texts,
         NEW q \in Nat \ {0}, NEW m \in Nat \ {0}, Lies(t, q, x), Lies(x, m, y)
  PROVE  q + m - 1 \in Nat \ {0} /\ Lies(t, q + m - 1, y)
  <1>1. Len(t) \in Nat /\ Len(x) \in Nat /\ Len(y) \in Nat
    BY DEF Texts
  <1>2. (q + m - 1) + Len(y) <= Len(t) + 1
    BY <1>1 DEF Lies
  <1>3. ASSUME NEW i \in 1..Len(y) PROVE t[(q + m - 1) + i - 1] = y[i]
    <2>1. m + i - 1 \in 1..Len(x) /\ q + (m + i - 1) - 1 = (q + m - 1) + i - 1
      BY <1>1 DEF Lies
    <2>2. x[m + i - 1] = y[i]
      BY DEF Lies
    <2> DEFINE j == m + i - 1
    <2>3. t[q + j - 1] = x[j]
      BY <2>1 DEF Lies
    <2> QED BY <2>1, <2>2, <2>3
  <1> QED BY <1>1, <1>2, <1>3 DEF Lies

\* What lies in a text is found there.
LEMMA LiesHits ==
  ASSUME NEW t \in Texts, NEW x \in Texts, x # <<>>, NEW q \in Nat \ {0}, Lies(t, q, x)
  PROVE  Hits(t, x) # {}
  <1>1. Len(t) \in Nat /\ Len(x) \in Nat /\ Len(x) # 0
    BY DEF Texts
  <1>2. q \in 1..(Len(t) - Len(x) + 1) /\ q \in 1..Len(t)
    BY <1>1 DEF Lies
  <1> DEFINE e == q + Len(x) - 1
             y == SubSeq(t, q, e)
  <1>3. e \in 0..Len(t) /\ q <= e /\ e - q + 1 = Len(x)
    BY <1>1, <1>2
  <1> HIDE DEF e
  <1>4. \A i \in q..e : t[i] \in Line
    BY <1>1, <1>3 DEF Texts
  <1>5. /\ y \in Seq(Line) /\ Len(y) = e - q + 1
        /\ \A i \in 1..(e - q + 1) : y[i] = t[q + i - 1]
    <2>1. q \in Int /\ e \in Int
      BY <1>1, <1>3
    <2> QED BY <1>3, <1>4, <2>1, SubSeqProperties
  <1> HIDE DEF y
  <1>6. \A i \in 1..Len(y) : y[i] = x[i]
    BY <1>3, <1>5 DEF Lies
  <1>7. y = x
    BY <1>3, <1>5, <1>6, SeqEqual DEF Texts
  <1>8. q \in Starts(t, x)
    BY <1>2, <1>7 DEF Starts, Slice, y, e
  <1> QED BY <1>1, <1>2, <1>8, HitsAreStarts

\* u is t with the lines new put where those from one place up to another were.
Spliced(t, u, from, upto, new) ==
  /\ u \in Texts /\ Len(u) = (from - 1) + Len(new) + (Len(t) - upto + 1)
  /\ Lies(u, from, new)
  /\ \A i \in upto..Len(t) : u[i - upto + from + Len(new)] = t[i]

\* One replacement, place by place.
LEMMA ReplaceLies ==
  ASSUME NEW t \in Texts, NEW s, s # Skipped, NEW from, NEW upto, NEW new \in Texts,
         s.from = from, s.upto = upto, s.new = new,
         from \in 1..(Len(t) + 1), upto \in 1..(Len(t) + 1)
  PROVE  Spliced(t, Replace(t, s), from, upto, new)
  <1> DEFINE head == SubSeq(t, 1, from - 1)
             right == SubSeq(t, upto, Len(t))
             u == Replace(t, s)
             l == Len(head)
             n == Len(new)
             r == Len(right)
  <1>1. Len(t) \in Nat /\ n \in Nat /\ \A i \in 1..Len(t) : t[i] \in Line
    BY DEF Texts
  <1>2. from \in Nat \ {0} /\ upto \in Nat \ {0} /\ from - 1 <= Len(t)
    BY <1>1
  <1>3. head \in Seq(Line) /\ l = from - 1
    <2> DEFINE f == from - 1
    <2>1. f \in Int /\ 1 \in Int /\ \A i \in 1..f : t[i] \in Line
      BY <1>1, <1>2
    <2>2. f \in Nat
      BY <1>1, <1>2
    <2> HIDE DEF f
    <2>3. SubSeq(t, 1, f) \in Seq(Line) /\ Len(SubSeq(t, 1, f)) = IF 1 <= f THEN f - 1 + 1 ELSE 0
      BY <2>1, SubSeqProperties
    <2>4. Len(SubSeq(t, 1, f)) = f
      BY <2>2, <2>3
    <2> QED BY <2>3, <2>4 DEF f
  <1>4. right \in Seq(Line) /\ r = Len(t) - upto + 1
        /\ \A i \in 1..(Len(t) - upto + 1) : right[i] = t[upto + i - 1]
    <2>1. upto \in Int /\ Len(t) \in Int /\ \A i \in upto..Len(t) : t[i] \in Line
      BY <1>1, <1>2
    <2>2. /\ right \in Seq(Line) /\ r = IF upto <= Len(t) THEN Len(t) - upto + 1 ELSE 0
          /\ \A i \in 1..(Len(t) - upto + 1) : right[i] = t[upto + i - 1]
      BY <2>1, SubSeqProperties
    <2>3. upto <= Len(t) + 1
      BY <1>1
    <2> HIDE DEF right, r
    <2>4. r = Len(t) - upto + 1
      BY <1>1, <1>2, <2>2, <2>3
    <2> QED BY <2>2, <2>4
  <1> DEFINE v == head \o new
  <1>5. u = v \o right
    BY DEF Replace
  <1>6. v \in Seq(Line) /\ Len(v) = l + n
        /\ \A i \in 1..(l + n) : v[i] = IF i <= l THEN head[i] ELSE new[i - l]
    <2>1. new \in Seq(Line)
      BY DEF Texts
    <2> HIDE DEF head
    <2> QED BY <1>3, <2>1, ConcatProperties DEF l
  <1> HIDE DEF head, v
  <1>7. u \in Seq(Line) /\ Len(u) = Len(v) + r
        /\ \A i \in 1..(Len(v) + r) : u[i] = IF i <= Len(v) THEN v[i] ELSE right[i - Len(v)]
    <2>1. right \in Seq(Line)
      BY <1>4
    <2>2. v \in Seq(Line)
      BY <1>6
    <2> HIDE DEF right, u
    <2>3. /\ v \o right \in Seq(Line) /\ Len(v \o right) = Len(v) + Len(right)
          /\ \A i \in 1..(Len(v) + Len(right)) :
               (v \o right)[i] = IF i <= Len(v) THEN v[i] ELSE right[i - Len(v)]
      BY <2>1, <2>2, ConcatProperties
    <2> QED BY <1>5, <2>3, Zenon
  <1> HIDE DEF u, right, l, n, r
  <1>8. u \in Texts /\ Len(u) = (from - 1) + n + (Len(t) - upto + 1)
    BY <1>3, <1>4, <1>6, <1>7 DEF Texts
  <1>9. ASSUME NEW i \in 1..n PROVE u[from + i - 1] = new[i]
    <2> DEFINE k == from + i - 1
    <2>1. k \in 1..(l + n) /\ ~(k <= l) /\ k - l = i /\ r \in Nat
      BY <1>1, <1>2, <1>3, <1>4
    <2> HIDE DEF k
    <2>2. v[k] = new[i]
      BY <1>6, <2>1
    <2>3. k \in 1..(Len(v) + r) /\ k <= Len(v)
      BY <1>6, <2>1, <1>1, <1>2, <1>3
    <2>4. u[k] = v[k]
      BY <1>7, <2>3
    <2> QED BY <2>2, <2>4 DEF k
  <1>10. ASSUME NEW i \in upto..Len(t) PROVE u[i - upto + from + n] = t[i]
    <2> DEFINE k == i - upto + from + n
               j == i - upto + 1
    <2>1. /\ k \in 1..(l + n + r) /\ ~(k <= l + n) /\ k - (l + n) = j
          /\ j \in 1..(Len(t) - upto + 1) /\ upto + j - 1 = i
      BY <1>1, <1>2, <1>3, <1>4
    <2> HIDE DEF k, j
    <2>2. right[j] = t[i]
      BY <1>4, <2>1
    <2>3. u[k] = right[j]
      BY <1>6, <1>7, <2>1
    <2> QED BY <2>2, <2>3 DEF k
  <1>11. Lies(u, from, new)
    <2>1. from + n <= Len(u) + 1
      BY <1>1, <1>2, <1>8
    <2> QED BY <1>9, <2>1 DEF Lies, n
  <1> QED BY <1>8, <1>10, <1>11 DEF Spliced, u, n

\* What lies behind a replacement lies behind it afterwards, and nowhere before
\* where it began.
LEMMA ReplaceKeeps ==
  ASSUME NEW t \in Texts, NEW s, s # Skipped, NEW from, NEW upto, NEW new \in Texts,
         s.from = from, s.upto = upto, s.new = new,
         from \in 1..(Len(t) + 1), upto \in 1..(Len(t) + 1),
         NEW x \in Texts, NEW q \in Nat \ {0}, upto <= q, Lies(t, q, x)
  PROVE  \E k \in Nat \ {0} : from <= k /\ Lies(Replace(t, s), k, x)
  <1> DEFINE u == Replace(t, s)
             n == Len(new)
             k == q - upto + from + n
  <1>1. Len(t) \in Nat /\ n \in Nat /\ Len(x) \in Nat
    BY DEF Texts
  <1>2. /\ Len(u) = (from - 1) + n + (Len(t) - upto + 1)
        /\ \A i \in upto..Len(t) : u[i - upto + from + n] = t[i]
    <2>1. Spliced(t, u, from, upto, new)
      BY ReplaceLies
    <2> QED BY <2>1 DEF Spliced
  <1> HIDE DEF u, n
  <1>3. k \in Nat \ {0} /\ from <= k
    BY <1>1
  <1>4. k + Len(x) <= Len(u) + 1
    BY <1>1, <1>2 DEF Lies
  <1>5. ASSUME NEW i \in 1..Len(x) PROVE u[k + i - 1] = x[i]
    <2> DEFINE j == q + i - 1
    <2>1. j \in upto..Len(t) /\ k + i - 1 = j - upto + from + n
      BY <1>1 DEF Lies
    <2>2. t[j] = x[i]
      BY DEF Lies
    <2> HIDE DEF j, k
    <2>3. u[j - upto + from + n] = t[j]
      BY <1>2, <2>1
    <2> QED BY <2>1, <2>2, <2>3
  <1>6. Lies(u, k, x)
    BY <1>4, <1>5 DEF Lies
  <1> HIDE DEF k
  <1> QED BY <1>3, <1>6 DEF u

\* A list of replacements, each behind all that come after it.
Downward(n, order) ==
  \A i, j \in 1..n :
    i < j /\ order[i] # Skipped /\ order[j] # Skipped => order[j].upto <= order[i].from

\* Spans of a text, or edits taken for made.
Fitting(t, n, order) == \A i \in 1..n : order[i] = Skipped \/ Fits(t, order[i])

\* What the replacements up to the mth have put in lies in the text, behind
\* where the others are to be made.
Behind(n, order, m, q) ==
  \A j \in (m + 1)..n : order[j] # Skipped => order[j].upto <= q
Laid(n, order, u, m) ==
  /\ u[m] \in Texts
  /\ Behind(n, order, m, Len(u[m]) + 1)
  /\ \A i \in 1..m : order[i] # Skipped =>
       \E q \in Nat \ {0} : Behind(n, order, m, q) /\ Lies(u[m], q, order[i].new)

\* One more replacement moves what lies behind it and touches nothing of it.
LEMMA LaidStep ==
  ASSUME NEW t \in Texts, NEW n \in Nat, NEW order, NEW u,
         Fitting(t, n, order), Downward(n, order), Turns(t, n, order, u),
         NEW m \in Nat, m + 1 <= n, Laid(n, order, u, m)
  PROVE  Laid(n, order, u, m + 1)
  <1> DEFINE s == order[m + 1]
             w == u[m]
             k == m + 1
  <1>1. k \in 1..n /\ k - 1 = m /\ \A j \in (k + 1)..n : j \in (m + 1)..n /\ j \in 1..n /\ k < j
    OBVIOUS
  <1>2. u[k] = Replace(w, s)
    BY <1>1 DEF Turns
  <1>3. w \in Texts /\ Len(w) \in Nat
    BY DEF Laid, Texts
  <1>4. \A q : Behind(n, order, m, q) => Behind(n, order, k, q)
    BY <1>1 DEF Behind
  <1>5. CASE s = Skipped
    <2>1. u[k] = w
      BY <1>2, <1>5 DEF Replace
    <2>2. \A i \in 1..k : order[i] # Skipped => i \in 1..m
      BY <1>5
    <2>3. \A i \in 1..k : order[i] # Skipped =>
            \E q \in Nat \ {0} : Behind(n, order, k, q) /\ Lies(w, q, order[i].new)
      BY <1>4, <2>2 DEF Laid
    <2>4. Behind(n, order, k, Len(w) + 1)
      BY <1>4 DEF Laid
    <2> QED BY <1>3, <2>1, <2>3, <2>4 DEF Laid
  <1>6. CASE s # Skipped
    <2> DEFINE from == s.from
               upto == s.upto
               new == s.new
    <2>1. Fits(t, s)
      BY <1>1, <1>6 DEF Fitting
    <2>2. /\ from \in Nat \ {0} /\ upto \in Nat \ {0} /\ from < upto /\ new \in Texts
          /\ Len(new) \in Nat
      BY <2>1 DEF Fits, Texts
    <2>3. upto <= Len(w) + 1
      BY <1>1, <1>6 DEF Laid, Behind
    <2>4. from \in 1..(Len(w) + 1) /\ upto \in 1..(Len(w) + 1)
      BY <1>3, <2>2, <2>3
    <2>5. s.from = from /\ s.upto = upto /\ s.new = new
      OBVIOUS
    <2>6. Behind(n, order, k, from)
      BY <1>1, <1>6 DEF Downward, Behind
    <2> HIDE DEF from, upto, new
    <2>7. /\ u[k] \in Texts /\ Len(u[k]) = (from - 1) + Len(new) + (Len(w) - upto + 1)
          /\ Lies(u[k], from, new)
      <3> DEFINE r == Replace(w, s)
      <3>1. Spliced(w, r, from, upto, new)
        <4> HIDE DEF s, w
        <4> QED BY <1>3, <1>6, <2>2, <2>4, <2>5, ReplaceLies
      <3> QED BY <1>2, <3>1 DEF Spliced
    <2>8. \A j \in (k + 1)..n : order[j] # Skipped => order[j].upto \in Nat
      BY <1>1 DEF Fitting, Fits
    <2>9. ASSUME NEW q \in Nat, from <= q PROVE Behind(n, order, k, q)
      BY <2>2, <2>6, <2>8, <2>9 DEF Behind
    <2>10. Behind(n, order, k, Len(u[k]) + 1)
      <3>1. Len(u[k]) + 1 \in Nat /\ from <= Len(u[k]) + 1
        <4> DEFINE l == Len(w)
                   c == Len(new)
        <4>1. Len(u[k]) = (from - 1) + c + (l - upto + 1)
          BY <2>7
        <4>2. l \in Nat /\ c \in Nat /\ upto <= l + 1 /\ from \in Nat \ {0} /\ upto \in Nat \ {0}
          BY <1>3, <2>2, <2>3
        <4> HIDE DEF l, c, w, k
        <4> QED BY <4>1, <4>2
      <3> QED BY <2>9, <3>1
    <2>11. ASSUME NEW i \in 1..k, order[i] # Skipped
           PROVE  \E q \in Nat \ {0} : Behind(n, order, k, q) /\ Lies(u[k], q, order[i].new)
      <3>1. CASE i = k
        <4>1. Behind(n, order, k, from) /\ Lies(u[k], from, order[i].new)
          BY <2>5, <2>6, <2>7, <3>1
        <4> QED BY <2>2, <4>1
      <3>2. CASE i # k
        <4>1. i \in 1..m /\ i \in 1..n
          BY <3>2, <1>1
        <4>2. PICK q \in Nat \ {0} : Behind(n, order, m, q) /\ Lies(w, q, order[i].new)
          BY <4>1, <2>11 DEF Laid
        <4>3. upto <= q
          BY <1>1, <1>6, <4>2 DEF Behind, upto
        <4>4. order[i].new \in Texts
          BY <4>1, <2>11 DEF Fitting, Fits
        <4> DEFINE x == order[i].new
        <4>5. PICK z \in Nat \ {0} : from <= z /\ Lies(Replace(w, s), z, x)
          <5> HIDE DEF s, w, x
          <5>1. x \in Texts /\ Lies(w, q, x)
            BY <4>2, <4>4 DEF x
          <5> QED BY <1>3, <1>6, <2>2, <2>4, <2>5, <4>3, <5>1, ReplaceKeeps
        <4> QED BY <1>2, <2>9, <4>5
      <3> QED BY <3>1, <3>2
    <2> QED BY <2>7, <2>10, <2>11 DEF Laid
  <1> QED BY <1>5, <1>6

\* All of them are in the text they come to.
LEMMA AllLaid ==
  ASSUME NEW t \in Texts, NEW n \in Nat, NEW order, Len(order) = n,
         Fitting(t, n, order), Downward(n, order),
         NEW i \in 1..n, order[i] # Skipped
  PROVE  \E q \in Nat \ {0} : Lies(InTurn(t, order), q, order[i].new)
  <1>1. PICK u : Turns(t, n, order, u) /\ InTurn(t, order) = u[n]
    BY InTurnIs
  <1> DEFINE M == {m \in Nat : m <= n => Laid(n, order, u, m)}
  <1>2. 0 \in M
    <2>1. u[0] = t /\ Len(t) \in Nat
      BY <1>1 DEF Turns, Texts
    <2>2. Behind(n, order, 0, Len(t) + 1)
      BY <2>1 DEF Behind, Fitting, Fits
    <2>3. Laid(n, order, u, 0)
      BY <2>1, <2>2 DEF Laid
    <2> QED BY <2>3
  <1>3. ASSUME NEW m \in Nat, m \in M PROVE m + 1 \in M
    <2>1. m + 1 <= n => m <= n
      OBVIOUS
    <2>2. m + 1 <= n => Laid(n, order, u, m + 1)
      BY <1>1, <1>3, <2>1, LaidStep
    <2> QED BY <2>2
  <1>4. n \in M
    <2> HIDE DEF M
    <2> QED BY <1>2, <1>3, SetInduction
  <1>5. Laid(n, order, u, n)
    BY <1>4
  <1> QED BY <1>1, <1>5 DEF Laid

\* What does not overlap and is put last first goes down.
LEMMA GoesDown ==
  ASSUME NEW t \in Texts, NEW n \in Nat, NEW order,
         DOMAIN order = 1..n, Fitting(t, n, order), Apart(order), Descending(n, order)
  PROVE  Downward(n, order)
  <1> SUFFICES ASSUME NEW i \in 1..n, NEW j \in 1..n, i < j,
                      order[i] # Skipped, order[j] # Skipped
               PROVE  order[j].upto <= order[i].from
    BY DEF Downward
  <1> DEFINE a == order[i].from
             b == order[i].upto
             c == order[j].from
             d == order[j].upto
  <1>1. Fits(t, order[i]) /\ Fits(t, order[j])
    BY DEF Fitting
  <1>2. a \in Int /\ b \in Int /\ c \in Int /\ d \in Int /\ a < b
    BY <1>1 DEF Fits, Texts
  <1>3. b <= c \/ d <= a
    BY DEF Apart
  <1>4. a >= c
    BY DEF Descending
  <1> HIDE DEF a, b, c, d
  <1>5. d <= a
    BY <1>2, <1>3, <1>4
  <1> QED BY <1>5 DEF a, d

\* Every replacement made is to be found in what they come to together.
LEMMA ReplacedHolds ==
  ASSUME NEW t \in Texts, NEW n \in Nat, NEW s, DOMAIN s = 1..n,
         \A i \in 1..n : s[i] = Skipped \/ Fits(t, s[i]), Apart(s),
         NEW k \in 1..n, s[k] # Skipped
  PROVE  \E q \in Nat \ {0} : Lies(Replaced(t, s), q, s[k].new)
  <1> DEFINE order == LastFirst(s)
  <1>1. \A i \in 1..n : s[i].from \in Nat
    BY DEF Fits, Skipped, Span, Texts
  <1>2. /\ Len(order) = n /\ order = [i \in 1..n |-> order[i]]
        /\ Rearranged(n, s, order)
        /\ \A i \in 1..n : \E j \in 1..n : order[i] = s[j]
        /\ Descending(n, order)
    BY <1>1, LastFirstIs DEF Descending
  <1> HIDE DEF order
  <1>3. DOMAIN order = 1..n
    BY <1>2
  <1>4. Fitting(t, n, order)
    BY <1>2 DEF Fitting
  <1>5. Apart(order)
    BY <1>2, <1>3, ApartKept
  <1>6. Downward(n, order)
    BY <1>2, <1>3, <1>4, <1>5, GoesDown
  <1>7. PICK i \in 1..n : order[i] = s[k]
    <2>1. PICK f, g : Swap(n, f, g) /\ \A i \in 1..n : order[i] = s[f[i]]
      BY <1>2 DEF Rearranged
    <2>2. g[k] \in 1..n /\ f[g[k]] = k
      BY <2>1 DEF Swap
    <2> QED BY <2>1, <2>2
  <1>8. \E q \in Nat \ {0} : Lies(InTurn(t, order), q, order[i].new)
    BY <1>2, <1>4, <1>6, <1>7, AllLaid
  <1> QED BY <1>7, <1>8 DEF Replaced, order

\* What an edit adds is a part of what it is to put in.
LEMMA AdditionLies ==
  ASSUME NEW e, e.old \in Texts, e.new \in Texts, Addition(e) # <<>>
  PROVE  Addition(e) \in Texts /\ \E m \in Nat \ {0} : Lies(e.new, m, Addition(e))
  <1> DEFINE old == e.old
             new == e.new
             m == PrefixOf(old, new) + 1
             n == Len(new) - SuffixOf(old, new)
             x == SubSeq(new, m, n)
  <1>1. Addition(e) = x
    BY DEF Addition, PrefixOf, SuffixOf
  <1>2. Len(new) \in Nat
    BY DEF Texts
  <1>3. m \in Nat \ {0} /\ n \in 0..Len(new)
    <2> DEFINE p == PrefixOf(old, new)
               q == SuffixOf(old, new)
    <2>1. p \in Nat /\ q \in Nat /\ p + q <= Len(new)
      BY SharedIs
    <2>2. m = p + 1 /\ n = Len(new) - q
      OBVIOUS
    <2> HIDE DEF p, q, m, n, new
    <2> QED BY <1>2, <2>1, <2>2
  <1> HIDE DEF m, n
  <1>4. m <= n
    <2> SUFFICES ASSUME ~(m <= n) PROVE FALSE
      OBVIOUS
    <2>1. m \in Int /\ n \in Int /\ n < m
      BY <1>2, <1>3
    <2> QED BY <1>1, <2>1, SubSeqEmpty
  <1>5. x \in Texts /\ Lies(new, m, x)
    BY <1>3, <1>4, PartIs, PartLies
  <1> HIDE DEF x, new
  <1> QED BY <1>1, <1>3, <1>5 DEF new

\* A span puts in what the edit says, or, where only what differs is moved,
\* what the edit adds.
LEMMA ResolvedNew ==
  ASSUME NEW t, NEW e, NEW s \in Resolved(t, e), s # NoSpan, s # Skipped
  PROVE  s.new = e.new \/ s.new = Addition(e)
  <1> DEFINE found == Hits(t, e.old)
             tolerant == WhitespaceSpan(t, e.old, e.new)
             delta == DeltaSpan(t, e.old, e.new)
  <1>1. \/ s = Span(Only(found), Only(found) + Len(e.old), e.new)
        \/ tolerant # NoSpan /\ s = tolerant
        \/ delta # NoSpan /\ s = delta
        \/ s \in FuzzySpans(t, e.old, e.new)
    <2> HIDE DEF found, tolerant, delta
    <2>1. Resolved(t, e) =
            IF e.op # "replace" \/ e.old = <<>> THEN {NoSpan}
            ELSE IF Cardinality(found) = 1
              THEN {Span(Only(found), Only(found) + Len(e.old), e.new)}
            ELSE IF found # {} THEN {NoSpan}
            ELSE IF e.new # <<>> /\ Cardinality(Hits(t, e.new)) = 1 THEN {Skipped}
            ELSE IF tolerant # NoSpan THEN {tolerant}
            ELSE IF delta # NoSpan THEN {delta}
            ELSE {NoSpan} \cup IF e.path \in Python THEN FuzzySpans(t, e.old, e.new) ELSE {}
      BY DEF Resolved, found, tolerant, delta
    <2> QED BY <2>1
  <1>2. CASE s = Span(Only(found), Only(found) + Len(e.old), e.new)
    BY <1>2 DEF Span
  <1>3. CASE tolerant # NoSpan /\ s = tolerant
    <2>1. \E a, b : tolerant = Span(a, b, e.new)
      BY <1>3 DEF WhitespaceSpan
    <2> HIDE DEF tolerant
    <2> QED BY <1>3, <2>1 DEF Span
  <1>4. CASE delta # NoSpan /\ s = delta
    <2>1. \E a, b : delta = Span(a, b, Addition(e))
      BY <1>4 DEF DeltaSpan, Addition
    <2> HIDE DEF delta
    <2> QED BY <1>4, <2>1 DEF Span
  <1>5. CASE s \in FuzzySpans(t, e.old, e.new)
    <2>1. \E a, b : s = Span(a, b, e.new)
      BY <1>5 DEF FuzzySpans
    <2> QED BY <2>1 DEF Span
  <1> QED BY <1>1, <1>2, <1>3, <1>4, <1>5

\* An edit of a file is taken for made already, or what it adds is in the text
\* the edits come to together.
LEMMA NewTextsHold ==
  ASSUME NEW old \in Texts \cup {Absent}, NEW tracked, NEW shown,
         NEW es \in Seq(Edits),
         NEW r \in NewTexts(old, tracked, shown, es), r # Refused,
         NEW k \in 1..Len(es), Addition(es[k]) # <<>>
  PROVE  \/ old # Absent /\ Skipped \in Resolved(old, es[k])
         \/ Hits(r, Addition(es[k])) # {}
  <1> DEFINE n == Len(es)
             e == es[k]
             first == es[1]
             Alone(op) == Len(es) = 1 /\ first.op = op /\ first.old = <<>>
             Ways == {f \in [DOMAIN es -> UNION {Resolved(old, es[i]) : i \in DOMAIN es}] :
                        \A i \in DOMAIN es : f[i] \in Resolved(old, es[i])}
  <1>1. n \in Nat /\ DOMAIN es = 1..n /\ \A i \in 1..n : es[i] \in Edits
    OBVIOUS
  <1>2. \A i \in 1..n : es[i].old \in Texts /\ es[i].new \in Texts
    BY <1>1, GatesAssumption
  <1>3. /\ e.old \in Texts /\ e.new \in Texts /\ Addition(e) \in Texts
        /\ \E m \in Nat \ {0} : Lies(e.new, m, Addition(e))
    <2>1. e.old \in Texts /\ e.new \in Texts /\ Addition(e) # <<>>
      BY <1>2
    <2> HIDE DEF e
    <2> QED BY <2>1, AdditionLies
  <1>4. r \in Texts
    BY NewTextsAre
  <1>5. \/ n = 1 /\ r = first.new
        \/ old # Absent /\ \E s \in Ways : /\ ~(NoSpan \in {s[i] : i \in DOMAIN s}) /\ ~Overlap(s)
                                           /\ r = Replaced(old, s)
    <2> HIDE DEF Ways
    <2>1. NewTexts(old, tracked, shown, es) =
            IF old = Absent THEN {IF Alone("create") THEN first.new ELSE Refused}
            ELSE IF ~tracked /\ Alone("create") THEN {first.new}
            ELSE IF Len(es) = 1 /\ first.op = "replace_file"
              THEN {IF first.old = <<>> /\ first.expects = old THEN first.new ELSE Refused}
            ELSE IF shown /\ Alone("create") THEN {first.new}
            ELSE {IF NoSpan \in {s[i] : i \in DOMAIN s} \/ Overlap(s) THEN Refused
                  ELSE Replaced(old, s) : s \in Ways}
      BY DEF NewTexts, Ways
    <2> QED BY <2>1
  <1> HIDE DEF e
  <1>6. ASSUME NEW x \in Texts, x = e.new \/ x = Addition(e), NEW q \in Nat \ {0}, Lies(r, q, x)
        PROVE  Hits(r, Addition(e)) # {}
    <2>1. \E z \in Nat \ {0} : Lies(r, z, Addition(e))
      <3>1. CASE x = e.new
        <4>1. PICK m \in Nat \ {0} : Lies(x, m, Addition(e))
          BY <1>3, <3>1
        <4>2. q + m - 1 \in Nat \ {0} /\ Lies(r, q + m - 1, Addition(e))
          BY <1>3, <1>4, <1>6, <4>1, LiesWithin
        <4> QED BY <4>2
      <3>2. CASE x = Addition(e)
        BY <1>6, <3>2
      <3> QED BY <1>6, <3>1, <3>2
    <2>2. Addition(e) # <<>>
      BY DEF e
    <2> QED BY <1>3, <1>4, <2>1, <2>2, LiesHits
  <1>7. CASE n = 1 /\ r = first.new
    <2>1. r = e.new
      BY <1>7 DEF e
    <2>2. Lies(r, 1, r)
      <3>1. Len(r) \in Nat
        BY <1>4 DEF Texts
      <3>2. \A i \in 1..Len(r) : 1 + i - 1 = i
        BY <3>1
      <3> QED BY <3>1, <3>2 DEF Lies
    <2>3. Hits(r, Addition(e)) # {}
      BY <1>4, <1>6, <2>1, <2>2
    <2> QED BY <2>3 DEF e
  <1>8. ASSUME old # Absent, NEW s \in Ways,
               ~(NoSpan \in {s[i] : i \in DOMAIN s}), ~Overlap(s), r = Replaced(old, s),
               s[k] # Skipped
        PROVE  Hits(r, Addition(e)) # {}
    <2>1. DOMAIN s = 1..n /\ \A i \in 1..n : s[i] \in Resolved(old, es[i]) /\ s[i] # NoSpan
      BY <1>1, <1>8
    <2>2. old \in Texts
      BY <1>8
    <2>3. ASSUME NEW i \in 1..n PROVE s[i] = Skipped \/ Fits(old, s[i])
      BY <2>1, <2>2, <1>2, ResolvedFit
    <2>4. s[k].new = e.new \/ s[k].new = Addition(e)
      <3>1. s[k] \in Resolved(old, e) /\ s[k] # NoSpan
        BY <2>1 DEF e
      <3> QED BY <1>8, <3>1, ResolvedNew
    <2> HIDE DEF Ways
    <2>5. Apart(s)
      <3> HIDE DEF n
      <3> QED BY <1>1, <1>8, <2>1, <2>2, <2>3, OverlapIs
    <2>6. PICK q \in Nat \ {0} : Lies(r, q, s[k].new)
      <3> DEFINE o == Replaced(old, s)
      <3>1. \E q \in Nat \ {0} : Lies(Replaced(old, s), q, s[k].new)
        <4>1. k \in 1..n
          OBVIOUS
        <4> HIDE DEF n
        <4> QED BY <1>1, <1>8, <2>1, <2>2, <2>3, <2>5, <4>1, ReplacedHolds
      <3> QED BY <1>8, <3>1
    <2>7. s[k].new \in Texts
      BY <1>3, <2>4
    <2> QED BY <1>6, <2>4, <2>6, <2>7
  <1>9. CASE n # 1 \/ r # first.new
    <2>1. PICK s \in Ways : /\ ~(NoSpan \in {s[i] : i \in DOMAIN s}) /\ ~Overlap(s)
                           /\ r = Replaced(old, s)
      <3> HIDE DEF Ways
      <3> QED BY <1>5, <1>9
    <2>2. old # Absent
      BY <1>5, <1>9
    <2>3. CASE s[k] = Skipped
      <3>1. s[k] \in Resolved(old, es[k])
        BY <1>1
      <3> QED BY <2>2, <2>3, <3>1
    <2>4. CASE s[k] # Skipped
      <3> HIDE DEF Ways
      <3>1. Hits(r, Addition(e)) # {}
        BY <1>8, <2>1, <2>2, <2>4
      <3> QED BY <3>1 DEF e
    <2> QED BY <2>3, <2>4
  <1> QED BY <1>7, <1>9

-----------------------------------------------------------------------------
(* The inductive invariant. *)

\* Values in their ranges; the graph proposes only while it has attempts left.
Typed ==
  /\ files \in [Path -> Texts \cup {Absent}]
  /\ stage \in Stages /\ attempt \in 0..MaxAttempts
  /\ stage = "proposing" => attempt < MaxAttempts
  /\ DOMAIN staged \subseteq Editable /\ \A p \in DOMAIN staged : staged[p] \in Texts
  /\ gate \subseteq Faults /\ left \subseteq Path

\* The tree differs from the baseline in texts that a candidate may change, or
\* that the tests wrote.
Within ==
  \A p \in Changed(files) : files[p] # Absent /\ (p \in Allowed \/ p \in left)

\* The lines of a text end alike.
Even(t) == \E end \in {"lf", "cr"} : \A i \in DOMAIN t : t[i].end = end

\* Nothing is left for normalize_coding_whitespace to do.
Settled(t) == Even(t) /\ (t = <<>> \/ t[Len(t)].word # Empty)

\* What was looked at once has lines that end alike, tests that changed, and
\* what git tracks is tidy, if the tests did not write it since.
LookedAt ==
  stage = "rechecking" =>
    /\ Changed(files) \cap Tests # {}
    /\ \A p \in Changed(files) \ left :
         /\ p \in SourceLike /\ Treated(files[p]) => Even(files[p])
         /\ p \in Tracked => ~Untidy(files[p], Baseline[p])

\* What was looked at twice is settled, tidy and compiles, if the tests did not
\* write it since, and is what the quality gate had nothing against.
Vetted ==
  stage \in {"committed", "inspected"} =>
    /\ Changed(files) \cap Tests = {} => left \cap Tests # {}
    /\ ~NoTests(files)
    /\ \A p \in Changed(files) \ left :
         /\ p \in SourceLike /\ Treated(files[p]) => Settled(files[p])
         /\ p \in Tracked => ~Untidy(files[p], Baseline[p])
         /\ p \in Python => Parses(files[p])
    /\ \E run \in Runs : Judged(files, run) = {}

\* The gate looked at the tree that was committed.
Judgement ==
  stage = "inspected" => \E run \in Runs : gate = GateFaults(files, run)

GatesInv == Typed /\ Within /\ LookedAt /\ Vetted /\ Judgement

\* What is read of a text is a text with the same words.
LEMMA AsReadIs ==
  ASSUME NEW t \in Texts
  PROVE  /\ AsRead(t) \in Texts /\ Len(AsRead(t)) = Len(t)
         /\ \A i \in 1..Len(t) : AsRead(t)[i].word = t[i].word
  <1> DEFINE r == AsRead(t)
  <1>1. Len(t) \in Nat /\ DOMAIN t = 1..Len(t) /\ \A i \in 1..Len(t) : t[i] \in Line
    BY DEF Texts
  <1>2. r = [i \in 1..Len(t) |-> [word |-> t[i].word, end |-> IF t[i].end = "cr" THEN "lf" ELSE t[i].end]]
    BY <1>1 DEF AsRead
  <1>3. ASSUME NEW i \in 1..Len(t)
        PROVE  r[i] \in Line /\ r[i].word = t[i].word
    <2>1. t[i] \in Line
      BY <1>1
    <2>2. r[i] = [word |-> t[i].word, end |-> IF t[i].end = "cr" THEN "lf" ELSE t[i].end]
      BY <1>2
    <2> HIDE DEF r
    <2> QED BY <2>1, <2>2 DEF Line, Ends
  <1>4. r = [i \in 1..Len(t) |-> r[i]]
    BY <1>2
  <1> HIDE DEF r
  <1>5. r \in Seq(Line) /\ Len(r) = Len(t)
    BY <1>1, <1>3, <1>4
  <1> QED BY <1>3, <1>5 DEF r, Texts

\* So the tree that a proposal is compared with is one of texts.
LEMMA TreeAsReadIs ==
  ASSUME files \in [Path -> Texts \cup {Absent}]
  PROVE  TreeAsRead \in [Path -> Texts \cup {Absent}]
  <1>1. \A p \in Path : files[p] # Absent => AsRead(files[p]) \in Texts
    BY AsReadIs
  <1> QED BY <1>1 DEF TreeAsRead

\* What normalize_coding_whitespace makes of a text is a text whose lines end
\* alike. If they did before, nothing is left to be done; and if that changed
\* the text, it had more empty lines at its end.
LEMMA NormalizedIs ==
  ASSUME NEW t \in Texts
  PROVE  /\ Normalized(t) \in Texts /\ Even(Normalized(t))
         /\ Even(t) => Settled(Normalized(t))
         /\ Even(t) /\ Normalized(t) # t => EmptyAtEnd(t) > EmptyAtEnd(Normalized(t))
  <1> DEFINE last == {0} \cup {i \in DOMAIN t : t[i].word # Empty \/ t[i].end = "blank"}
             end == IF t # <<>> /\ \A i \in DOMAIN t : t[i].end = "cr" THEN "cr" ELSE "lf"
             m == Longest(last)
             r == [i \in 1..m |-> [t[i] EXCEPT !.end = end]]
             Worded(s) == {0} \cup {i \in DOMAIN s : s[i].word # Empty}
  <1>1. Normalized(t) = r
    BY DEF Normalized
  <1>2. Len(t) \in Nat /\ DOMAIN t = 1..Len(t) /\ \A i \in 1..Len(t) : t[i] \in Line
    BY DEF Texts
  <1>3. m \in last /\ last \in SUBSET (0..Len(t)) /\ \A i \in last : i <= m
    <2>1. last \in SUBSET (0..Len(t)) /\ 0 \in last
      BY <1>2
    <2> HIDE DEF last
    <2> QED BY <1>2, <2>1, LongestIs
  <1>4. m \in 0..Len(t) /\ (m # 0 => t[m].word # Empty \/ t[m].end = "blank")
    <2> HIDE DEF m
    <2> QED BY <1>3
  <1>5. end \in {"lf", "cr"}
    OBVIOUS
  <1>6. ASSUME NEW i \in 1..m
        PROVE  /\ r[i] \in Line /\ r[i].end = end /\ r[i].word = t[i].word
    <2>1. t[i] \in Line
      <3> HIDE DEF m
      <3> QED BY <1>2, <1>4
    <2> HIDE DEF m, end
    <2> QED BY <2>1, <1>5 DEF Line, Ends
  <1>7. r \in Seq(Line) /\ Len(r) = m /\ DOMAIN r = 1..m
    <2>1. m \in Nat
      <3> HIDE DEF m
      <3> QED BY <1>2, <1>4
    <2>2. r = [i \in 1..m |-> r[i]] /\ \A i \in 1..m : r[i] \in Line
      <3>1. \A i \in 1..m : r[i] \in Line
        BY <1>6
      <3>2. r = [i \in 1..m |-> r[i]]
        OBVIOUS
      <3> HIDE DEF r, m
      <3> QED BY <3>1, <3>2
    <2> HIDE DEF r, m
    <2> QED BY <2>1, <2>2
  <1>8. Even(r)
    <2>1. \A i \in 1..m : r[i].end = end
      BY <1>6
    <2> HIDE DEF r, m, end
    <2> QED BY <2>1, <1>5, <1>7 DEF Even
  <1>9. ASSUME Even(t), m # 0 PROVE t[m].word # Empty
    <2>1. m \in 1..Len(t)
      <3> HIDE DEF m
      <3> QED BY <1>2, <1>4, <1>9
    <2>2. t[m].end # "blank"
      <3> HIDE DEF m
      <3> QED BY <2>1, <1>2, <1>9 DEF Even
    <2> HIDE DEF m
    <2> QED BY <2>2, <1>4, <1>9
  <1>10. ASSUME Even(t) PROVE Settled(r)
    <2>1. r = <<>> \/ r[Len(r)].word # Empty
      <3>1. CASE m = 0
        <4> HIDE DEF r, m
        <4> QED BY <3>1, <1>7
      <3>2. CASE m # 0
        <4>1. m \in 1..m
          <5> HIDE DEF m
          <5> QED BY <3>2, <1>2, <1>4
        <4>2. r[m].word = t[m].word
          BY <4>1, <1>6
        <4>3. t[m].word # Empty
          BY <3>2, <1>9, <1>10
        <4> HIDE DEF r, m
        <4> QED BY <4>2, <4>3, <1>7
      <3> QED BY <3>1, <3>2
    <2> HIDE DEF r
    <2> QED BY <2>1, <1>8 DEF Settled
  <1>11. ASSUME Even(t), r # t PROVE EmptyAtEnd(t) > EmptyAtEnd(r)
    <2>1. m < Len(t)
      <3>0. ~(m < Len(t)) => m = Len(t)
        <4>1. m \in Int /\ m <= Len(t) /\ Len(t) \in Int
          <5> HIDE DEF m
          <5> QED BY <1>2, <1>4
        <4> HIDE DEF m
        <4> QED BY <4>1
      <3> SUFFICES ASSUME m = Len(t) PROVE FALSE
        <4> HIDE DEF m
        <4> QED BY <3>0
      <3>1. ASSUME NEW i \in 1..m PROVE r[i] = t[i]
        <4>1. t[i].end = end
          <5>1. i \in DOMAIN t /\ t # <<>>
            <6> HIDE DEF m
            <6> QED BY <1>2, <3>1
          <5>2. (\A j \in DOMAIN t : t[j].end = "lf") \/ (\A j \in DOMAIN t : t[j].end = "cr")
            BY <1>11 DEF Even
          <5> QED BY <5>1, <5>2
        <4>2. t[i] \in Line
          <5> HIDE DEF m
          <5> QED BY <1>2, <1>4
        <4>3. r[i] = [t[i] EXCEPT !.end = end]
          <5> HIDE DEF m, end
          <5> QED OBVIOUS
        <4> HIDE DEF r, end, m
        <4> QED BY <4>1, <4>2, <4>3 DEF Line
      <3>2. t = [i \in 1..Len(t) |-> t[i]] /\ r = [i \in 1..m |-> r[i]]
        <4>1. r = [i \in 1..m |-> r[i]]
          OBVIOUS
        <4> HIDE DEF r, m
        <4> QED BY <4>1, <1>2 DEF Texts
      <3>3. r = t
        <4> HIDE DEF r, m
        <4> QED BY <3>1, <3>2
      <3> QED BY <3>3, <1>11
    <2>2. ASSUME NEW s \in {t, r}, NEW n \in Nat, n = Len(s), DOMAIN s = 1..n, m <= n,
                 \A i \in 1..n : s[i].word # Empty => i <= m,
                 m # 0 => s[m].word # Empty
          PROVE  EmptyAtEnd(s) = n - m
      <3>1. m \in Nat
        <4> HIDE DEF m
        <4> QED BY <1>2, <1>4
      <3>2. Worded(s) \in SUBSET (0..n) /\ m \in Worded(s) /\ \A i \in Worded(s) : i <= m
        <4> HIDE DEF m, r
        <4> QED BY <2>2, <3>1
      <3>3. Longest(Worded(s)) \in Worded(s) /\ \A i \in Worded(s) : i <= Longest(Worded(s))
        <4> HIDE DEF m, r, Worded
        <4> QED BY <2>2, <3>2, LongestIs
      <3>4. Longest(Worded(s)) = m
        <4> HIDE DEF m, r, Worded
        <4> DEFINE k == Longest(Worded(s))
        <4>1. k <= m /\ m <= k /\ k \in 0..n
          BY <3>2, <3>3
        <4> HIDE DEF k
        <4>2. k = m
          BY <4>1, <3>1, <2>2
        <4> QED BY <4>2 DEF k
      <3>5. EmptyAtEnd(s) = Len(s) - Longest(Worded(s))
        <4> HIDE DEF m, r
        <4> QED BY DEF EmptyAtEnd
      <3> HIDE DEF m, r, Worded
      <3> QED BY <3>4, <3>5, <2>2
    <2>3. m # 0 => t[m].word # Empty
      BY <1>9, <1>11
    <2>4. EmptyAtEnd(t) = Len(t) - m
      <3>1. \A i \in 1..Len(t) : t[i].word # Empty => i <= m
        <4>1. \A i \in 1..Len(t) : t[i].word # Empty => i \in last
          BY <1>2
        <4> HIDE DEF m, last
        <4> QED BY <4>1, <1>3
      <3>2. m <= Len(t) /\ t \in {t, r} /\ Len(t) = Len(t)
        <4> HIDE DEF m, r
        <4> QED BY <1>2, <1>4
      <3> HIDE DEF m, r
      <3> QED BY <3>1, <3>2, <2>2, <2>3, <1>2, Zenon
    <2>5. EmptyAtEnd(r) = m - m
      <3>1. m \in Nat
        <4> HIDE DEF m
        <4> QED BY <1>2, <1>4
      <3>2. m # 0 => r[m].word # Empty
        <4> SUFFICES ASSUME m # 0 PROVE r[m].word # Empty
          OBVIOUS
        <4>1. m \in 1..m
          <5> HIDE DEF m
          <5> QED BY <3>1
        <4>2. r[m].word = t[m].word
          BY <4>1, <1>6
        <4> HIDE DEF r, m
        <4> QED BY <4>2, <2>3
      <3> HIDE DEF m, r
      <3> QED BY <3>1, <3>2, <2>2, <1>7
    <2> HIDE DEF m, r
    <2> QED BY <2>1, <2>4, <2>5, <1>2, <1>4
  <1> HIDE DEF r
  <1> QED BY <1>1, <1>7, <1>8, <1>10, <1>11 DEF Texts

\* Normalisation takes nothing out of a text's place, what is as the baseline has
\* it stays so, and what it leaves alone is no source, too large or a link.
LEMMA NormalizeIs ==
  ASSUME NEW tree \in [Path -> Texts \cup {Absent}]
  PROVE  /\ Normalize(tree) \in [Path -> Texts \cup {Absent}]
         /\ Changed(Normalize(tree)) \subseteq Changed(tree)
         /\ \A p \in Changed(tree) :
              IF p \in SourceLike /\ tree[p] # Absent /\ Treated(tree[p])
              THEN tree[p] \in Texts /\ Normalize(tree)[p] = Normalized(tree[p])
              ELSE Normalize(tree)[p] = tree[p]
         /\ \A p \in Path : tree[p] # Absent => Normalize(tree)[p] # Absent
  <1> DEFINE new == Normalize(tree)
             Done(p) == p \in SourceLike /\ tree[p] # Absent /\ Treated(tree[p])
  <1>1. new = [p \in Path |-> IF p \in Changed(tree) /\ Done(p)
                              THEN Normalized(tree[p]) ELSE tree[p]]
    BY DEF Normalize
  <1> HIDE DEF new
  <1>2. ASSUME NEW p \in Path
        PROVE  /\ new[p] \in Texts \cup {Absent}
               /\ p \in Changed(new) => p \in Changed(tree)
               /\ p \in Changed(tree) => IF Done(p)
                                         THEN tree[p] \in Texts /\ new[p] = Normalized(tree[p])
                                         ELSE new[p] = tree[p]
               /\ tree[p] # Absent => new[p] # Absent
    <2>1. CASE p \in Changed(tree) /\ Done(p)
      <3>1. tree[p] \in Texts
        BY <2>1
      <3>2. new[p] = Normalized(tree[p])
        BY <1>1, <2>1
      <3>3. new[p] \in Texts
        BY <3>1, <3>2, NormalizedIs
      <3> QED BY <2>1, <3>1, <3>2, <3>3, EditsAssumption
    <2>2. CASE ~(p \in Changed(tree) /\ Done(p))
      <3>1. new[p] = tree[p]
        BY <1>1, <2>2
      <3> QED BY <2>2, <3>1 DEF Changed
    <2> QED BY <2>1, <2>2
  <1>3. new \in [Path -> Texts \cup {Absent}]
    <2>1. new = [p \in Path |-> new[p]]
      BY <1>1
    <2> QED BY <2>1, <1>2
  <1>4. Changed(new) \subseteq Path /\ Changed(tree) \subseteq Path
    BY DEF Changed
  <1> QED BY <1>2, <1>3, <1>4 DEF new

\* A look at the tree normalises it, and then the tests write what they will.
LEMMA LookIs ==
  ASSUME Typed, Within, NEW l \in Litter, Look(l)
  PROVE  LET tidy == Normalize(files) IN
         /\ files' \in [Path -> Texts \cup {Absent}]
         /\ left \subseteq left' /\ left' \subseteq Path
         /\ \A p \in Path \ left' : files'[p] = tidy[p]
         /\ \A p \in Path : tidy[p] # Absent => files'[p] # Absent
         /\ Within'
  <1> DEFINE tidy == Normalize(files)
  <1>1. files' = [p \in Path |-> IF p \in DOMAIN l THEN l[p] ELSE tidy[p]]
        /\ left' = left \cup DOMAIN l
    BY DEF Look, Littered
  <1>2. DOMAIN l \subseteq Path /\ \A p \in DOMAIN l : l[p] \in Texts /\ l[p] # Absent
    BY GatesAssumption, EditsAssumption
  <1>3. /\ tidy \in [Path -> Texts \cup {Absent}] /\ Changed(tidy) \subseteq Changed(files)
        /\ \A p \in Path : files[p] # Absent => tidy[p] # Absent
    BY NormalizeIs DEF Typed
  <1> HIDE DEF tidy
  <1>4. \A p \in Path : files'[p] = IF p \in DOMAIN l THEN l[p] ELSE tidy[p]
    BY <1>1
  <1>5. files' \in [Path -> Texts \cup {Absent}]
    BY <1>1, <1>2, <1>3
  <1>6. left \subseteq left' /\ left' \subseteq Path /\ DOMAIN l \subseteq left'
    BY <1>1, <1>2 DEF Typed
  <1>7. Within'
    <2> SUFFICES ASSUME NEW p \in Path, files'[p] # Baseline[p]
                 PROVE  files'[p] # Absent /\ (p \in Allowed \/ p \in left')
      BY DEF Within, Changed
    <2>1. CASE p \in DOMAIN l
      BY <2>1, <1>2, <1>4, <1>6
    <2>2. CASE p \notin DOMAIN l
      <3>1. files'[p] = tidy[p]
        BY <2>2, <1>4
      <3>2. p \in Changed(files)
        BY <3>1, <1>3 DEF Changed
      <3> QED BY <3>1, <3>2, <1>3, <1>6 DEF Within
    <2> QED BY <2>1, <2>2
  <1>8. \A p \in Path \ left' : files'[p] = tidy[p]
    BY <1>4, <1>6
  <1>9. \A p \in Path : tidy[p] # Absent => files'[p] # Absent
    BY <1>2, <1>4
  <1> QED BY <1>5, <1>6, <1>7, <1>8, <1>9 DEF tidy

\* What a passing look says of a path the tests did not write: it is as
\* normalisation left it, which git and the compiler had nothing against.
LEMMA PassingLook ==
  ASSUME Typed, Within, NEW l \in Litter, NEW run \in Runs, Look(l), Passed(run),
         NEW p \in Changed(files)' \ left'
  PROVE  /\ p \in Changed(files) \ left
         /\ files[p] \in Texts /\ files'[p] \in Texts
         /\ files'[p] = IF p \in SourceLike /\ Treated(files[p])
                        THEN Normalized(files[p]) ELSE files[p]
         /\ p \in Tracked => ~Untidy(files'[p], Baseline[p])
         /\ p \in Python => Parses(files'[p])
  <1> DEFINE tidy == Normalize(files)
  <1>1. p \in Path /\ files'[p] # Baseline[p]
    BY DEF Changed
  <1>2. files'[p] = tidy[p] /\ left \subseteq left'
    BY <1>1, LookIs
  <1>3. p \in Changed(tidy)
    BY <1>1, <1>2 DEF Changed
  <1>4. p \in Changed(files) /\ p \notin left
    BY <1>2, <1>3, NormalizeIs DEF Typed
  <1>5. files[p] \in Texts
    BY <1>1, <1>4 DEF Typed, Within
  <1>6. files[p] # Absent
    BY <1>5, EditsAssumption
  <1>7. files'[p] = IF p \in SourceLike /\ Treated(files[p])
                    THEN Normalized(files[p]) ELSE files[p]
    BY <1>2, <1>4, <1>6, NormalizeIs DEF Typed
  <1>8. files'[p] \in Texts
    BY <1>5, <1>7, NormalizedIs
  <1>9. /\ \A q \in Changed(tidy) \cap Tracked : ~Untidy(tidy[q], Baseline[q])
        /\ \A q \in Changed(tidy) \cap Python : Parses(tidy[q])
    <2> HIDE DEF tidy
    <2>1. LabPasses(tidy, files', run)
      BY DEF Passed, tidy
    <2> QED BY <2>1 DEF LabPasses
  <1> HIDE DEF tidy
  <1>10. /\ p \in Tracked => ~Untidy(files'[p], Baseline[p])
         /\ p \in Python => Parses(files'[p])
    BY <1>2, <1>3, <1>9
  <1> QED BY <1>4, <1>5, <1>7, <1>8, <1>10

\* A first look that passes.
LEMMA LookOnce ==
  ASSUME Typed, Within, NEW l \in Litter, NEW run \in Runs, Look(l), Passed(run),
         Complete(files')
  PROVE  LookedAt'
  <1>1. Changed(files') \cap Tests # {}
    BY DEF Complete
  <1>2. ASSUME NEW p \in Changed(files)' \ left'
        PROVE  /\ p \in SourceLike /\ Treated(files'[p]) => Even(files'[p])
               /\ p \in Tracked => ~Untidy(files'[p], Baseline[p])
    <2>1. /\ files[p] \in Texts
          /\ files'[p] = IF p \in SourceLike /\ Treated(files[p])
                         THEN Normalized(files[p]) ELSE files[p]
          /\ p \in Tracked => ~Untidy(files'[p], Baseline[p])
      BY <1>2, PassingLook
    <2> QED BY <2>1, NormalizedIs
  <1> QED BY <1>1, <1>2 DEF LookedAt, Changed, Tracked

\* A second look that passes. The tests a candidate must change cannot have been
\* normalised into what they were: the first look would have seen their end.
LEMMA LookTwice ==
  ASSUME Typed, Within, LookedAt, stage = "rechecking",
         NEW l \in Litter, NEW run \in Runs, Look(l), Passed(run)
  PROVE  Vetted'
  <1> DEFINE tidy == Normalize(files)
  <1>1. /\ Changed(files) \cap Tests # {}
        /\ \A p \in Changed(files) \ left :
             /\ p \in SourceLike /\ Treated(files[p]) => Even(files[p])
             /\ p \in Tracked => ~Untidy(files[p], Baseline[p])
    BY DEF LookedAt
  <1>2. /\ files' \in [Path -> Texts \cup {Absent}] /\ left \subseteq left'
        /\ \A p \in Path \ left' : files'[p] = tidy[p]
        /\ \A p \in Path : tidy[p] # Absent => files'[p] # Absent
    BY LookIs
  <1>3. Changed(files)' \cap Tests = {} => left' \cap Tests # {}
    <2> SUFFICES ASSUME Changed(files)' \cap Tests = {}, left' \cap Tests = {} PROVE FALSE
      OBVIOUS
    <2>1. PICK p \in Changed(files) : p \in Tests
      BY <1>1
    <2>2. p \in Path /\ p \notin left' /\ p \notin left /\ files[p] \in Texts /\ files[p] # Baseline[p]
      BY <2>1, <1>2, EditsAssumption DEF Typed, Within, Changed
    <2>3. files'[p] = Baseline[p]
      BY <2>1, <2>2 DEF Changed
    <2>4. tidy[p] = Baseline[p]
      BY <2>2, <2>3, <1>2
    <2>5. p \in SourceLike /\ Treated(files[p]) /\ tidy[p] = Normalized(files[p])
      <3>1. IF p \in SourceLike /\ files[p] # Absent /\ Treated(files[p])
            THEN files[p] \in Texts /\ tidy[p] = Normalized(files[p])
            ELSE tidy[p] = files[p]
        BY <2>1, NormalizeIs DEF Typed
      <3> HIDE DEF tidy
      <3> QED BY <3>1, <2>2, <2>4
    <2> HIDE DEF tidy
    <2>6. Baseline[p] \in Texts /\ p \in Tracked
      <3>1. Baseline[p] \in Texts
        BY <2>2, <2>4, <2>5, NormalizedIs
      <3> QED BY <3>1, <2>2, EditsAssumption DEF Tracked
    <2>7. Even(files[p]) /\ ~Untidy(files[p], Baseline[p])
      BY <2>1, <2>2, <2>5, <2>6, <1>1
    <2>8. EmptyAtEnd(files[p]) > EmptyAtEnd(Baseline[p])
      <3>1. EmptyAtEnd(files[p]) > EmptyAtEnd(Normalized(files[p]))
        BY <2>2, <2>4, <2>5, <2>7, NormalizedIs
      <3> QED BY <3>1, <2>4, <2>5
    <2>9. LinesOf(Baseline[p]) = Baseline[p]
      BY <2>6, EditsAssumption DEF LinesOf
    <2> QED BY <2>7, <2>8, <2>9 DEF Untidy
  <1>4. ~NoTests(files')
    <2>1. ~NoTests(tidy)
      BY DEF Passed, LabPasses
    <2>2. Tests \subseteq Path
      BY GatesAssumption
    <2> HIDE DEF tidy
    <2> QED BY <2>1, <2>2, <1>2 DEF NoTests
  <1>5. ASSUME NEW p \in Changed(files)' \ left'
        PROVE  /\ p \in SourceLike /\ Treated(files'[p]) => Settled(files'[p])
               /\ p \in Tracked => ~Untidy(files'[p], Baseline[p])
               /\ p \in Python => Parses(files'[p])
    <2>1. /\ p \in Changed(files) \ left /\ files[p] \in Texts
          /\ files'[p] = IF p \in SourceLike /\ Treated(files[p])
                         THEN Normalized(files[p]) ELSE files[p]
          /\ p \in Tracked => ~Untidy(files'[p], Baseline[p])
          /\ p \in Python => Parses(files'[p])
      BY <1>5, PassingLook
    <2>2. p \in SourceLike /\ Treated(files[p]) => Even(files[p])
      BY <2>1, <1>1
    <2> QED BY <2>1, <2>2, NormalizedIs
  <1>6. Judged(files', run) = {}
    BY DEF Passed, LabPasses
  <1> HIDE DEF tidy
  <1>7. \E r \in Runs : Judged(files', r) = {}
    BY <1>6
  <1> QED BY <1>3, <1>4, <1>5, <1>7 DEF Vetted, NoTests, Changed, Tracked, Judged

\* The faults the gate finds have names.
LEMMA FaultsAre ==
  ASSUME NEW tree, NEW run
  PROVE  GateFaults(tree, run) \subseteq Faults
  BY Zenon DEF GateFaults

\* A job starts with the baseline or with restored work in progress.
LEMMA InitInv == Init => GatesInv
  <1> SUFFICES ASSUME Init PROVE GatesInv
    OBVIOUS
  <1>1. files \in Restored /\ stage \in {"proposing", "validating"} /\ attempt = 0
        /\ staged = NothingNew /\ gate = {} /\ left = {}
    BY DEF Init
  <1>2. Typed
    <2>1. DOMAIN staged = {}
      BY <1>1 DEF NothingNew
    <2> QED BY <1>1, <2>1, GatesAssumption DEF Typed, Stages
  <1>3. Within
    BY <1>1, GatesAssumption DEF Within, Changed
  <1>4. LookedAt /\ Vetted /\ Judgement
    BY <1>1 DEF LookedAt, Vetted, Judgement
  <1> QED BY <1>2, <1>3, <1>4 DEF GatesInv

\* Each step keeps the invariant: a proposal is made of texts, a write puts one
\* of them in its file, two looks settle the tree and judge it, and the gate
\* judges the tree that was committed.
LEMMA StepInv == GatesInv /\ [Next]_vars => GatesInv'
  <1> SUFFICES ASSUME GatesInv, [Next]_vars PROVE GatesInv'
    OBVIOUS
  <1> USE DEF GatesInv
  <1>1. CASE Propose
    <2>1. stage = "proposing" /\ UNCHANGED <<files, gate, left>> /\ attempt' = attempt + 1
      BY <1>1 DEF Propose
    <2>2. PICK n \in 1..MaxEdits :
            \E es \in [1..n -> Edits] :
            \E shown \in SUBSET {es[i].path : i \in {j \in 1..n : es[j].op = "create"}} :
            \E o \in Outcomes(TreeAsRead, Tracked, shown, es) :
              IF o = NothingNew THEN Again(attempt + 1) /\ UNCHANGED <<staged, edits>>
              ELSE stage' = "writing" /\ staged' = o /\ edits' = es
      BY <1>1 DEF Propose
    <2>6. PICK es \in [1..n -> Edits] :
            \E shown \in SUBSET {es[i].path : i \in {j \in 1..n : es[j].op = "create"}} :
            \E o \in Outcomes(TreeAsRead, Tracked, shown, es) :
              IF o = NothingNew THEN Again(attempt + 1) /\ UNCHANGED <<staged, edits>>
              ELSE stage' = "writing" /\ staged' = o /\ edits' = es
      BY <2>2
    <2>7. PICK shown, o :
            /\ o \in Outcomes(TreeAsRead, Tracked, shown, es)
            /\ IF o = NothingNew THEN Again(attempt + 1) /\ UNCHANGED <<staged, edits>>
               ELSE stage' = "writing" /\ staged' = o /\ edits' = es
      BY <2>6
    <2>3. attempt \in Nat /\ attempt < MaxAttempts /\ MaxAttempts \in Nat
      BY <2>1, GatesAssumption DEF Typed
    <2>4. CASE o = NothingNew
      <3>1. stage' = IF attempt + 1 = MaxAttempts THEN "blocked" ELSE "proposing"
        BY <2>7, <2>4 DEF Again
      <3>2. staged' = staged
        BY <2>7, <2>4
      <3>3. Typed'
        BY <2>1, <2>3, <3>1, <3>2 DEF Typed, Stages
      <3> QED BY <2>1, <3>1, <3>3 DEF Within, Changed, LookedAt, Vetted, Judgement
    <2>5. CASE o # NothingNew
      <3>1. stage' = "writing" /\ staged' = o
        BY <2>7, <2>5
      <3>2. es \in Seq(Edits) /\ TreeAsRead \in [Path -> Texts \cup {Absent}]
        BY GatesAssumption, TreeAsReadIs DEF Typed
      <3>3. DOMAIN o \subseteq Editable /\ \A p \in DOMAIN o : o[p] \in Texts
        BY <2>7, <2>5, <3>2, OutcomesAre
      <3>4. Typed'
        BY <2>1, <2>3, <3>1, <3>3 DEF Typed, Stages
      <3> QED BY <2>1, <3>1, <3>4 DEF Within, Changed, LookedAt, Vetted, Judgement
    <2> QED BY <2>4, <2>5
  <1>2. ASSUME NEW p \in Path, Write(p) PROVE GatesInv'
    <2>1. stage = "writing" /\ p \in DOMAIN staged /\ UNCHANGED <<attempt, gate, left>>
      BY <1>2 DEF Write
    <2>2. p \in Allowed /\ staged[p] \in Texts /\ staged[p] # Absent
      BY <2>1, EditsAssumption, GatesAssumption DEF Typed
    <2>3. CASE p \in Unwritable
      <3>1. Again(attempt) /\ staged' = NothingNew /\ files' = files
        BY <1>2, <2>3 DEF Write
      <3>2. DOMAIN staged' = {}
        BY <3>1 DEF NothingNew
      <3>3. stage' = IF attempt = MaxAttempts THEN "blocked" ELSE "proposing"
        BY <3>1 DEF Again
      <3>4. Typed'
        BY <2>1, <3>1, <3>2, <3>3, GatesAssumption DEF Typed, Stages
      <3> QED BY <2>1, <3>1, <3>3, <3>4 DEF Within, Changed, LookedAt, Vetted, Judgement
    <2>4. CASE p \notin Unwritable
      <3>1. /\ files' = [files EXCEPT ![p] = staged[p]]
            /\ staged' = [q \in DOMAIN staged \ {p} |-> staged[q]]
            /\ stage' \in {"validating", "writing"}
        BY <1>2, <2>4 DEF Write
      <3>2. files' \in [Path -> Texts \cup {Absent}]
        BY <2>2, <3>1 DEF Typed
      <3>3. DOMAIN staged' \subseteq Editable /\ \A q \in DOMAIN staged' : staged'[q] \in Texts
        BY <3>1 DEF Typed
      <3>4. Typed'
        BY <2>1, <3>1, <3>2, <3>3 DEF Typed, Stages
      <3>5. Within'
        <4>1. \A q \in Path : q # p => files'[q] = files[q]
          BY <3>1 DEF Typed
        <4>2. files'[p] = staged[p]
          BY <3>1 DEF Typed
        <4> QED BY <2>1, <2>2, <4>1, <4>2 DEF Within, Changed
      <3> QED BY <3>1, <3>4, <3>5 DEF LookedAt, Vetted, Judgement
    <2> QED BY <2>3, <2>4
  <1>3. CASE Validate
    <2>1. PICK l \in Litter, run \in Runs :
            /\ Look(l)
            /\ IF Passed(run) /\ Complete(files') THEN stage' = "rechecking" ELSE Again(attempt)
      BY <1>3 DEF Validate
    <2>2. stage = "validating" /\ UNCHANGED <<attempt, staged, gate>>
      BY <1>3 DEF Validate
    <2>3. files' \in [Path -> Texts \cup {Absent}] /\ left' \subseteq Path /\ Within'
      BY <2>1, LookIs
    <2>4. \/ stage' = "rechecking" /\ LookedAt'
          \/ stage' = IF attempt = MaxAttempts THEN "blocked" ELSE "proposing"
      <3>1. CASE Passed(run) /\ Complete(files')
        BY <2>1, <3>1, LookOnce
      <3>2. CASE ~(Passed(run) /\ Complete(files'))
        BY <2>1, <3>2 DEF Again
      <3> QED BY <3>1, <3>2
    <2>5. Typed'
      BY <2>2, <2>3, <2>4, GatesAssumption DEF Typed, Stages
    <2>6. LookedAt'
      BY <2>4 DEF LookedAt
    <2> QED BY <2>3, <2>4, <2>5, <2>6 DEF Vetted, Judgement
  <1>4. CASE Recheck
    <2>1. PICK l \in Litter, run \in Runs :
            Look(l) /\ stage' = IF Passed(run) THEN "committed" ELSE "blocked"
      BY <1>4 DEF Recheck
    <2>2. stage = "rechecking" /\ UNCHANGED <<attempt, staged, gate>>
      BY <1>4 DEF Recheck
    <2>3. files' \in [Path -> Texts \cup {Absent}] /\ left' \subseteq Path /\ Within'
      BY <2>1, LookIs
    <2>4. Typed'
      BY <2>1, <2>2, <2>3 DEF Typed, Stages
    <2>5. Vetted'
      <3>1. CASE Passed(run)
        BY <2>1, <2>2, <3>1, LookTwice
      <3>2. CASE ~Passed(run)
        BY <2>1, <3>2 DEF Vetted
      <3> QED BY <3>1, <3>2
    <2> QED BY <2>1, <2>3, <2>4, <2>5 DEF LookedAt, Judgement
  <1>5. CASE Inspect
    <2>1. stage = "committed" /\ stage' = "inspected" /\ UNCHANGED <<files, attempt, staged, left>>
      BY <1>5 DEF Inspect
    <2>2. PICK run \in Runs : gate' = GateFaults(files, run)
      BY <1>5 DEF Inspect
    <2>3. Typed'
      BY <2>1, <2>2, FaultsAre DEF Typed, Stages
    <2>4. Within' /\ LookedAt'
      BY <2>1 DEF Within, Changed, LookedAt
    <2>5. Vetted'
      BY <2>1 DEF Vetted, Changed, NoTests, Judged
    <2>6. Judgement'
      BY <2>1, <2>2 DEF Judgement
    <2> QED BY <2>3, <2>4, <2>5, <2>6
  <1>6. CASE UNCHANGED vars
    <2>1. UNCHANGED <<files, stage, attempt, staged, gate, left>>
      BY <1>6 DEF vars
    <2> QED BY <2>1 DEF Typed, Within, LookedAt, Vetted, Judgement, Changed, NoTests, Judged
  <1> QED BY <1>1, <1>2, <1>3, <1>4, <1>5, <1>6 DEF Next

\* From run_coding_graph's first proposal to inspect_candidate: texts stay
\* texts, only files that a candidate may change or the tests wrote differ from
\* the baseline and none is deleted, what is committed was looked at twice, and
\* what the gate says it says of what is in the files.
THEOREM GatesInvariance == Spec => []GatesInv
  BY InitInv, StepInv, PTL DEF Spec

\* The working tree, the contents still to be written and the gate's reasons are what they are taken for, whatever is proposed
\* (apply_coding_graph_edits, normalize_coding_whitespace).
THEOREM GatesTypeOK == Spec => []TypeOK
  <1>1. GatesInv => TypeOK
    BY GatesAssumption DEF GatesInv, Typed, TypeOK
  <1> QED BY <1>1, GatesInvariance, PTL

-----------------------------------------------------------------------------
(* A proposal and what is made of it. *)

\* What is staged and what has been written is one outcome of the proposal, for
\* the tree it was made for.
Carried ==
  /\ edits \in Seq(Edits)
  /\ \E shown \in SUBSET PathsOf(edits) : \E o \in Outcomes(before, Tracked, shown, edits) :
       /\ o # NothingNew
       /\ DOMAIN staged \subseteq PathsOf(edits)
       /\ staged = [q \in DOMAIN staged |-> o[q]]
       /\ \A p \in PathsOf(edits) \ DOMAIN staged : files[p] = o[p]

\* A proposal is carried while it is written, and has been when it is validated;
\* what validation finds in a restored tree is nobody's proposal.
Proposed ==
  /\ before \in [Path -> Texts \cup {Absent}]
  /\ stage = "writing" => Carried
  /\ stage = "validating" => edits = <<>> \/ (DOMAIN staged = {} /\ Carried)

\* At first nothing is proposed.
LEMMA ProposedInit == Init => Proposed
  <1> SUFFICES ASSUME Init PROVE Proposed
    OBVIOUS
  <1>1. before \in Restored /\ stage \in {"proposing", "validating"} /\ edits = <<>>
    BY DEF Init
  <1> QED BY <1>1, GatesAssumption DEF Proposed

\* A proposal is staged whole; each write takes one file from what is staged to
\* the tree, and leaves the others.
LEMMA ProposedStep == GatesInv /\ Proposed /\ [Next]_vars => Proposed'
  <1> SUFFICES ASSUME GatesInv, Proposed, [Next]_vars PROVE Proposed'
    OBVIOUS
  <1>0. files \in [Path -> Texts \cup {Absent}]
    BY DEF GatesInv, Typed
  <1>1. CASE Propose
    <2>1. /\ stage = "proposing" /\ files' = files /\ before' = TreeAsRead
          /\ TreeAsRead \in [Path -> Texts \cup {Absent}]
      BY <1>0, <1>1, TreeAsReadIs DEF Propose
    <2>2. PICK n \in 1..MaxEdits :
            \E es \in [1..n -> Edits] :
            \E shown \in SUBSET {es[i].path : i \in {j \in 1..n : es[j].op = "create"}} :
            \E o \in Outcomes(TreeAsRead, Tracked, shown, es) :
              IF o = NothingNew THEN Again(attempt + 1) /\ UNCHANGED <<staged, edits>>
              ELSE stage' = "writing" /\ staged' = o /\ edits' = es
      BY <1>1 DEF Propose
    <2>3. PICK es \in [1..n -> Edits] :
            \E shown \in SUBSET {es[i].path : i \in {j \in 1..n : es[j].op = "create"}} :
            \E o \in Outcomes(TreeAsRead, Tracked, shown, es) :
              IF o = NothingNew THEN Again(attempt + 1) /\ UNCHANGED <<staged, edits>>
              ELSE stage' = "writing" /\ staged' = o /\ edits' = es
      BY <2>2
    <2>4. PICK shown \in SUBSET {es[i].path : i \in {j \in 1..n : es[j].op = "create"}} :
            \E o \in Outcomes(TreeAsRead, Tracked, shown, es) :
              IF o = NothingNew THEN Again(attempt + 1) /\ UNCHANGED <<staged, edits>>
              ELSE stage' = "writing" /\ staged' = o /\ edits' = es
      BY <2>3
    <2>5. PICK o \in Outcomes(TreeAsRead, Tracked, shown, es) :
              IF o = NothingNew THEN Again(attempt + 1) /\ UNCHANGED <<staged, edits>>
              ELSE stage' = "writing" /\ staged' = o /\ edits' = es
      BY <2>4
    <2>6. es \in Seq(Edits) /\ shown \in SUBSET PathsOf(es)
      BY GatesAssumption DEF PathsOf
    <2>7. CASE o = NothingNew
      <3>1. stage' \in {"proposing", "blocked"}
        BY <2>5, <2>7 DEF Again
      <3> QED BY <1>0, <2>1, <3>1 DEF Proposed
    <2>8. CASE o # NothingNew
      <3>1. stage' = "writing" /\ staged' = o /\ edits' = es
        BY <2>5, <2>8
      <3>2. DOMAIN o = PathsOf(es) /\ o = [p \in PathsOf(es) |-> o[p]]
        BY <2>1, <2>6, <2>8, OutcomesAre
      <3>3. Carried'
        <4>1. o = [p \in DOMAIN o |-> o[p]]
          BY <3>2
        <4>2. /\ o \in Outcomes(before', Tracked, shown, edits')
              /\ DOMAIN staged' \subseteq PathsOf(edits')
              /\ staged' = [q \in DOMAIN staged' |-> o[q]]
              /\ \A p \in PathsOf(edits') \ DOMAIN staged' : files'[p] = o[p]
          BY <2>1, <3>1, <3>2, <4>1
        <4>3. edits' \in Seq(Edits) /\ shown \in SUBSET PathsOf(edits')
          BY <2>6, <3>1
        <4> QED BY <2>8, <4>2, <4>3 DEF Carried, Tracked
      <3> QED BY <1>0, <2>1, <3>1, <3>3 DEF Proposed
    <2> QED BY <2>7, <2>8
  <1>2. ASSUME NEW p \in Path, Write(p) PROVE Proposed'
    <2>1. stage = "writing" /\ p \in DOMAIN staged /\ before' = before
      BY <1>2 DEF Write
    <2>2. CASE p \in Unwritable
      <3>1. stage' \in {"proposing", "blocked"}
        BY <1>2, <2>2 DEF Write, Again
      <3> QED BY <2>1, <3>1 DEF Proposed
    <2>3. CASE p \notin Unwritable
      <3>1. /\ files' = [files EXCEPT ![p] = staged[p]]
            /\ staged' = [q \in DOMAIN staged \ {p} |-> staged[q]]
            /\ stage' = IF DOMAIN staged = {p} THEN "validating" ELSE "writing"
            /\ edits' = edits
        BY <1>2, <2>3 DEF Write
      <3>2. edits \in Seq(Edits)
        BY <2>1 DEF Proposed, Carried
      <3>3. PICK shown \in SUBSET PathsOf(edits) :
              \E o \in Outcomes(before, Tracked, shown, edits) :
                /\ o # NothingNew
                /\ DOMAIN staged \subseteq PathsOf(edits)
                /\ staged = [q \in DOMAIN staged |-> o[q]]
                /\ \A q \in PathsOf(edits) \ DOMAIN staged : files[q] = o[q]
        BY <2>1 DEF Proposed, Carried
      <3>4. PICK o \in Outcomes(before, Tracked, shown, edits) :
              /\ o # NothingNew
              /\ DOMAIN staged \subseteq PathsOf(edits)
              /\ staged = [q \in DOMAIN staged |-> o[q]]
              /\ \A q \in PathsOf(edits) \ DOMAIN staged : files[q] = o[q]
        BY <3>3
      <3>5. DOMAIN staged' = DOMAIN staged \ {p} /\ \A q \in DOMAIN staged : staged[q] = o[q]
        BY <3>1, <3>4
      <3>6. staged' = [q \in DOMAIN staged' |-> o[q]]
        BY <3>1, <3>5
      <3>7. \A q \in PathsOf(edits) \ DOMAIN staged' : files'[q] = o[q]
        <4> SUFFICES ASSUME NEW q \in PathsOf(edits), q \notin DOMAIN staged'
                     PROVE  files'[q] = o[q]
          OBVIOUS
        <4>1. CASE q = p
          <5>1. files'[p] = staged[p]
            BY <1>0, <3>1
          <5> QED BY <2>1, <3>5, <4>1, <5>1
        <4>2. CASE q # p
          <5>1. q \notin DOMAIN staged
            BY <3>5, <4>2
          <5>2. files[q] = o[q]
            BY <3>4, <5>1
          <5>3. q \in Path
            <6>1. DOMAIN o = PathsOf(edits) /\ DOMAIN o \subseteq Editable
              BY <3>2, <3>4, OutcomesAre DEF Proposed
            <6> QED BY <6>1, GatesAssumption
          <5>4. files'[q] = files[q]
            BY <1>0, <3>1, <4>2, <5>3
          <5> QED BY <5>2, <5>4
        <4> QED BY <4>1, <4>2
      <3>8. Carried'
        <4>1. /\ edits' \in Seq(Edits) /\ shown \in SUBSET PathsOf(edits')
              /\ o \in Outcomes(before', Tracked, shown, edits')
              /\ DOMAIN staged' \subseteq PathsOf(edits')
              /\ \A q \in PathsOf(edits') \ DOMAIN staged' : files'[q] = o[q]
          BY <2>1, <3>1, <3>2, <3>4, <3>5, <3>7
        <4> QED BY <3>4, <3>6, <4>1 DEF Carried, Tracked
      <3>9. stage' = "validating" => DOMAIN staged' = {}
        BY <3>1, <3>5
      <3> QED BY <2>1, <3>8, <3>9 DEF Proposed
    <2> QED BY <2>2, <2>3
  <1>3. ASSUME Validate \/ Recheck PROVE Proposed'
    <2>1. PICK l \in Litter : Look(l)
      BY <1>3 DEF Validate, Recheck
    <2>2. edits' = <<>> /\ before' = files'
      BY <2>1 DEF Look
    <2>3. files' \in [Path -> Texts \cup {Absent}]
      BY <2>1, LookIs DEF GatesInv
    <2>4. stage' # "writing"
      BY <1>3 DEF Validate, Recheck, Again
    <2> QED BY <2>2, <2>3, <2>4 DEF Proposed
  <1>4. CASE Inspect
    BY <1>4 DEF Inspect, Proposed
  <1>5. CASE UNCHANGED vars
    BY <1>5 DEF vars, Proposed, Carried
  <1> QED BY <1>1, <1>2, <1>3, <1>4, <1>5 DEF Next

\* From the moment a proposal is accepted until it is validated, what is staged
\* and what is already in the files make up one and the same outcome of it, the
\* one computed before anything was written (apply_coding_graph_edits).
THEOREM ProposalsCarried == Spec => []Proposed
  BY GatesInvariance, ProposedInit, ProposedStep, PTL DEF Spec

\* What an accepted proposal comes to it also comes to with its edits listed from
\* the back: the replacements of a file do not overlap, and are sorted before they
\* are made (apply_coding_graph_edits).
THEOREM ProposalsUnordered == Spec => []OrderIrrelevant
  <1>1. Proposed => OrderIrrelevant
    <2> SUFFICES ASSUME Proposed, stage = "writing", DOMAIN staged = PathsOf(edits)
                 PROVE  \E shown \in SUBSET PathsOf(edits) :
                          staged \in Outcomes(before, Tracked, shown, Reverse(edits))
      BY DEF OrderIrrelevant
    <2>1. edits \in Seq(Edits) /\ before \in [Path -> Texts \cup {Absent}]
      BY DEF Proposed, Carried
    <2>2. PICK shown \in SUBSET PathsOf(edits) :
            \E o \in Outcomes(before, Tracked, shown, edits) :
              o # NothingNew /\ staged = [q \in DOMAIN staged |-> o[q]]
      BY DEF Proposed, Carried
    <2>3. PICK o \in Outcomes(before, Tracked, shown, edits) :
            o # NothingNew /\ staged = [q \in DOMAIN staged |-> o[q]]
      BY <2>2
    <2>4. o = [q \in PathsOf(edits) |-> o[q]]
      BY <2>1, <2>3, OutcomesAre
    <2>5. o \in Outcomes(before, Tracked, shown, Reverse(edits))
      BY <2>1, <2>3, OutcomesReversed
    <2> QED BY <2>3, <2>4, <2>5
  <1> QED BY <1>1, ProposalsCarried, PTL

\* A proposal that was written has done what each of its edits asks: the lines an
\* edit adds are in its file when it is validated, however the place was found and
\* whatever the other edits moved, unless it was taken for made already
\* (apply_coding_graph_edits and its resolvers).
THEOREM EditsAreRealised == Spec => []EditsRealised
  <1>1. GatesInv /\ Proposed => EditsRealised
    <2> SUFFICES ASSUME Proposed, stage = "validating", NEW i \in DOMAIN edits,
                        Addition(edits[i]) # <<>>
                 PROVE  \/ /\ before[edits[i].path] # Absent
                            /\ Skipped \in Resolved(before[edits[i].path], edits[i])
                        \/ Hits(files[edits[i].path], Addition(edits[i])) # {}
      BY Zenon DEF EditsRealised
    <2> DEFINE p == edits[i].path
               es == EditsOf(edits, p)
               at == InOrder(PlacesOf(edits, p))
    <2>1. before \in [Path -> Texts \cup {Absent}] /\ Carried /\ DOMAIN staged = {}
      <3>1. edits # <<>>
        OBVIOUS
      <3> QED BY <3>1 DEF Proposed
    <2>2. edits \in Seq(Edits) /\ p \in PathsOf(edits)
      BY <2>1 DEF Carried, PathsOf
    <2>3. PICK shown \in SUBSET PathsOf(edits) :
            \E o \in Outcomes(before, Tracked, shown, edits) :
              o # NothingNew /\ \A q \in PathsOf(edits) \ DOMAIN staged : files[q] = o[q]
      BY <2>1 DEF Carried
    <2>4. PICK o \in Outcomes(before, Tracked, shown, edits) :
            o # NothingNew /\ \A q \in PathsOf(edits) \ DOMAIN staged : files[q] = o[q]
      BY <2>3
    <2>5. files[p] = o[p]
      <3> HIDE DEF p
      <3> QED BY <2>1, <2>2, <2>4
    <2>6. /\ PathsOf(edits) \subseteq Editable /\ o[p] \in Texts /\ o[p] # Refused
          /\ o[p] \in NewTexts(before[p], p \in Tracked, p \in shown, es)
      <3> HIDE DEF p
      <3> QED BY <2>1, <2>2, <2>4, OutcomesAre
    <2>7. before[p] \in Texts \cup {Absent}
      <3> HIDE DEF p
      <3> QED BY <2>1, <2>2, <2>6, GatesAssumption
    <2>8. PICK k \in 1..Len(es) : es[k] = edits[i]
      <3> DEFINE S == PlacesOf(edits, p)
                 m == Cardinality(S)
      <3>1. /\ m \in Nat /\ at \in [1..m -> S] /\ Range(at) = S
            /\ es = [j \in 1..m |-> edits[at[j]]]
        BY <2>2, EditsAt
      <3>2. i \in S
        BY DEF PlacesOf
      <3> HIDE DEF S, m, at, es
      <3>3. PICK k \in 1..m : at[k] = i
        BY <3>1, <3>2 DEF Range
      <3>4. Len(es) = m /\ es[k] = edits[i]
        BY <3>1, <3>3
      <3> QED BY <3>4
    <2>9. es \in Seq(Edits)
      BY <2>2, EditsOfIs
    <2> DEFINE old == before[p]
               a == p \in Tracked
               b == p \in shown
               r == o[p]
    <2>10. /\ old \in Texts \cup {Absent} /\ es \in Seq(Edits) /\ r \in NewTexts(old, a, b, es)
           /\ r # Refused /\ k \in 1..Len(es) /\ Addition(es[k]) # <<>>
      BY <2>6, <2>7, <2>8, <2>9
    <2> HIDE DEF old, a, b, r, es
    <2>11. \/ old # Absent /\ Skipped \in Resolved(old, es[k])
           \/ Hits(r, Addition(es[k])) # {}
      BY <2>10, NewTextsHold
    <2> QED BY <2>5, <2>8, <2>11 DEF old, r
  <1> QED BY <1>1, GatesInvariance, ProposalsCarried, PTL

-----------------------------------------------------------------------------
(* The gate and the lab. *)

\* A new file that is settled and has no marks is tidy, unless its lines end with
\* carriage returns.
LEMMA SettledIsTidy ==
  ASSUME NEW t \in Texts, Settled(t), Untidy(t, Absent), ~Has(t, Marked)
  PROVE  \A i \in DOMAIN t : t[i].end = "cr"
  <1> SUFFICES ASSUME NEW k \in DOMAIN t, t[k].end # "cr" PROVE FALSE
    OBVIOUS
  <1>1. Len(t) \in Nat /\ DOMAIN t = 1..Len(t)
    BY DEF Texts
  <1>2. \A i \in DOMAIN t : t[i].end = "lf" /\ t[i].word \notin Marked
    BY DEF Settled, Even, Has
  <1>3. EmptyAtEnd(t) > EmptyAtEnd(<<>>)
    <2>1. EmptyAtEnd(t) > EmptyAtEnd(LinesOf(Absent))
      BY <1>2 DEF Untidy
    <2> QED BY <2>1 DEF LinesOf
  <1>4. Len(t) # 0 /\ t[Len(t)].word # Empty
    <2>1. Len(t) # 0
      BY <1>1
    <2> QED BY <2>1, <1>1 DEF Settled
  <1> DEFINE S == {0} \cup {i \in DOMAIN t : t[i].word # Empty}
             T == {0} \cup {i \in DOMAIN <<>> : <<>>[i].word # Empty}
  <1>5. S \in SUBSET (0..Len(t)) /\ Len(t) \in S /\ T = {0}
    BY <1>1, <1>4
  <1>6. EmptyAtEnd(t) = Len(t) - Longest(S) /\ EmptyAtEnd(<<>>) = 0 - Longest(T)
    BY DEF EmptyAtEnd
  <1> HIDE DEF S, T
  <1>7. Longest(S) \in S /\ Len(t) <= Longest(S)
    BY <1>1, <1>5, LongestIs
  <1>8. Longest(T) = 0
    BY <1>5, LongestIs
  <1>9. Longest(S) \in Int /\ Longest(S) <= Len(t)
    <2>1. \A i \in 0..Len(t) : i \in Int /\ i <= Len(t)
      BY <1>1
    <2> QED BY <2>1, <1>5, <1>7, Zenon
  <1> QED BY <1>1, <1>3, <1>6, <1>7, <1>8, <1>9

\* Each of the lab's checks covers the gate's of the same name, save for what the
\* tests wrote and files git has not been told of.
LEMMA InspectedUnseen ==
  GatesInv => GateRejectsUnseen
  <1> SUFFICES ASSUME GatesInv, stage = "inspected", NEW x \in gate, x \notin {"quality", "pytest"}
               PROVE  x \in Unseen
    BY DEF GateRejectsUnseen
  <1>1. PICK run \in Runs : gate = GateFaults(files, run)
    BY DEF GatesInv, Judgement
  <1>2. /\ Changed(files) \cap Tests = {} => left \cap Tests # {}
        /\ ~NoTests(files)
        /\ \A p \in Changed(files) \ left :
             /\ p \in SourceLike /\ Treated(files[p]) => Settled(files[p])
             /\ p \in Tracked => ~Untidy(files[p], Baseline[p])
             /\ p \in Python => Parses(files[p])
    BY DEF GatesInv, Vetted
  <1>3. \A p \in Changed(files) : /\ p \in Path /\ files[p] \in Texts
                                  /\ p \in Allowed \/ p \in left
    BY DEF GatesInv, Typed, Within, Changed
  <1>4. \A p \in Changed(files) : LinesOf(files[p]) = files[p]
    BY <1>3, EditsAssumption DEF LinesOf
  <1>5. \/ x \in {"files", "link", "size", "secret"}
        \/ x = "path" /\ ~Changed(files) \subseteq Allowed
        \/ x = "evidence" /\ Changed(files) \cap Tests = {}
        \/ x = "diff_check" /\ \E p \in Changed(files) : Untidy(LinesOf(files[p]), Baseline[p])
        \/ x = "parse" /\ \E p \in Changed(files) \cap (Python \cup Json) : ~Parses(files[p])
    <2> DEFINE stored == {p \in Changed(files) : files[p] # Absent /\ ~Has(files[p], Links)}
               read == {p \in stored : Small(files[p])}
    <2>1. \/ x \in {"files", "link", "size", "secret"}
          \/ x = "path" /\ ~Changed(files) \subseteq Allowed
          \/ x = "evidence" /\ Changed(files) \cap Tests = {}
          \/ x = "diff_check" /\ \E p \in Changed(files) : Untidy(LinesOf(files[p]), Baseline[p])
          \/ x = "parse" /\ \E p \in read \cap (Python \cup Json) : ~Parses(files[p])
          \/ x = "no_tests" /\ NoTests(files)
      <3>1. x \in GateFaults(files, run) /\ x # "quality" /\ x # "pytest"
        BY <1>1
      <3> QED BY <3>1, Zenon DEF GateFaults
    <2>2. read \subseteq Changed(files)
      OBVIOUS
    <2> HIDE DEF read
    <2> QED BY <2>1, <2>2, <1>2
  <1>6. CASE x \in {"files", "link", "size", "secret"}
    BY <1>6 DEF Unseen
  <1>7. CASE x = "path" /\ ~Changed(files) \subseteq Allowed
    <2>1. ~left \subseteq Allowed
      BY <1>3, <1>7
    <2> QED BY <1>7, <2>1 DEF Unseen
  <1>8. CASE x = "evidence" /\ Changed(files) \cap Tests = {}
    <2>1. left \cap Tests # {}
      BY <1>2, <1>8
    <2> QED BY <1>8, <2>1 DEF Unseen
  <1>9. CASE x = "diff_check" /\ \E p \in Changed(files) : Untidy(LinesOf(files[p]), Baseline[p])
    <2>1. PICK p \in Changed(files) : Untidy(files[p], Baseline[p])
      BY <1>4, <1>9
    <2>2. Spoilt(p)
      <3> SUFFICES ASSUME p \notin left, p \notin Tracked => p \in SourceLike,
                          Treated(files[p]), ~Has(files[p], Marked)
                   PROVE  p \notin Tracked /\ \A i \in DOMAIN files[p] : files[p][i].end = "cr"
        <4>1. p \notin Tracked \/ p \in left
          BY <2>1, <1>2
        <4> QED BY <4>1 DEF Spoilt
      <3>1. p \notin Tracked
        BY <2>1, <1>2
      <3>2. Baseline[p] = Absent
        BY <3>1, <1>3 DEF Tracked
      <3>3. Settled(files[p])
        BY <3>1, <1>2
      <3>4. \A i \in DOMAIN files[p] : files[p][i].end = "cr"
        BY <2>1, <3>2, <3>3, <1>3, SettledIsTidy
      <3> QED BY <3>1, <3>4
    <2> QED BY <1>9, <2>2 DEF Unseen
  <1>10. CASE x = "parse" /\ \E p \in Changed(files) \cap (Python \cup Json) : ~Parses(files[p])
    <2>1. PICK p \in Changed(files) \cap (Python \cup Json) : ~Parses(files[p])
      BY <1>10
    <2>2. p \in (Json \cup left) \cap Changed(files)
      BY <2>1, <1>2
    <2>3. \E q \in (Json \cup left) \cap Changed(files) : ~Parses(files[q])
      BY <2>1, <2>2
    <2> QED BY <1>10, <2>3 DEF Unseen
  <1> QED BY <1>5, <1>6, <1>7, <1>8, <1>9, <1>10

\* What validate_coding_candidate passed, inspect_candidate rejects only for what
\* the lab does not look at, for what the tests wrote, and for white space in new
\* files where normalisation leaves it; what the tests and the quality gate's
\* tools say when they are asked again is left open.
THEOREM GateAgreesWithLab == Spec => []GateRejectsUnseen
  BY InspectedUnseen, GatesInvariance, PTL

-----------------------------------------------------------------------------
(* What difflib keeps. *)

\* The lines K of b, all from j to before jj, are found in a, each in a place
\* of its own from i to before ii.
Matched(a, b, K, i, ii, j, jj) ==
  /\ K \subseteq j..(jj - 1)
  /\ \E g \in [K -> i..(ii - 1)] :
       /\ \A x, y \in K : x # y => g[x] # g[y]
       /\ \A x \in K : a[g[x]] = b[x]

\* Matches before a common block, in it, and behind it make one match.
LEMMA MatchedJoin ==
  ASSUME NEW a, NEW b, NEW i \in Nat, NEW ii \in Nat, NEW j \in Nat, NEW jj \in Nat,
         NEW u \in Nat, NEW v \in Nat, NEW n \in Nat \ {0},
         i <= u, u + n <= ii, j <= v, v + n <= jj,
         \A d \in 0..(n - 1) : a[u + d] = b[v + d],
         NEW K, Matched(a, b, K, i, u, j, v),
         NEW L, Matched(a, b, L, u + n, ii, v + n, jj)
  PROVE  Matched(a, b, K \cup v..(v + n - 1) \cup L, i, ii, j, jj)
  <1>1. PICK f \in [K -> i..(u - 1)] :
          (\A x, y \in K : x # y => f[x] # f[y]) /\ \A x \in K : a[f[x]] = b[x]
    BY DEF Matched
  <1>2. PICK h \in [L -> (u + n)..(ii - 1)] :
          (\A x, y \in L : x # y => h[x] # h[y]) /\ \A x \in L : a[h[x]] = b[x]
    BY DEF Matched
  <1>3. K \subseteq j..(v - 1) /\ L \subseteq (v + n)..(jj - 1)
    BY DEF Matched
  <1> DEFINE M == v..(v + n - 1)
             A == K \cup M \cup L
             g == [x \in A |-> IF x < v THEN f[x] ELSE IF x < v + n THEN u + (x - v) ELSE h[x]]
  <1>4. /\ \A x \in K : x \in Int /\ x < v /\ x >= j
        /\ \A x \in M : x \in Int /\ x >= v /\ x < v + n
        /\ \A x \in L : x \in Int /\ x >= v + n /\ x < jj
    BY <1>3
  <1>5. \A x \in K : x \in A /\ g[x] = f[x] /\ f[x] \in i..(u - 1)
    BY <1>1, <1>4
  <1>6. \A x \in M : x \in A /\ g[x] = u + (x - v)
    BY <1>4
  <1>7. \A x \in L : x \in A /\ g[x] = h[x] /\ h[x] \in (u + n)..(ii - 1)
    <2>1. \A x \in L : ~(x < v) /\ ~(x < v + n)
      BY <1>4
    <2> QED BY <1>2, <2>1
  <1>8. A \subseteq j..(jj - 1)
    BY <1>4
  <1> HIDE DEF g
  <1>9. ASSUME NEW x \in A PROVE g[x] \in i..(ii - 1) /\ a[g[x]] = b[x]
    <2>1. CASE x \in K
      BY <2>1, <1>1, <1>5
    <2>2. CASE x \in M
      <3>1. x - v \in 0..(n - 1) /\ v + (x - v) = x
        BY <2>2, <1>4
      <3>2. a[u + (x - v)] = b[v + (x - v)]
        BY <3>1
      <3> QED BY <2>2, <1>6, <3>1, <3>2
    <2>3. CASE x \in L
      BY <2>3, <1>2, <1>7
    <2> QED BY <2>1, <2>2, <2>3
  <1>10. g \in [A -> i..(ii - 1)]
    <2>1. g = [x \in A |-> g[x]]
      BY DEF g
    <2> HIDE DEF A
    <2> QED BY <2>1, <1>9
  <1>11. ASSUME NEW x \in A, NEW y \in A, x # y PROVE g[x] # g[y]
    <2>1. CASE x \in K /\ y \in K
      BY <2>1, <1>11, <1>1, <1>5
    <2>2. CASE x \in M /\ y \in M
      BY <2>2, <1>11, <1>4, <1>6
    <2>3. CASE x \in L /\ y \in L
      BY <2>3, <1>11, <1>2, <1>7
    <2>4. \A z \in K : g[z] \in Int /\ g[z] < u
      BY <1>5
    <2>5. \A z \in M : g[z] \in Int /\ g[z] >= u /\ g[z] < u + n
      BY <1>4, <1>6
    <2>6. \A z \in L : g[z] \in Int /\ g[z] >= u + n
      BY <1>7
    <2> HIDE DEF M
    <2> QED BY <2>1, <2>2, <2>3, <2>4, <2>5, <2>6
  <1> HIDE DEF A
  <1>12. Matched(a, b, A, i, ii, j, jj)
    BY <1>8, <1>9, <1>10, <1>11 DEF Matched
  <1> QED BY <1>12 DEF A

\* The longest block, and the earliest of the longest, exists.
LEMMA BestExists ==
  ASSUME NEW n \in Nat, NEW S \in SUBSET ((0..n) \X (0..n) \X (0..n)), S # {}
  PROVE  \E x \in S : \A y \in S :
           \/ x[3] > y[3]
           \/ x[3] = y[3] /\ x[1] < y[1]
           \/ x[3] = y[3] /\ x[1] = y[1] /\ x[2] <= y[2]
  <1> DEFINE T == {x[3] : x \in S}
  <1>1. PICK k \in T : \A m \in T : m <= k
    <2>1. T \in SUBSET (0..n) /\ T # {}
      OBVIOUS
    <2> HIDE DEF T
    <2> QED BY <2>1, LargestExists
  <1> DEFINE U == {x[1] : x \in {y \in S : y[3] = k}}
  <1>2. PICK i \in U : \A m \in U : i <= m
    <2>1. U \in SUBSET (0..n) /\ U # {}
      OBVIOUS
    <2> HIDE DEF U
    <2> QED BY <2>1, SmallestExists
  <1> DEFINE V == {x[2] : x \in {y \in S : y[3] = k /\ y[1] = i}}
  <1>3. PICK j \in V : \A m \in V : j <= m
    <2>1. V \in SUBSET (0..n) /\ V # {}
      OBVIOUS
    <2> HIDE DEF V
    <2> QED BY <2>1, SmallestExists
  <1>4. PICK x \in S : x[3] = k /\ x[1] = i /\ x[2] = j
    OBVIOUS
  <1>5. ASSUME NEW y \in S
        PROVE  \/ x[3] > y[3]
               \/ x[3] = y[3] /\ x[1] < y[1]
               \/ x[3] = y[3] /\ x[1] = y[1] /\ x[2] <= y[2]
    <2>1. /\ y[1] \in Nat /\ y[2] \in Nat /\ y[3] \in Nat
          /\ x[1] \in Nat /\ x[2] \in Nat /\ x[3] \in Nat
      OBVIOUS
    <2>2. y[3] <= k
      BY <1>1
    <2>3. y[3] = k => i <= y[1]
      BY <1>2
    <2>4. y[3] = k /\ y[1] = i => j <= y[2]
      BY <1>3
    <2> QED BY <2>1, <2>2, <2>3, <2>4, <1>4
  <1> QED BY <1>5

\* Places inside a window are places of the text.
LEMMA Inside ==
  ASSUME NEW m \in Nat, NEW u \in 1..(m + 1), NEW v \in 1..(m + 1),
         NEW p \in Nat, NEW n \in Nat \ {0}, u <= p, p + n <= v
  PROVE  p \in 1..(m + 1) /\ p + n \in 1..(m + 1) /\ p \in Nat \ {0} /\ p + n - 1 <= m
  OBVIOUS

\* Where slices agree, so do their lines.
LEMMA SliceAt ==
  ASSUME NEW t \in Texts, NEW p \in Nat \ {0}, NEW n \in Nat, p + n - 1 <= Len(t),
         NEW d \in 0..(n - 1)
  PROVE  Slice(t, p, n)[d + 1] = t[p + d]
  <1> DEFINE e == p + n - 1
             x == d + 1
  <1>1. e \in Int /\ p \in Int /\ \A i \in p..e : t[i] \in Line
    BY DEF Texts
  <1>2. x \in 1..(e - p + 1) /\ p + x - 1 = p + d
    OBVIOUS
  <1>3. Slice(t, p, n) = SubSeq(t, p, e)
    BY DEF Slice
  <1> HIDE DEF e, x
  <1>4. SubSeq(t, p, e)[x] = t[p + x - 1]
    BY <1>1, <1>2, SubSeqProperties
  <1>5. Slice(t, p, n)[x] = t[p + d]
    BY <1>2, <1>3, <1>4
  <1> QED BY <1>5 DEF x

\* By induction on the lines of a in a window: the recursion of Kept is on
\* windows that are smaller by the block in common, which is never empty.
LEMMA KeptMatched ==
  ASSUME NEW a \in Texts, NEW b \in Texts
  PROVE  Matched(a, b, Kept(a, b), 1, Len(a) + 1, 1, Len(b) + 1)
  <1> DEFINE Bounds(n) == 1..(n + 1)
             W == Bounds(Len(a)) \X Bounds(Len(a)) \X Bounds(Len(b)) \X Bounds(Len(b))
             Blocks(w) == {x \in (w[1]..w[2]) \X (w[3]..w[4]) \X (1..Len(b)) :
                             /\ x[1] + x[3] <= w[2] /\ x[2] + x[3] <= w[4]
                             /\ Slice(a, x[1], x[3]) = Slice(b, x[2], x[3])}
             Best(w) == CHOOSE x \in Blocks(w) : \A y \in Blocks(w) :
                          \/ x[3] > y[3]
                          \/ x[3] = y[3] /\ x[1] < y[1]
                          \/ x[3] = y[3] /\ x[1] = y[1] /\ x[2] <= y[2]
             Left(w) == <<w[1], Best(w)[1], w[3], Best(w)[2]>>
             Right(w) == <<Best(w)[1] + Best(w)[3], w[2], Best(w)[2] + Best(w)[3], w[4]>>
             Mid(w) == Best(w)[2]..(Best(w)[2] + Best(w)[3] - 1)
             Rec(f, w) == IF Blocks(w) = {} THEN {}
                          ELSE f[Left(w)] \cup Mid(w) \cup f[Right(w)]
             kept == CHOOSE f : f = [w \in W |-> Rec(f, w)]
             top == <<1, Len(a) + 1, 1, Len(b) + 1>>
             Lines(w) == w[2] - w[1]
             Good(w, K) == Matched(a, b, K, w[1], w[2], w[3], w[4])
  <1>1. Kept(a, b) = kept[top]
    BY DEF Kept
  <1>2. Len(a) \in Nat /\ Len(b) \in Nat
    BY DEF Texts
  <1>3. top \in W /\ Lines(top) = Len(a)
    BY <1>2
  <1>4. ASSUME NEW w \in W
        PROVE  /\ w[1] \in 1..(Len(a) + 1) /\ w[2] \in 1..(Len(a) + 1)
               /\ w[3] \in 1..(Len(b) + 1) /\ w[4] \in 1..(Len(b) + 1)
               /\ Lines(w) \in Int /\ Lines(w) <= Len(a)
    BY <1>2
  <1>5. ASSUME NEW w \in W, Blocks(w) # {}
        PROVE  /\ Best(w) \in Blocks(w)
               /\ Best(w)[1] \in Nat /\ Best(w)[2] \in Nat /\ Best(w)[3] \in Nat \ {0}
               /\ w[1] <= Best(w)[1] /\ Best(w)[1] + Best(w)[3] <= w[2]
               /\ w[3] <= Best(w)[2] /\ Best(w)[2] + Best(w)[3] <= w[4]
               /\ Slice(a, Best(w)[1], Best(w)[3]) = Slice(b, Best(w)[2], Best(w)[3])
    <2>1. Best(w) \in Blocks(w)
      <3> DEFINE n == Len(a) + Len(b) + 1
      <3>1. n \in Nat
        BY <1>2
      <3>2. Blocks(w) \in SUBSET ((0..n) \X (0..n) \X (0..n))
        <4>1. /\ w[1] \in 1..(Len(a) + 1) /\ w[2] \in 1..(Len(a) + 1)
              /\ w[3] \in 1..(Len(b) + 1) /\ w[4] \in 1..(Len(b) + 1)
          BY <1>4
        <4>2. (w[1]..w[2]) \subseteq 0..n /\ (w[3]..w[4]) \subseteq 0..n /\ 1..Len(b) \subseteq 0..n
          BY <4>1, <1>2
        <4> HIDE DEF n
        <4> QED BY <4>2
      <3> HIDE DEF n, Blocks
      <3>3. \E x \in Blocks(w) : \A y \in Blocks(w) :
              \/ x[3] > y[3]
              \/ x[3] = y[3] /\ x[1] < y[1]
              \/ x[3] = y[3] /\ x[1] = y[1] /\ x[2] <= y[2]
        BY <1>5, <3>1, <3>2, BestExists
      <3> QED BY <3>3
    <2> DEFINE x == Best(w)
    <2>2. /\ x[1] \in w[1]..w[2] /\ x[2] \in w[3]..w[4] /\ x[3] \in 1..Len(b)
          /\ x[1] + x[3] <= w[2] /\ x[2] + x[3] <= w[4]
          /\ Slice(a, x[1], x[3]) = Slice(b, x[2], x[3])
      <3> HIDE DEF Best
      <3> QED BY <2>1
    <2>3. /\ w[1] \in Nat /\ w[2] \in Nat /\ w[3] \in Nat /\ w[4] \in Nat
      BY <1>4
    <2>4. /\ x[1] \in Nat /\ x[2] \in Nat /\ x[3] \in Nat \ {0}
          /\ w[1] <= x[1] /\ w[3] <= x[2]
      <3> HIDE DEF x, W, Blocks
      <3> QED BY <2>2, <2>3, <1>2
    <2> HIDE DEF Best, W, Blocks
    <2> QED BY <2>1, <2>2, <2>4, Zenon
  <1>6. ASSUME NEW w \in W, Blocks(w) # {}
        PROVE  /\ Left(w) \in W /\ Lines(Left(w)) < Lines(w)
               /\ Right(w) \in W /\ Lines(Right(w)) < Lines(w)
    <2> DEFINE p == Best(w)[1]
               q == Best(w)[2]
               n == Best(w)[3]
    <2>1. /\ p \in Nat /\ q \in Nat /\ n \in Nat \ {0}
          /\ w[1] <= p /\ p + n <= w[2] /\ w[3] <= q /\ q + n <= w[4]
      BY <1>6, <1>5
    <2>2. /\ w[1] \in 1..(Len(a) + 1) /\ w[2] \in 1..(Len(a) + 1)
          /\ w[3] \in 1..(Len(b) + 1) /\ w[4] \in 1..(Len(b) + 1)
      BY <1>4
    <2>3. Left(w) = <<w[1], p, w[3], q>> /\ Right(w) = <<p + n, w[2], q + n, w[4]>>
      OBVIOUS
    <2>4. /\ p \in 1..(Len(a) + 1) /\ q \in 1..(Len(b) + 1)
          /\ p + n \in 1..(Len(a) + 1) /\ q + n \in 1..(Len(b) + 1)
      <3> DEFINE i == w[1]
                 ii == w[2]
                 j == w[3]
                 jj == w[4]
                 A == Len(a)
                 B == Len(b)
      <3>1. /\ i \in 1..(A + 1) /\ ii \in 1..(A + 1) /\ i <= p /\ p + n <= ii
            /\ j \in 1..(B + 1) /\ jj \in 1..(B + 1) /\ j <= q /\ q + n <= jj
            /\ p \in Nat /\ q \in Nat /\ n \in Nat \ {0} /\ A \in Nat /\ B \in Nat
        BY <2>1, <2>2, <1>2
      <3> HIDE DEF p, q, n, i, ii, j, jj, A, B
      <3>2. /\ p \in 1..(A + 1) /\ q \in 1..(B + 1)
            /\ p + n \in 1..(A + 1) /\ q + n \in 1..(B + 1)
        BY <3>1, Inside
      <3> QED BY <3>2 DEF A, B
    <2> HIDE DEF p, q, n, Left, Right
    <2>5. Left(w) \in W /\ Right(w) \in W
      BY <2>2, <2>3, <2>4
    <2>6. Lines(Left(w)) < Lines(w) /\ Lines(Right(w)) < Lines(w)
      <3> HIDE DEF W
      <3> QED BY <2>1, <2>2, <2>3, <2>4, <1>2
    <2> QED BY <2>5, <2>6
  <1>7. ASSUME NEW w \in W, Lines(w) <= 0 PROVE Blocks(w) = {}
    <2>1. w[1] \in Nat /\ w[2] \in Nat
      BY <1>4
    <2> SUFFICES ASSUME Blocks(w) # {} PROVE FALSE
      OBVIOUS
    <2>2. /\ Best(w)[1] \in Nat /\ Best(w)[3] \in Nat \ {0}
          /\ w[1] <= Best(w)[1] /\ Best(w)[1] + Best(w)[3] <= w[2]
      BY <1>5
    <2> HIDE DEF Best, W, Blocks
    <2> QED BY <2>1, <2>2, <1>7
  <1> HIDE DEF Blocks, Best, Left, Right, Mid, W, top
  <1>8. kept = [w \in W |-> Rec(kept, w)]
    <2> DEFINE F(f) == f = [w \in W |-> f[w]]
               M == {m \in Nat : \E f : F(f) /\ \A w \in W : Lines(w) <= m => f[w] = Rec(f, w)}
    <2>1. 0 \in M
      <3> DEFINE g == [w \in W |-> {}]
      <3>1. F(g)
        OBVIOUS
      <3>2. \A w \in W : Lines(w) <= 0 => g[w] = Rec(g, w)
        <4> HIDE DEF Lines
        <4> QED BY <1>7
      <3> HIDE DEF g, F, Rec, Lines
      <3> QED BY <3>1, <3>2
    <2>2. ASSUME NEW m \in Nat, m \in M PROVE m + 1 \in M
      <3>1. PICK f : F(f) /\ \A w \in W : Lines(w) <= m => f[w] = Rec(f, w)
        BY <2>2
      <3> DEFINE g == [w \in W |-> Rec(f, w)]
      <3>2. F(g)
        <4> HIDE DEF Rec
        <4> QED OBVIOUS
      <3>3. ASSUME NEW w \in W, Lines(w) <= m + 1 PROVE g[w] = Rec(g, w)
        <4>1. CASE Blocks(w) = {}
          BY <4>1
        <4>2. CASE Blocks(w) # {}
          <5>1. /\ Left(w) \in W /\ Lines(Left(w)) < Lines(w)
                /\ Right(w) \in W /\ Lines(Right(w)) < Lines(w)
            BY <4>2, <1>6
          <5>2. Lines(w) \in Int /\ Lines(Left(w)) \in Int /\ Lines(Right(w)) \in Int
            <6> HIDE DEF Lines
            <6> QED BY <5>1, <1>4
          <5>3. Lines(Left(w)) <= m /\ Lines(Right(w)) <= m
            <6> HIDE DEF Lines
            <6> QED BY <5>1, <5>2, <3>3
          <5>4. g[Left(w)] = f[Left(w)] /\ g[Right(w)] = f[Right(w)]
            <6> HIDE DEF Lines, Rec
            <6> QED BY <5>1, <5>3, <3>1
          <5>5. Rec(g, w) = Rec(f, w)
            <6> HIDE DEF g
            <6> QED BY <5>4
          <5> HIDE DEF Rec
          <5> QED BY <5>5
        <4> QED BY <4>1, <4>2
      <3> HIDE DEF g, F, Rec, Lines
      <3> QED BY <3>2, <3>3
    <2>3. Len(a) \in M
      <3> HIDE DEF M
      <3> QED BY <1>2, <2>1, <2>2, SetInduction
    <2>4. PICK f : F(f) /\ \A w \in W : Lines(w) <= Len(a) => f[w] = Rec(f, w)
      <3> HIDE DEF F, Rec, Lines
      <3> QED BY <2>3
    <2>5. \A w \in W : f[w] = Rec(f, w)
      <3> HIDE DEF F, Rec, Lines
      <3> QED BY <2>4, <1>4
    <2>6. f = [w \in W |-> Rec(f, w)]
      <3> HIDE DEF Rec
      <3> QED BY <2>4, <2>5
    <2> HIDE DEF Rec
    <2> QED BY <2>6
  <1>9. \A w \in W : kept[w] = Rec(kept, w)
    <2> HIDE DEF Rec, kept
    <2> QED BY <1>8
  <1> HIDE DEF kept
  <1> DEFINE Q == {m \in Nat : \A w \in W : Lines(w) <= m => Good(w, kept[w])}
  <1>10. ASSUME NEW w \in W, Blocks(w) = {} PROVE Good(w, kept[w])
    <2>1. kept[w] = {}
      BY <1>9, <1>10
    <2>2. \A g : g = [x \in {} |-> 0] => g \in [{} -> w[1]..(w[2] - 1)]
      OBVIOUS
    <2>3. [x \in {} |-> 0] \in [{} -> w[1]..(w[2] - 1)]
      OBVIOUS
    <2> QED BY <2>1, <2>3 DEF Matched
  <1>11. 0 \in Q
    <2> HIDE DEF Lines, Good
    <2> QED BY <1>7, <1>10
  <1>12. ASSUME NEW m \in Nat, m \in Q PROVE m + 1 \in Q
    <2> SUFFICES ASSUME NEW w \in W, Lines(w) <= m + 1 PROVE Good(w, kept[w])
      <3> HIDE DEF Lines, Good
      <3> QED OBVIOUS
    <2>1. CASE Blocks(w) = {}
      BY <2>1, <1>10
    <2>2. CASE Blocks(w) # {}
      <3> DEFINE p == Best(w)[1]
                 q == Best(w)[2]
                 n == Best(w)[3]
      <3>1. /\ Left(w) \in W /\ Lines(Left(w)) < Lines(w)
            /\ Right(w) \in W /\ Lines(Right(w)) < Lines(w)
        BY <2>2, <1>6
      <3>2. Lines(Left(w)) <= m /\ Lines(Right(w)) <= m
        <4>1. Lines(w) \in Int /\ Lines(Left(w)) \in Int /\ Lines(Right(w)) \in Int
          <5> HIDE DEF Lines
          <5> QED BY <3>1, <1>4
        <4> HIDE DEF Lines
        <4> QED BY <3>1, <4>1
      <3>3. Good(Left(w), kept[Left(w)]) /\ Good(Right(w), kept[Right(w)])
        <4> HIDE DEF Lines, Good
        <4> QED BY <1>12, <3>1, <3>2
      <3>4. /\ Matched(a, b, kept[Left(w)], w[1], p, w[3], q)
            /\ Matched(a, b, kept[Right(w)], p + n, w[2], q + n, w[4])
        BY <3>3 DEF Left, Right
      <3>5. /\ p \in Nat /\ q \in Nat /\ n \in Nat \ {0}
            /\ w[1] <= p /\ p + n <= w[2] /\ w[3] <= q /\ q + n <= w[4]
            /\ Slice(a, p, n) = Slice(b, q, n)
        BY <2>2, <1>5
      <3>6. /\ w[1] \in 1..(Len(a) + 1) /\ w[2] \in 1..(Len(a) + 1)
            /\ w[3] \in 1..(Len(b) + 1) /\ w[4] \in 1..(Len(b) + 1)
        BY <1>4
      <3>7. kept[w] = kept[Left(w)] \cup q..(q + n - 1) \cup kept[Right(w)]
        BY <2>2, <1>9 DEF Mid
      <3> HIDE DEF p, q, n
      <3>8. ASSUME NEW d \in 0..(n - 1) PROVE a[p + d] = b[q + d]
        <4>1. /\ p \in Nat \ {0} /\ p + n - 1 <= Len(a)
              /\ q \in Nat \ {0} /\ q + n - 1 <= Len(b)
          <5> DEFINE i == w[1]
                     ii == w[2]
                     j == w[3]
                     jj == w[4]
                     A == Len(a)
                     B == Len(b)
          <5>1. /\ i \in 1..(A + 1) /\ ii \in 1..(A + 1) /\ i <= p /\ p + n <= ii
                /\ j \in 1..(B + 1) /\ jj \in 1..(B + 1) /\ j <= q /\ q + n <= jj
                /\ p \in Nat /\ q \in Nat /\ n \in Nat \ {0} /\ A \in Nat /\ B \in Nat
            BY <3>5, <3>6, <1>2
          <5> HIDE DEF i, ii, j, jj, A, B
          <5>2. /\ p \in Nat \ {0} /\ p + n - 1 <= A
                /\ q \in Nat \ {0} /\ q + n - 1 <= B
            BY <5>1, Inside
          <5> QED BY <5>2 DEF A, B
        <4>2. Slice(a, p, n)[d + 1] = a[p + d] /\ Slice(b, q, n)[d + 1] = b[q + d]
          BY <3>5, <4>1, SliceAt
        <4> QED BY <3>5, <4>2
      <3> DEFINE i == w[1]
                 ii == w[2]
                 j == w[3]
                 jj == w[4]
                 K == kept[Left(w)]
                 L == kept[Right(w)]
      <3>9. i \in Nat /\ ii \in Nat /\ j \in Nat /\ jj \in Nat
        BY <3>6
      <3>10. /\ i <= p /\ p + n <= ii /\ j <= q /\ q + n <= jj
             /\ Matched(a, b, K, i, p, j, q) /\ Matched(a, b, L, p + n, ii, q + n, jj)
        BY <3>4, <3>5
      <3> HIDE DEF i, ii, j, jj, K, L
      <3>11. Matched(a, b, K \cup q..(q + n - 1) \cup L, i, ii, j, jj)
        BY <3>5, <3>8, <3>9, <3>10, MatchedJoin
      <3> QED BY <3>7, <3>11 DEF i, ii, j, jj, K, L
    <2> QED BY <2>1, <2>2
  <1>13. Len(a) \in Q
    <2> HIDE DEF Q
    <2> QED BY <1>2, <1>11, <1>12, SetInduction
  <1>14. Good(top, kept[top])
    <2>1. Lines(top) <= Len(a)
      BY <1>3, <1>2
    <2> HIDE DEF Lines, Good
    <2> QED BY <1>3, <1>13, <2>1
  <1>15. Matched(a, b, kept[top], 1, Len(a) + 1, 1, Len(b) + 1)
    BY <1>14 DEF top
  <1> QED BY <1>1, <1>15

\* If mypy complains of no line a text has added, then of no more of its lines
\* than of the base's, save for those that an added one makes wrong.
LEMMA NoMoreThanBefore ==
  ASSUME NEW base \in Texts \cup {Absent}, NEW t \in Texts,
         TypeErrors(t) \cap Added(base, t) = {}
  PROVE  Cardinality(Own(base, t)) <= Cardinality(TypeErrors(LinesOf(base)))
  <1> DEFINE was == LinesOf(base)
             a == AsRead(was)
             b == AsRead(t)
             S == Own(base, t)
             T == TypeErrors(was)
             K == Kept(a, b)
  <1>1. was \in Texts
    BY DEF LinesOf, Texts
  <1>2. /\ a \in Texts /\ Len(a) = Len(was) /\ \A i \in 1..Len(was) : a[i].word = was[i].word
        /\ b \in Texts /\ Len(b) = Len(t) /\ \A i \in 1..Len(t) : b[i].word = t[i].word
    <2> HIDE DEF was
    <2> QED BY <1>1, AsReadIs
  <1>3. Len(was) \in Nat /\ Len(t) \in Nat /\ DOMAIN was = 1..Len(was) /\ DOMAIN t = 1..Len(t)
    <2> HIDE DEF was
    <2> QED BY <1>1 DEF Texts
  <1>4. Added(base, t) = DOMAIN t \ K
    BY DEF Added
  <1>5. S \subseteq TypeErrors(t) /\ S \subseteq DOMAIN t
    BY DEF Own, TypeErrors, Of
  <1>6. S \subseteq K /\ DOMAIN t \ Added(base, t) \subseteq K
    <2> HIDE DEF S, K
    <2> QED BY <1>4, <1>5
  <1>7. PICK g \in [K -> 1..Len(was)] :
          (\A x, y \in K : x # y => g[x] # g[y]) /\ \A x \in K : a[g[x]] = b[x]
    <2>1. Matched(a, b, K, 1, Len(a) + 1, 1, Len(b) + 1)
      <3> HIDE DEF a, b
      <3> QED BY <1>2, KeptMatched
    <2>2. \A kept, i, ii, j, jj : Matched(a, b, kept, i, ii, j, jj) =>
            \E g \in [kept -> i..(ii - 1)] :
              (\A x, y \in kept : x # y => g[x] # g[y]) /\ \A x \in kept : a[g[x]] = b[x]
      <3> HIDE DEF a, b
      <3> QED BY DEF Matched
    <2> HIDE DEF a, b, was, K
    <2>3. \E g \in [K -> 1..(Len(a) + 1 - 1)] :
            (\A x, y \in K : x # y => g[x] # g[y]) /\ \A x \in K : a[g[x]] = b[x]
      BY <2>1, <2>2
    <2>4. Len(a) + 1 - 1 = Len(was)
      BY <1>2, <1>3
    <2> QED BY <2>3, <2>4
  <1> HIDE DEF K
  <1>8. \A x \in K \cap DOMAIN t : g[x] \in DOMAIN was /\ was[g[x]].word = t[x].word
    <2> HIDE DEF a, b, was
    <2> QED BY <1>2, <1>3, <1>7
  <1>9. \A x \in S : g[x] \in T
    <2> SUFFICES ASSUME NEW x \in S PROVE g[x] \in T
      OBVIOUS
    <2>1. x \in K \cap DOMAIN t /\ g[x] \in DOMAIN was /\ was[g[x]].word = t[x].word
      <3> HIDE DEF S, was
      <3> QED BY <1>5, <1>6, <1>8
    <2>2. CASE x \in Of(t, Mistyped)
      <3> HIDE DEF was
      <3> QED BY <2>1, <2>2 DEF TypeErrors, Of
    <2>3. CASE x \notin Of(t, Mistyped)
      <3>1. PICK j \in DOMAIN t \ Added(base, t) : <<t[x].word, t[j].word>> \in Clashes
        BY <2>3 DEF Own
      <3>2. j \in K \cap DOMAIN t
        BY <3>1, <1>6
      <3>3. g[j] \in DOMAIN was /\ was[g[j]].word = t[j].word
        BY <3>2, <1>8
      <3>4. <<was[g[x]].word, was[g[j]].word>> \in Clashes
        BY <2>1, <3>1, <3>3
      <3> HIDE DEF was
      <3> QED BY <2>1, <3>3, <3>4 DEF TypeErrors
    <2> QED BY <2>2, <2>3
  <1>10. /\ IsFiniteSet(S) /\ Cardinality(S) \in Nat
         /\ IsFiniteSet(T) /\ Cardinality(T) \in Nat
    <2>1. IsFiniteSet(1..Len(t)) /\ IsFiniteSet(1..Len(was))
      <3> HIDE DEF was
      <3> QED BY <1>3, FS_Interval
    <2>2. S \in SUBSET (1..Len(t)) /\ T \in SUBSET (1..Len(was))
      <3>1. T \subseteq DOMAIN was
        BY DEF TypeErrors, Of
      <3> HIDE DEF was, S, T
      <3> QED BY <3>1, <1>3, <1>5
    <2> HIDE DEF was, S, T
    <2> QED BY <2>1, <2>2, FS_Subset, FS_CardinalityType
  <1> DEFINE h == [x \in S |-> g[x]]
  <1>11. \A x, y \in S : x # y => g[x] # g[y]
    <2> HIDE DEF S
    <2> QED BY <1>6, <1>7
  <1>12. h \in [S -> T] /\ \A x, y \in S : x # y => h[x] # h[y]
    <2> HIDE DEF S, T
    <2> QED BY <1>9, <1>11
  <1>13. ~(Cardinality(T) < Cardinality(S))
    <2> HIDE DEF S, T, h
    <2> QED BY <1>10, <1>12, FS_PigeonHole
  <1>14. Cardinality(S) <= Cardinality(T)
    <2> HIDE DEF S, T
    <2> QED BY <1>10, <1>13
  <1> QED BY <1>14

\* What the lab commits has no added line that mypy complains of, unless the
\* tool's output could not be understood, and then it is not committed.
LEMMA CommittedClean ==
  GatesInv => NewErrorsCaused
  <1> SUFFICES ASSUME GatesInv, stage = "committed", NEW p \in Python \cap Changed(files)
               PROVE  Cardinality(Own(Baseline[p], files[p]))
                      <= Cardinality(TypeErrors(LinesOf(Baseline[p])))
    BY DEF NewErrorsCaused
  <1> DEFINE t == files[p]
             base == Baseline[p]
  <1>1. PICK run \in Runs : Judged(files, run) = {}
    BY DEF GatesInv, Vetted
  <1> DEFINE r == run.ruff
             y == run.mypy
  <1>2. Quality(Baseline, files, Changed(files), r, y) = {} /\ y \in MypyRuns
    BY <1>1 DEF Judged, Runs
  <1>3. t \in Texts /\ base \in Texts \cup {Absent} /\ p \in Path
    BY GatesAssumption DEF GatesInv, Typed, Within, Changed
  <1> HIDE DEF r, y
  <1>4. TypeErrors(t) \cap Added(base, t) = {}
    <2>1. CASE t = <<>>
      <3>1. DOMAIN t = {}
        BY <2>1
      <3>2. Added(base, t) \subseteq DOMAIN t
        <4> HIDE DEF t
        <4> QED BY DEF Added
      <3> HIDE DEF t
      <3> QED BY <3>1, <3>2
    <2>2. CASE t # <<>>
      <3> DEFINE judged == {q \in Changed(files) \cap Python : LinesOf(files[q]) # <<>>}
      <3>1. p \in judged
        BY <2>2, <1>3, EditsAssumption DEF LinesOf
      <3> DEFINE Named(q) == {<<q, d[1], d[2]>> : d \in FileDiagnostics(Baseline[q], files[q], r, y)}
      <3>2. /\ UNION {Named(q) : q \in judged} = {}
            /\ (IF judged # {} /\ y = "garbled" THEN {<<"", 0, "TOOL002">>} ELSE {}) = {}
        <4> DEFINE A == UNION {Named(q) : q \in judged}
                   B == IF AddedIn(Baseline, files, judged) > MaxAdded
                        THEN {<<"", 0, "SLOP010">>} ELSE {}
                   C == IF judged # {} /\ r = "garbled" THEN {<<"", 0, "TOOL001">>} ELSE {}
                   D == IF judged # {} /\ y = "garbled" THEN {<<"", 0, "TOOL002">>} ELSE {}
        <4>1. Quality(Baseline, files, Changed(files), r, y) = A \cup B \cup C \cup D
          BY DEF Quality
        <4>2. A = {} /\ D = {}
          <5> HIDE DEF A, B, C, D
          <5> QED BY <4>1, <1>2
        <4> QED BY <4>2
      <3> HIDE DEF judged
      <3>3. FileDiagnostics(base, t, r, y) = {}
        <4> SUFFICES ASSUME NEW d \in FileDiagnostics(base, t, r, y) PROVE FALSE
          OBVIOUS
        <4>1. <<p, d[1], d[2]>> \in Named(p)
          OBVIOUS
        <4> HIDE DEF Named
        <4> QED BY <3>1, <3>2, <4>1
      <3>4. y = "ran"
        BY <3>1, <3>2, <1>2 DEF MypyRuns
      <3>5. (TypeErrors(t) \cap Added(base, t)) \X {"mypy"} = {}
        <4> HIDE DEF t, base
        <4> QED BY <3>3, <3>4 DEF FileDiagnostics
      <3> HIDE DEF t, base
      <3>6. \A x \in TypeErrors(t) \cap Added(base, t) :
              <<x, "mypy">> \in (TypeErrors(t) \cap Added(base, t)) \X {"mypy"}
        OBVIOUS
      <3> QED BY <3>5, <3>6
    <2> QED BY <2>1, <2>2
  <1> HIDE DEF t, base
  <1>5. Cardinality(Own(base, t)) <= Cardinality(TypeErrors(LinesOf(base)))
    BY <1>3, <1>4, NoMoreThanBefore
  <1> QED BY <1>5 DEF t, base

\* A committed file has no more lines with a type error than the baseline's, save
\* for unchanged ones that an added line made wrong, whatever is moved or
\* rewritten: evaluate_python_quality looks at added lines only, but the others
\* are lines of the baseline that difflib matched, each once.
THEOREM CommitsOnlyCausedErrors == Spec => []NewErrorsCaused
  BY CommittedClean, GatesInvariance, PTL

=============================================================================
