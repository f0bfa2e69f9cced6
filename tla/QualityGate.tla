----------------------------- MODULE QualityGate -----------------------------
(***************************************************************************)
(* quality_gate.py, the same file in the lab and in the control plane:     *)
(* what it has against a candidate, file by file, compared with a base.    *)
(* Only what touches a line the candidate added counts.                    *)
(*                                                                         *)
(* The kinds of words below stand for what the tools and the syntax tree   *)
(* make of a line.  A definition's body reaches to the next definition, a  *)
(* handler's is the line after it.                                         *)
(***************************************************************************)
EXTENDS CodingEdits, FiniteSetsExt

CONSTANTS TestNames,     \* heads of test functions, among Definitions
          Handlers,      \* except Exception, except BaseException, except
          Placeholders,  \* pass, ..., raise NotImplementedError
          Passes,        \* pass
          Hollow,        \* assert True
          Linted,        \* what ruff reports
          Mistyped,      \* what mypy reports wherever it is
          Clashes,       \* <<word, other>>: mypy reports the word in a file
                         \* that has the other (a call, and a new signature)
          Broken,        \* what does not parse
          MaxAdded, MaxAddedPerFile

LinesOf(t) == IF t = Absent THEN <<>> ELSE t

\* difflib.SequenceMatcher without junk: the longest block in common, the
\* earliest of them in the first text and then in the second, and so on before
\* and behind it.  Kept are the lines of the second text inside such blocks.
\* A window is the lines of either text the blocks are looked for in: from its
\* first number to before its second, and from its third to before its fourth.
Kept(a, b) ==
  LET Bounds(n) == 1..(n + 1)
      kept[w \in Bounds(Len(a)) \X Bounds(Len(a)) \X Bounds(Len(b)) \X Bounds(Len(b))] ==
        LET blocks == {x \in (w[1]..w[2]) \X (w[3]..w[4]) \X (1..Len(b)) :
                         /\ x[1] + x[3] <= w[2] /\ x[2] + x[3] <= w[4]
                         /\ Slice(a, x[1], x[3]) = Slice(b, x[2], x[3])}
            m == CHOOSE x \in blocks : \A y \in blocks :
                   \/ x[3] > y[3]
                   \/ x[3] = y[3] /\ x[1] < y[1]
                   \/ x[3] = y[3] /\ x[1] = y[1] /\ x[2] <= y[2]
        IN  IF blocks = {} THEN {}
            ELSE kept[<<w[1], m[1], w[3], m[2]>>]
                 \cup m[2]..(m[2] + m[3] - 1)
                 \cup kept[<<m[1] + m[3], w[2], m[2] + m[3], w[4]>>]
  IN  kept[<<1, Len(a) + 1, 1, Len(b) + 1>>]

\* The last line of a block that was added is taken for one that was not.
AddedButLast(base, t) ==
  LET new == DOMAIN t \ Kept(AsRead(LinesOf(base)), AsRead(t))
  IN  {i \in new : i + 1 \in new}

\* _added_lines
Added(base, t) == DOMAIN t \ Kept(AsRead(LinesOf(base)), AsRead(t))

-----------------------------------------------------------------------------
(* Diagnostics of one file: its lines and their codes. *)

Of(t, words) == {i \in DOMAIN t : t[i].word \in words}

Body(t, i) == {j \in DOMAIN t : /\ j > i /\ t[j].word # Empty
                                /\ \A k \in (i + 1)..j : t[k].word \notin Definitions}

\* The lines mypy reports.
TypeErrors(t) ==
  Of(t, Mistyped)
  \cup {i \in DOMAIN t : \E j \in DOMAIN t : <<t[i].word, t[j].word>> \in Clashes}

\* _ast_diagnostics.  A file that does not parse has none.
AstDiagnostics(t, added) ==
  LET Touched(i) == ({i} \cup Body(t, i)) \cap added # {}
      Says(i, words) == Body(t, i) # {} /\ \A j \in Body(t, i) : t[j].word \in words
  IN
  IF Of(t, Broken) # {} THEN {}
  ELSE {<<i, "SLOP001">> : i \in {d \in Of(t, Definitions) : Touched(d) /\ Says(d, Placeholders)}}
       \cup {<<i, "SLOP002">> : i \in {d \in Of(t, TestNames) :
                                        Touched(d) /\ Says(d, Placeholders \cup Hollow)}}
       \cup {<<i, "SLOP003">> : i \in {h \in Of(t, Handlers) :
                                        /\ {h, h + 1} \cap added # {}
                                        /\ h + 1 \in Of(t, Passes)}}

\* A tool runs, or prints what it cannot be understood by; only ruff can end
\* without a word and be taken for content, as its exit code is not read.
RuffRuns == {"ran", "garbled", "silent"}
MypyRuns == {"ran", "garbled"}

FileDiagnostics(base, t, ruff, mypy) ==
  LET added == Added(base, t)
  IN  AstDiagnostics(t, added)
      \cup (IF ruff = "ran" THEN (Of(t, Linted \cup Broken) \cap added) \X {"ruff"} ELSE {})
      \cup (IF mypy = "ran" THEN (TypeErrors(t) \cap added) \X {"mypy"} ELSE {})
      \cup (IF Cardinality(added) > MaxAddedPerFile THEN {<<0, "SLOP011">>} ELSE {})

-----------------------------------------------------------------------------

AddedIn(base, files, paths) ==
  MapThenSumSet(LAMBDA p : Cardinality(Added(base[p], files[p])), paths)

\* evaluate_python_quality: <<path or "", line, code>>.
Quality(base, files, changed, ruff, mypy) ==
  LET judged == {p \in changed \cap Python : LinesOf(files[p]) # <<>>}
  IN  (UNION {{<<p, d[1], d[2]>> : d \in FileDiagnostics(base[p], files[p], ruff, mypy)}
              : p \in judged})
      \cup (IF AddedIn(base, files, judged) > MaxAdded THEN {<<"", 0, "SLOP010">>} ELSE {})
      \cup (IF judged # {} /\ ruff = "garbled" THEN {<<"", 0, "TOOL001">>} ELSE {})
      \cup (IF judged # {} /\ mypy = "garbled" THEN {<<"", 0, "TOOL002">>} ELSE {})
==============================================================================
