--------------------------- MODULE CandidateGates ---------------------------
(***************************************************************************)
(* A coding candidate from the model's proposal to the trusted gate: the   *)
(* graph's attempts (run_coding_graph), what is written, the lab's checks  *)
(* of the working tree (validate_coding_candidate) and the promoter's of   *)
(* the commit made from it (inspect_candidate).  LabWorker and Promoter    *)
(* model the two programs around this and leave the content open; here it  *)
(* is the content that counts, and both look at the same one.              *)
(***************************************************************************)
EXTENDS QualityGate, SequencesExt

CONSTANTS Baseline,          \* what the baseline has: a text or Absent, by path
          Implementation, Tests,  \* paths under their roots
          Allowed,       \* paths a candidate may change (AUTO_PATHS), and that
                         \* are handed from job to job
          SourceLike,    \* suffixes normalize_coding_whitespace treats
          Json,          \* paths ending in .json
          Secrets,       \* words that match SECRET_PATTERNS
          Marked,        \* conflict markers, blanks before a tab
          Restored,      \* working trees a job may start with
          Edits,         \* what the model may propose
          Litter,        \* what a run of the tests may leave: texts by path
          MaxEdits,      \* edits of a proposal (20)
          MaxAttempts,   \* proposals of a graph (3)
          MaxFiles,      \* files of a candidate (200)
          MaxSize,       \* lines of all its files together (12 MiB)
          Unwritable     \* paths whose write raises

\* Neither an edit, nor the work in progress of a coding job, nor a test deletes
\* a file, and the first two change what may be changed only.
ASSUME GatesAssumption ==
  /\ Editable = Implementation \cup Tests /\ Editable \subseteq Allowed /\ Allowed \subseteq Path
  /\ Python \subseteq SourceLike /\ TestNames \subseteq Definitions
  /\ Baseline \in Restored /\ Restored \subseteq [Path -> Texts \cup {Absent}]
  /\ \A tree \in Restored : \A p \in Path :
       tree[p] # Baseline[p] => p \in Allowed /\ tree[p] # Absent
  /\ \A e \in Edits : e.path \in Path /\ e.old \in Texts /\ e.new \in Texts
  /\ \A l \in Litter : DOMAIN l \subseteq Path /\ \A p \in DOMAIN l : l[p] \in Texts
  /\ MaxEdits \in Nat \ {0} /\ MaxAttempts \in Nat \ {0}

VARIABLES files,         \* the working tree
          stage,         \* where the graph is
          attempt,       \* proposals made
          staged,        \* contents still to be written
          gate,          \* reasons of the promoter's gate
          \* History, read by properties only.
          edits, before, \* the proposal being carried out, the tree it was made for
          left           \* paths the tests wrote

vars == <<files, stage, attempt, staged, gate, edits, before, left>>

Stages == {"proposing", "writing", "validating", "rechecking", "committed",
           "inspected", "blocked"}
Faults == {"path", "files", "evidence", "diff_check", "link", "size", "secret", "parse",
           "no_tests", "pytest", "quality"}

TypeOK ==
  /\ \A p \in Path : files[p] = Absent \/ files[p] \in Texts
  /\ stage \in Stages /\ attempt \in 0..MaxAttempts
  /\ DOMAIN staged \subseteq Path /\ \A p \in DOMAIN staged : staged[p] \in Texts
  /\ gate \subseteq Faults /\ left \subseteq Path

Init ==
  /\ files \in Restored /\ before = files /\ attempt = 0
  /\ stage = IF files = Baseline THEN "proposing" ELSE "validating"
  /\ staged = NothingNew /\ edits = <<>> /\ gate = {} /\ left = {}

Tracked == {p \in Path : Baseline[p] # Absent}
Changed(tree) == {p \in Path : tree[p] # Baseline[p]}

-----------------------------------------------------------------------------
(* A proposal. *)

\* A loop without its bound.
AgainForever(n) == stage' = "proposing"

\* Proposals failed or refused are answered by another, three in all.
Again(n) == stage' = IF n = MaxAttempts THEN "blocked" ELSE "proposing"

TreeAsRead == [p \in Path |-> IF files[p] = Absent THEN Absent ELSE AsRead(files[p])]

\* A file may have been shown to the model whole, or in part; that decides on
\* one that is to be created only.  That the same proposal twice in a row is
\* refused unread is left out: only less happens in the code.
Propose ==
  /\ stage = "proposing"
  /\ \E n \in 1..MaxEdits : \E es \in [1..n -> Edits] :
     \E shown \in SUBSET {es[i].path : i \in {j \in 1..n : es[j].op = "create"}} :
     \E o \in Outcomes(TreeAsRead, Tracked, shown, es) :
       /\ attempt' = attempt + 1
       /\ IF o = NothingNew THEN Again(attempt + 1) /\ UNCHANGED <<staged, edits>>
          ELSE stage' = "writing" /\ staged' = o /\ edits' = es
  /\ before' = TreeAsRead
  /\ UNCHANGED <<files, gate, left>>

\* One write_text per file, in the order of the proposal; any may raise, and
\* those already made stay.
Write(p) ==
  /\ stage = "writing" /\ p \in DOMAIN staged
  /\ \E i \in DOMAIN edits :
       edits[i].path = p /\ \A j \in 1..(i - 1) : edits[j].path \notin DOMAIN staged
  /\ IF p \in Unwritable
       THEN Again(attempt) /\ staged' = NothingNew /\ edits' = <<>> /\ UNCHANGED files
       ELSE /\ files' = [files EXCEPT ![p] = staged[p]]
            /\ staged' = [q \in DOMAIN staged \ {p} |-> staged[q]]
            /\ stage' = IF DOMAIN staged = {p} THEN "validating" ELSE "writing"
            /\ UNCHANGED edits
  /\ UNCHANGED <<attempt, before, gate, left>>

-----------------------------------------------------------------------------
(* The lab's checks. *)

\* Blanks go, empty lines at the end stay.
NormalizedLines(t) == [i \in DOMAIN t |-> [t[i] EXCEPT !.end = "lf"]]

\* normalize_coding_whitespace of a text: line breaks are made alike, and stay
\* carriage returns where all of them are; empty lines at the end go, then the
\* blanks of each line, so that a last line of blanks only is left empty.
Normalized(t) ==
  LET last == {0} \cup {i \in DOMAIN t : t[i].word # Empty \/ t[i].end = "blank"}
      end == IF t # <<>> /\ \A i \in DOMAIN t : t[i].end = "cr" THEN "cr" ELSE "lf"
  IN  [i \in 1..Longest(last) |-> [t[i] EXCEPT !.end = end]]

Small(t) == Len(t) <= MaxFileSize

\* Too large a file is left alone, and what a link leads to is taken for tidy.
Treated(t) == Small(t) /\ ~Has(t, Links)

Normalize(tree) ==
  [p \in Path |-> IF p \in Changed(tree) \cap SourceLike /\ tree[p] # Absent /\ Treated(tree[p])
                  THEN Normalized(tree[p]) ELSE tree[p]]

\* git diff --check: blanks or a carriage return at the end of an added line, a
\* marker or a space before a tab in it, more empty lines at the end of the file
\* than before. git compares lines with their ends.
EmptyAtEnd(t) == Len(t) - Longest({0} \cup {i \in DOMAIN t : t[i].word # Empty})
Untidy(t, base) ==
  \/ \E i \in DOMAIN t \ Kept(LinesOf(base), t) : t[i].end # "lf" \/ t[i].word \in Marked
  \/ EmptyAtEnd(t) > EmptyAtEnd(LinesOf(base))

Parses(t) == ~Has(t, Broken)
NoTests(tree) == \A p \in Tests : tree[p] = Absent

\* How the tools fare. The same tests may pass in one place and fail in another:
\* a file git ignores, a file they left themselves, another machine, a flaky test.
Runs == [tests : {"passed", "failed"}, ruff : RuffRuns, mypy : MypyRuns]

Judged(tree, run) == Quality(Baseline, tree, Changed(tree), run.ruff, run.mypy)

\* The working tree is normalised, looked at by git, of the files it tracks only,
\* and compiled; the tests run in it; then the quality gate looks at what is there.
LabPasses(tidy, tree, run) ==
  /\ run.tests = "passed" /\ ~NoTests(tidy)
  /\ \A p \in Changed(tidy) \cap Tracked : ~Untidy(tidy[p], Baseline[p])
  /\ \A p \in Changed(tidy) \cap Python : Parses(tidy[p])
  /\ Judged(tree, run) = {}

\* has_executable_candidate_change, has_public_test_change.
Complete(tree) ==
  Changed(tree) \cap Implementation # {} /\ Changed(tree) \cap Tests # {}

Littered(tree, l) == [p \in Path |-> IF p \in DOMAIN l THEN l[p] ELSE tree[p]]

\* What validate_coding_candidate leaves of the tree.
Look(l) ==
  /\ files' = Littered(Normalize(files), l) /\ left' = left \cup DOMAIN l
  /\ edits' = <<>> /\ before' = files'

Passed(run) == LabPasses(Normalize(files), files', run)

\* With coding_graph_decision.
Validate ==
  /\ stage = "validating"
  /\ \E l \in Litter, run \in Runs :
       /\ Look(l)
       /\ IF Passed(run) /\ Complete(files') THEN stage' = "rechecking" ELSE Again(attempt)
  /\ UNCHANGED <<attempt, staged, gate>>

\* What the graph promotes is looked at once more before it is committed, with
\* all that is in the tree (execute_job, finalize_graph_candidate).
Recheck ==
  /\ stage = "rechecking"
  /\ \E l \in Litter, run \in Runs :
       /\ Look(l)
       /\ stage' = IF Passed(run) THEN "committed" ELSE "blocked"
  /\ UNCHANGED <<attempt, staged, gate>>

-----------------------------------------------------------------------------
(* The promoter's gate. *)

\* The candidate is one commit on its base, so that the checks of ancestry and
\* of the number of commits have nothing to say.
GateFaults(tree, run) ==
  LET changed == Changed(tree)
      stored == {p \in changed : tree[p] # Absent /\ ~Has(tree[p], Links)}
      read == {p \in stored : Small(tree[p])}
  IN
  {f \in Faults :
     \/ f = "path" /\ ~changed \subseteq Allowed
     \/ f = "files" /\ Cardinality(changed) > MaxFiles
     \/ f = "evidence" /\ changed \cap Tests = {}
     \/ f = "diff_check" /\ \E p \in changed : Untidy(LinesOf(tree[p]), Baseline[p])
     \/ f = "link" /\ \E p \in changed : Has(LinesOf(tree[p]), Links)
     \/ f = "size" /\ (read # stored \/ MapThenSumSet(LAMBDA p : Len(tree[p]), stored) > MaxSize)
     \/ f = "secret" /\ \E p \in read : Has(tree[p], Secrets)
     \/ f = "parse" /\ \E p \in read \cap (Python \cup Json) : ~Parses(tree[p])
     \/ f = "no_tests" /\ NoTests(tree)
     \/ f = "pytest" /\ run.tests = "failed"
     \/ f = "quality" /\ Judged(tree, run) # {}}

Inspect ==
  /\ stage = "committed" /\ stage' = "inspected"
  /\ \E run \in Runs : gate' = GateFaults(files, run)
  /\ UNCHANGED <<files, attempt, staged, edits, before, left>>

Next == Propose \/ (\E p \in Path : Write(p)) \/ Validate \/ Recheck \/ Inspect

Spec == Init /\ [][Next]_vars

-----------------------------------------------------------------------------
(* What must hold of a candidate. *)

\* A proposal that was accepted was carried out whole: what each of its edits
\* adds to the text it quotes is in the file, whichever way the text was found
\* and whatever the other edits did (apply_coding_graph_edits).  Edits taken
\* for made already are not compared with the others, which may undo them.
Addition(e) ==
  LET short == IF Len(e.old) < Len(e.new) THEN Len(e.old) ELSE Len(e.new)
      prefix == Longest({n \in 0..short : Agree(e.old, e.new, n)})
      suffix == Longest({n \in 0..(short - prefix) :
                  SubSeq(e.old, Len(e.old) - n + 1, Len(e.old))
                  = SubSeq(e.new, Len(e.new) - n + 1, Len(e.new))})
  IN  SubSeq(e.new, prefix + 1, Len(e.new) - suffix)

EditsRealised ==
  stage = "validating" =>
    \A i \in DOMAIN edits :
      \/ before[edits[i].path] # Absent
         /\ Skipped \in Resolved(before[edits[i].path], edits[i])
      \/ Addition(edits[i]) = <<>>
      \/ Hits(files[edits[i].path], Addition(edits[i])) # {}

\* What a proposal comes to does not depend on the order its edits are listed
\* in, for the prompt asks for independent ones and says nothing of order.
OrderIrrelevant ==
  stage = "writing" /\ DOMAIN staged = PathsOf(edits) =>
    \E shown \in SUBSET PathsOf(edits) :
      staged \in Outcomes(before, Tracked, shown, Reverse(edits))

\* A candidate the lab commits has no more lines with a type error than the
\* baseline, whatever lines are moved or rewritten and whatever becomes of the
\* tools, save for unchanged lines that an added one made wrong: those are what
\* evaluate_python_quality, which looks at added lines only, lets through.
Own(base, t) ==
  Of(t, Mistyped)
  \cup {i \in DOMAIN t : \E j \in DOMAIN t \ Added(base, t) : <<t[i].word, t[j].word>> \in Clashes}

NewErrorsCaused ==
  stage = "committed" =>
    \A p \in Python \cap Changed(files) :
      Cardinality(Own(Baseline[p], files[p])) <= Cardinality(TypeErrors(LinesOf(Baseline[p])))

\* What the lab passed, the promoter rejects only for what the lab does not look
\* at (secrets, JSON, links, numbers and sizes), for what the tests wrote
\* themselves, which add --all commits too, and for white space in new files,
\* of which git was not told: that normalisation keeps carriage returns where all
\* lines have them and leaves some files alone, while the lab looks twice, so
\* that the empty line one pass makes is gone. What ruff, mypy and the tests say
\* when they are asked again is anybody's guess.
Spoilt(p) ==
  \/ p \in left
  \/ /\ p \notin Tracked
     /\ \/ p \notin SourceLike \/ ~Treated(files[p]) \/ Has(files[p], Marked)
        \/ \A i \in DOMAIN files[p] : files[p][i].end = "cr"

Unseen ==
  {"files", "link", "size", "secret"}
  \cup (IF ~left \subseteq Allowed THEN {"path"} ELSE {})
  \cup (IF left \cap Tests # {} THEN {"evidence"} ELSE {})
  \cup (IF \E p \in (Json \cup left) \cap Changed(files) : ~Parses(files[p])
        THEN {"parse"} ELSE {})
  \cup (IF \E p \in Changed(files) : Spoilt(p) THEN {"diff_check"} ELSE {})

GateRejectsUnseen ==
  stage = "inspected" => gate \ {"quality", "pytest"} \subseteq Unseen

-----------------------------------------------------------------------------
(* What comments promise and the code does not do; checked by hand. *)

\* "keeps the lab and promoter views consistent" (normalize_coding_whitespace).
ViewsConsistent == stage = "inspected" => "diff_check" \notin gate

\* No line of a committed file is wrong that was right (what a differential gate
\* is for; the gate's own word for its scope is "added or modified lines").
NoNewErrors ==
  stage = "committed" =>
    \A p \in Python \cap Changed(files) :
      Cardinality(TypeErrors(files[p])) <= Cardinality(TypeErrors(LinesOf(Baseline[p])))

\* "atomically materialize the graph proposal" (apply_coding_graph_edits).
Atomically ==
  [][stage = "writing" /\ stage' # "writing" => stage' = "validating" \/ files' = before]_vars
==============================================================================
