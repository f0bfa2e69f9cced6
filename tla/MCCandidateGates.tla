-------------------------- MODULE MCCandidateGates --------------------------
(* CandidateGates for TLC: an implementation file, tests, a note and data.  *)
EXTENDS CandidateGates

CONSTANTS impl, test, note, data, wiki

L(w) == [word |-> w, end |-> "lf"]
Blank(w) == [word |-> w, end |-> "blank"]
CR(w) == [word |-> w, end |-> "cr"]

MCHead == [p \in Path |-> IF p = impl THEN <<L("def"), L("a"), L("type"), L("b")>>
                          ELSE IF p = wiki THEN <<L("a")>> ELSE Absent]
MCRestored ==
  {MCHead, [MCHead EXCEPT ![impl] = <<L("def"), L("a"), L("type"), L("c"), L("b")>>,
                          ![test] = <<L("test"), Blank("a"), L("mark")>>]}

\* An old call of what a new signature is given.
MCClashes == {<<"a", "c">>}

\* What the tests may write: nothing, a file no candidate may change, one that
\* does not parse, a link, a test.
MCLitter ==
  {NothingNew, [p \in {wiki, test} |-> <<Blank("test")>>],
   [p \in {data, note} |-> IF p = data THEN <<L("bad")>> ELSE <<L("link")>>]}

Replace1(p, old, new) ==
  [path |-> p, op |-> "replace", old |-> old, new |-> new, expects |-> <<>>]
Create(p, new) ==
  [path |-> p, op |-> "create", old |-> <<>>, new |-> new, expects |-> <<>>]
File(p, old, new) ==
  [path |-> p, op |-> "replace_file", old |-> <<>>, new |-> new, expects |-> old]

MCEdits ==
  { \* exact, one of them found twice after the other, one overlapping another
    Replace1(impl, <<L("b")>>, <<L("c"), L("b")>>),
    Replace1(impl, <<L("a")>>, <<L("c")>>),
    Replace1(impl, <<L("a"), L("type")>>, <<L("a")>>),
    \* up to blanks
    Replace1(impl, <<Blank("type"), L("empty"), L("b")>>, <<L("b"), L("type")>>),
    \* by its surroundings
    Replace1(impl, <<L("x"), L("def"), L("a"), L("type")>>,
                   <<L("x"), L("def"), L("pass"), L("type")>>),
    \* by the name of what it defines
    Replace1(impl, <<L("def"), L("x"), L("x")>>, <<L("def"), L("pass")>>),
    \* whole files
    File(impl, MCHead[impl], <<L("def"), L("type"), L("type")>>),
    Create(impl, <<CR("def"), CR("b")>>),
    Create(test, <<L("test"), Blank("a"), Blank("empty")>>),
    Create(test, <<CR("test"), CR("a")>>),
    Create(note, <<Blank("a"), L("key")>>),
    Create(data, <<L("bad")>>),
    Create(wiki, <<L("b")>>) }
=============================================================================
