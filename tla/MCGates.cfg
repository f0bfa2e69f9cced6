\* Proposals of up to two edits, two attempts, any tool failing in lab or gate.
CONSTANTS
  impl = impl  test = test  note = note  data = data  wiki = wiki
  Absent = Absent  Refused = Refused
  Path = {impl, test, note, data, wiki}
  Editable = {impl, test, note, data}
  Implementation = {impl, note, data}
  Tests = {test}
  Allowed = {impl, test, note, data}
  Python = {impl, test}
  SourceLike = {impl, test, data}
  Json = {data}
  Word = {"def", "test", "a", "b", "c", "x", "pass", "hollow", "except", "lint", "type", "bad", "key", "mark", "link"}
  Definitions = {"def", "test"}
  TestNames = {"test"}
  Handlers = {"except"}
  Placeholders = {"pass"}
  Passes = {"pass"}
  Hollow = {"hollow"}
  Linted = {"lint"}
  Mistyped = {"type"}
  Clashes <- MCClashes
  Broken = {"bad"}
  Secrets = {"key"}
  Marked = {"mark"}
  Links = {"link"}
  MinAnchor = 1
  MaxDelta = 2
  MaxFileSize = 5
  MaxAdded = 5
  MaxAddedPerFile = 4
  Baseline <- MCHead
  Restored <- MCRestored
  Edits <- MCEdits
  Litter <- MCLitter
  MaxEdits = 2
  MaxAttempts = 2
  MaxFiles = 3
  MaxSize = 8
  Unwritable = {}
SPECIFICATION Spec
INVARIANTS TypeOK EditsRealised OrderIrrelevant  GateRejectsUnseen
CHECK_DEADLOCK FALSE
