\* Candidates of an operator and of two objectives on one baseline.
CONSTANTS
  o1 = o1  o2 = o2  o3 = o3  a1 = a1  a2 = a2  e1 = e1
  crash = crash  patch = patch
  MaxJobs = 3
  MaxCalls = 1
  Faulty = FALSE
  LabSubmits = FALSE
  Objectives = {o1, o2}
  InitActive = {o1}
  InitPaused = {}
  Children <- OneChild
  Milestones = {}
  Agents = {a1}
  Evaluators = {}
  Errors = {}
  MarkerErrors = {}
  Scores = {1}
  Modes = {"running"}
  AdminJobs <- CodeOnce
  LeaseTicks = 1
  RetryTicks = 0
  IntervalTicks = 0
  CooldownTicks = 0
  MaxPromotionRetries = 2
SPECIFICATION Spec
INVARIANTS BaselineIsLinear
PROPERTIES KeepsContract
