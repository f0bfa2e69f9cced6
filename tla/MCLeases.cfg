\* Two agents and an evaluator race over two jobs of one objective.
CONSTANTS
  o1 = o1  o2 = o2  o3 = o3  a1 = a1  a2 = a2  e1 = e1
  crash = crash  patch = patch
  MaxJobs = 2
  MaxCalls = 1
  Faulty = TRUE
  LabSubmits = FALSE
  Objectives = {o1}
  InitActive = {o1}
  InitPaused = {}
  Children <- OneChild
  Milestones = {}
  Agents = {a1, a2}
  Evaluators = {e1}
  Errors = {crash}
  MarkerErrors = {}
  Scores = {1}
  Modes = {"running"}
  AdminJobs <- CodeTwice
  LeaseTicks = 1
  RetryTicks = 0
  IntervalTicks = 0
  CooldownTicks = 0
  MaxPromotionRetries = 1
SPECIFICATION Spec
SYMMETRY AgentSymmetry
INVARIANTS TypeOK LeaseBudget OneOpenJob SubmissionsTracked
PROPERTIES Fencing Finality
