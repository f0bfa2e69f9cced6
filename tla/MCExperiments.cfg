\* Measurements of commits promoted and of commits lab clients submit, up to four jobs.
CONSTANTS
  o1 = o1  o2 = o2  o3 = o3  a1 = a1  a2 = a2  e1 = e1
  crash = crash  patch = patch
  MaxJobs = 4
  MaxCalls = 1
  Faulty = FALSE
  LabSubmits = TRUE
  Objectives = {o1}
  InitActive = {o1}
  InitPaused = {}
  Children <- OneChild
  Milestones = {}
  Agents = {a1}
  Evaluators = {e1}
  Errors = {}
  MarkerErrors = {}
  Scores = {1,2}
  Modes = {"running"}
  AdminJobs <- NoAdmin
  LeaseTicks = 1
  RetryTicks = 0
  IntervalTicks = 0
  CooldownTicks = 0
  MaxPromotionRetries = 1
SPECIFICATION Spec
INVARIANTS ChampionIsFirstBest
