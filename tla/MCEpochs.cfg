\* Failures that repeat: a cooldown first, then the block and the successor.
CONSTANTS
  o1 = o1  o2 = o2  o3 = o3  a1 = a1  a2 = a2  e1 = e1
  crash = crash  patch = patch
  MaxJobs = 4
  MaxCalls = 1
  Faulty = FALSE
  LabSubmits = FALSE
  Objectives = {o1, o2, o3}
  InitActive = {o1}
  InitPaused = {o2, o3}
  Children <- OneChild
  Milestones = {o1}
  Agents = {a1}
  Evaluators = {}
  Errors = {crash, patch}
  MarkerErrors = {crash, patch}
  Scores = {1}
  Modes = {"running"}
  AdminJobs <- NoAdmin
  LeaseTicks = 1
  RetryTicks = 0
  IntervalTicks = 0
  CooldownTicks = 1
  MaxPromotionRetries = 1
SPECIFICATION Spec
PROPERTIES BlockedAfterRecovery
