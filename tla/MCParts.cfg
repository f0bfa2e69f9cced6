SPECIFICATION MCSpec
CONSTANTS
  None = None
  Null = Null
  Garbage = Garbage
  Parts = {"episode", "probes", "guard", "evaluator"}
  Seeds <- MCSeeds
  Citizens <- MCCitizens
  DiesAt <- MCDiesAt
  Actions <- MCActions
  MaxSteps = 2
  Budgets = {1, 2}
  MaxRuns = 2
  MaxTick = 3
  Worlds <- MCWorlds
  MaxListed = 2
  CheckTime = 2
  StartTime = 3
  ReadyTime = 4
  PollTime = 1
  ProbeTime = 3
  Grace = 1
  DrainTime = 1
  Patience = 8
  LeaseTime = 6
  Interval = 2
  MaxCheckout = 7
  MaxCall = 6
INVARIANTS Replayable SummariesAgree HardTimeout ExpiresByStalls
CHECK_DEADLOCK FALSE
