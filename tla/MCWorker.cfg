\* Any failure at any step; two replays, two proposals.
CONSTANTS
  g = g  x = x  m = m  u = u  o = o  none = none
  Patches <- AllPatches
  Nothing = none
  Kept <- KeptPart
  Moved <- MovedTo
  MaxReplays = 2
  Kinds = {"coding_cycle", "research_cycle", "discovery_cycle"}
  Safe = {g, x, o}
  Sound = {g, x, m}
  Complete = {g, x, m, u}
  MaxAttempts = 2
SPECIFICATION FairSpec
INVARIANTS TypeOK HandoffSafe ReplayBounded DeliversChecked CommittedKept
PROPERTIES ReportsOnce ComesBack

