\* Three candidates, a push by somebody else, and failures and restarts anywhere,
\* over and over.
CONSTANTS
  MaxCandidates = 3
  MaxForeign = 1
  MaxPromotionRetries = 1
SPECIFICATION FairSpec
INVARIANTS TypeOK MainsNested OnlyGatedPublished PromotedKept
PROPERTIES KeepsContract Decided
CHECK_DEADLOCK FALSE
