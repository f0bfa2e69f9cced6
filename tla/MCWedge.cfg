\* A push or a restart fails after the trusted checkout was moved.
CONSTANTS
  MaxCandidates = 1
  MaxForeign = 0
  MaxPromotionRetries = 2
SPECIFICATION Spec
INVARIANTS RetriesCanSucceed
CHECK_DEADLOCK FALSE
