\* Two episodes with a slow, dying, talkative controller, which may fill the
\* driver's pipe, and a dying game.
CONSTANTS
  DefaultRounds = 2
  MinChunk = 2
  MaxChunk = 3
  MaxNoise = 2
  PipeLines = 2
  Burst = 2
  Crashes = TRUE
  Episodes = 2
  AskedRounds = {0, 3}
  Horizons = {1, 5, 7}
SPECIFICATION FairSpec
INVARIANTS TypeOK AnswersFresh SpansHorizon ControllerReaped ChunksBounded
PROPERTIES ScoringEnds
CHECK_DEADLOCK FALSE
