CONSTANTS
  NumBlocks = 3
  RankOf <- MCRankOf
  InitialPool = 1
  MaxParticles = 2
  MaxRounds = 2
  Births <- MCBirths
SPECIFICATION Spec
INVARIANTS ParticlesAtHome PoolsConsistent
PROPERTY ExchangeEnds
CHECK_DEADLOCK FALSE
