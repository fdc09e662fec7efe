CONSTANTS
  p = p
  q = q
  Packages = {p, q}
  FieldMenu <- MCFieldMenu
  PoolMenu <- MCPoolMenu
  SwarmMenu <- MCSwarmMenu
  MaxRegistered = 2
  Blocks = {1}
  StageSpec <- MCStageSpec
  Queries <- MCQueries
  MeshCoarse = FALSE
  Runs <- MCRuns
  DeallocationCount = 1
  MaxAlloc = 2
  MaxCached = 3
  MaxGeneration = 2
SPECIFICATION Spec
INVARIANTS ResolutionFollowsRoles PacksViewCurrentStorage ControlledTogether SelectionsAgree
INVARIANTS KernelsReachTheirData
CHECK_DEADLOCK FALSE
