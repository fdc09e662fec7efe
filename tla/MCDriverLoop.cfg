SPECIFICATION FairSpec
CONSTANTS
  Ranks = {0, 1}
  Root = 0
  Adaptive = TRUE
  Balancers = {"default", "manual"}
  Interval = 2
  NewDt <- OneRankLimits
  FirstDt = 1000000
  Tlim = 6
  Nlim = 3
  Declared <- TwoOutputs
  Sources = {"term", "now"}
  InitRounds = 1
  MaxCrashes = 1
  FirstCycle = 1
INVARIANTS CollectivesMatch RestartReproduces OutputNumbering StagesAddUp HistogramsAddUp
PROPERTY AllRanksFinish
CHECK_DEADLOCK FALSE
