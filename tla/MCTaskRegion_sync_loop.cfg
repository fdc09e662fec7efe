CONSTANTS
  MpiParallel = TRUE
  OtherStat   = {"complete"}
  Programs   <- SyncLoopPrograms
  FlatPrograms = {}
  OrderedPrograms = {}
SPECIFICATION Spec
INVARIANT DependencyOrder
CHECK_DEADLOCK FALSE
