CONSTANTS
  MpiParallel = TRUE
  OtherStat   = {"complete"}
  Programs   <- ResidualPrograms
  FlatPrograms = {}
  OrderedPrograms = {}
SPECIFICATION Spec
INVARIANT DataInOrder
CHECK_DEADLOCK FALSE
