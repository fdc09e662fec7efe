CONSTANTS
  MpiParallel = TRUE
  OtherStat   = {"complete"}
  Programs   <- MCPrograms
  FlatPrograms <- MCFlatPrograms
  OrderedPrograms <- MCOrderedPrograms
SPECIFICATION FairSpec
INVARIANTS DependencyOrder OncePerRound RoundsInOrder NothingLost DataInOrder
PROPERTY Termination
CHECK_DEADLOCK FALSE
