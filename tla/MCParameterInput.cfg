SPECIFICATION Spec
CONSTANTS
  Params <- MCParams
  Value <- MCValue
  DefaultOf <- MCDefaultOf
  Updatable <- MCUpdatable
  UpdateValue <- MCUpdateValue
  InputFiles <- MCInputFiles
  CommandLines <- MCCommandLines
  Analysis <- MCAnalysis
  StartTime <- MCStartTime
  TrueValue <- MCTrue
  FalseValue <- MCFalse
  MaxLaunches = 3
  MaxUpdates = 1
  IndentedHeaders = FALSE
INVARIANT ListsStaySound
PROPERTY ImplementsParameterMap
CHECK_DEADLOCK FALSE
