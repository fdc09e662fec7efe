CONSTANTS
  nranks = 2
  MaxBlocks = 6
  CostValues = {2, 10}
  NumTrees = 3
  Unit = 64
  CellShapes <- CubicCells
SPECIFICATION Spec1
INVARIANTS LoadIsEven DataMovedIntact RefinementSound
