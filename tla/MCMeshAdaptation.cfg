CONSTANTS
  Meshes <- MCMeshes
  Criteria <- MCCriteria
  nx = 4
  nghost = 2
  MaxGhostLeaves = 13
SPECIFICATION Spec
INVARIANTS ProperNesting RefinedAsAsked OldToNewConsistent
INVARIANTS GhostZonesExchanged MultigridLevelsFit
PROPERTY RestartRestores
