CONSTANTS
  NumBlocks = 3
  Programs <- MCPrograms
  DeallocCount = 1
  MaxChanges = 2
SPECIFICATION Spec
INVARIANTS FieldsRestored ParticlesRestored
CHECK_DEADLOCK FALSE
