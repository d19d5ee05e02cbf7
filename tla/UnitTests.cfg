SPECIFICATION Spec
CONSTANTS
  NULL = NULL
  Block = {b1, b2}
  MaxTests = 6
SYMMETRY BlockSymmetry
CHECK_DEADLOCK FALSE
INVARIANTS
  TypeOK
  TestInv
  ArgumentsRecorded
  FreedMemoryUse
  NoMiniportActive
PROPERTIES
  FailsOnlyWithoutMemory
