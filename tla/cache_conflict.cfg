CONSTANTS
  Scheme = "MSI"
  BlockSize = 2
  Sets = 2
  Lines = 1
  VictimEntries = 1
  Distant = 3
  Configurations <- Overlapping
  MaxDelay = 2
  Accesses <- MCAccesses
  MaxOps = 2
  NULL = NULL
SPECIFICATION Spec
INVARIANTS NoAssertionFails
