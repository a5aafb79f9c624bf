CONSTANTS
  Scheme = "MSI"
  BlockSize = 2
  Sets = 2
  Lines = 2
  VictimEntries = 1
  Distant = 3
  Configurations <- MCConfigurations
  MaxDelay = 2
  Accesses <- MCAccesses
  MaxOps = 4
  NULL = NULL
SPECIFICATION Spec
INVARIANTS TypeOK NoneTwice StampsInOrder CoherenceKnows NoAssertionFails
PROPERTIES ImplementsPort
