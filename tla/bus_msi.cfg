CONSTANTS
  Scheme = "MSI"
  ProcessorCount = 3
  Addrs = {a, b}
  MaxOps = 2
  DRAM_FETCH_TICKS = 3
  CACHE_DELAY = 2
  CACHE_TRANSFER = 2
  ScanLinks = FALSE
  NULL = NULL
SPECIFICATION Spec
INVARIANTS TypeOK SWMR NoAssertionFails RequestsMatch RequestsBacked SnoopHolds MemoryInStep
PROPERTIES ImplementsOwnership RunsToEnd
