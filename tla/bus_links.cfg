CONSTANTS
  Scheme = "MSI"
  ProcessorCount = 2
  Addrs = {a, b}
  MaxOps = 2
  DRAM_FETCH_TICKS = 3
  CACHE_DELAY = 1
  CACHE_TRANSFER = 2
  ScanLinks = TRUE
  NULL = NULL
SPECIFICATION Spec
SYMMETRY Symmetry
INVARIANTS NoAssertionFails
