CONSTANTS
  Scheme = "MSI"
  ProcessorCount = 3
  Topology = "line"
  Addrs = {a1}
  MaxOps = 2
  DRAM_FETCH_TICKS = 2
  NULL = NULL
SPECIFICATION MCSpec
INVARIANTS TypeOK NoAssertionFails AcksAddUp OneCarrier NoSquelch SWMRUnlessRaced
PROPERTIES RunsToEnd
