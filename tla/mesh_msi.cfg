CONSTANTS
  Scheme = "MSI"
  ProcessorCount = 3
  Topology = "mesh"
  Addrs = {a1}
  MaxOps = 2
  DRAM_FETCH_TICKS = 2
  NULL = NULL
SPECIFICATION MCSpec
INVARIANTS NoAssertionFails OneCarrier
