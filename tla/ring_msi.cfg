CONSTANTS
  Scheme = "MSI"
  ProcessorCount = 3
  Topology = "ring"
  Addrs = {a1}
  MaxOps = 2
  DRAM_FETCH_TICKS = 2
  NULL = NULL
SPECIFICATION MCSpec
INVARIANTS OneCarrier
PROPERTIES RunsToEnd
