CONSTANTS
  ProcessorCount = 6
  Topology = "mesh"
SPECIFICATION RouteSpec
INVARIANTS Shortest
PROPERTIES AllDelivered
