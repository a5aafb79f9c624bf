CONSTANTS
  SelectSize = 2
  BHRSize = 4
  HistoryBits = 2
  Branches = {8, 24, 72}
  Targets = {8, 104}
SPECIFICATION Spec
INVARIANTS TypeOK TargetKnown
PROPERTIES ImplementsTwoLevel
