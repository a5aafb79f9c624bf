CONSTANTS
  FetchRate = 4
  DispatchWidth = 1
  ScheduleWidth = 1
  NumFastALU = 2
  NumLongALU = 1
  NumCDB = 1
  Registers = {1, 2}
  Ops <- MCOps
  MaxOps = 4
SPECIFICATION Spec
INVARIANTS TypeOK NoLostWakeup RegistersCurrent
PROPERTIES ImplementsDataflow RunsToEnd
