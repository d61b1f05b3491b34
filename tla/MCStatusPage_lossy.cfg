SPECIFICATION FairPage
CONSTANTS
  Null = Null
  WindowMinutes = 2
  Ids = {1, 2, 3}
  MachineOf <- Machine
  TypeOf <- Types
  TimeOf <- Times
  VersionOf <- Versions
  Seconds = 3
  MaxInjected = 1
  MaxFaults = 2
  HourTicks = 1
  Watermark = 1
  Engine = "athena"
  Start = 2
  MaxNow = 3
  Nothing = Nothing
  MaxPages = 1
CHECK_DEADLOCK FALSE
INVARIANTS
  LossIsVisible
  CompleteLakeReconciles
  CycleFactsAreUnits
  GreenPageIsTrue
PROPERTIES
  ReconciledIsFinal
  EventuallyJudged
