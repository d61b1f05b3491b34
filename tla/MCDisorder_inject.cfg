SPECIFICATION Spec
CONSTANTS
  WindowMinutes = 2
  Ids = {1, 2, 3}
  Machines = {1, 2}
  MachineOf <- TwoMachines
  TypeOf <- CycleDefectCycle
  TimeOf <- Times
  Seconds = 3
  SkewedMachines = 1
  SkewOffsets <- AnyDirection
  Wander = {0, 1}
  DriftCuts = {1}
  V3Cuts = {2}
  NoCut = NoCut
  Null = Null
  LateBy = {3}
  MaxShift = 2
  MaxExtra = 2
  RetryAfter = {1}
  MaxCorrupt = 2
CHECK_DEADLOCK FALSE
INVARIANTS
  RecordsAreCanonical
  CutoverByEventTime
  WindowsAgree
  FeedsTheWarehouse
  ExpectationsAreObservable
