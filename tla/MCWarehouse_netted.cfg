SPECIFICATION Spec
CONSTANTS
  Null = Null
  WindowMinutes = 2
  Ids = {1, 2}
  MachineOf <- PairMachine
  TypeOf <- PairTypes
  TimeOf <- PairTimes
  VersionOf <- PairVersions
  Seconds = 3
  MaxInjected = 2
  MaxFaults = 3
  HourTicks = 4
  Watermark = 1
  Engine = "athena"
  Start = 1
  MaxNow = 5
CHECK_DEADLOCK FALSE
INVARIANT NothingLostInReconciled
