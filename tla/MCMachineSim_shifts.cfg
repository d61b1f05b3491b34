SPECIFICATION Spec
CONSTANTS
  None = None
  Badges = {"b1", "b2"}
  Shifts <- MCShifts
  DayTicks = 80
  Days = 1
  UnitCounts = {1, 3}
  Changeovers = {7}
  Cycles = {4, 6}
  Gaps = {0, 1}
  Stops = {5}
CHECK_DEADLOCK FALSE
INVARIANTS
  StatesChain
  UnitsCountFromOne
  OperatorsAreOnDuty
  ShiftsRunInOrder
