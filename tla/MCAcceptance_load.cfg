SPECIFICATION SpecTrial
CONSTANTS
  m1 = m1
  Machines = {m1}
  NoKey = NoKey
  PartitionOf <- MCPartitionOf
  Partitions <- MCPartitions
  LineKinds = {"event", "raw", "broken", "poison", "scalar", "blank"}
  MaxLines = 3
  BATCH_ROWS = 2
  Windows = 2
  HoursPerDay = 2
  MaxHour = 1
  MaxLoads = 4
  Absent = Absent
  MaxTrials = 2
CHECK_DEADLOCK FALSE
INVARIANTS
  RowsOncePerSlot
  OffsetsNameLines
  LoadedBeforeManifests
  IdenticalMeansSameRows
  RebuildIsDeterministic
PROPERTIES
  ReloadChangesNothing
