SPECIFICATION Spec
CONSTANTS
  Partitions = {p1}
  Consumers = {c1, c2}
  None = None
  Kinds = {"event"}
  MaxMessages = 4
  BatchRows = 6
  MaxIdlePolls = 0
  FromBeginning = TRUE
  Root = "s3"
  HoursPerDay = 2
  MaxHour = 0
  MaxDisruptions = 0
  MaxRebalances = 2
SYMMETRY ConsumerSymmetry
INVARIANTS
  CommittedIsDurable
