SPECIFICATION FairSpec
CONSTANTS
  Partitions = {p1}
  Consumers = {c1}
  None = None
  Kinds = {"event", "raising"}
  MaxMessages = 3
  BatchRows = 2
  MaxIdlePolls = 2
  FromBeginning = TRUE
  Root = "s3"
  HoursPerDay = 2
  MaxHour = 1
  MaxDisruptions = 1
  MaxRebalances = 1
INVARIANTS
  AtMostABatchAtRisk
  BronzeRowsUniqueInCalm
PROPERTIES
  EventuallyLanded
