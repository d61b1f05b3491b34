SPECIFICATION Spec
CONSTANTS
  Partitions = {p1}
  Consumers = {c1}
  None = None
  Kinds = {"event", "garbage"}
  MaxMessages = 2
  BatchRows = 2
  MaxIdlePolls = 0
  FromBeginning = TRUE
  Root = "s3"
  HoursPerDay = 2
  MaxHour = 1
  MaxDisruptions = 1
  MaxRebalances = 0
INVARIANTS
  BronzeRowsUnique
