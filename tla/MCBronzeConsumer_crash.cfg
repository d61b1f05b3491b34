SPECIFICATION Spec
CONSTANTS
  Partitions = {p1, p2}
  Consumers = {c1}
  None = None
  Kinds = {"event", "garbage", "poison", "misnamed"}
  MaxMessages = 2
  BatchRows = 2
  MaxIdlePolls = 0
  FromBeginning = TRUE
  Root = "s3"
  HoursPerDay = 2
  MaxHour = 0
  MaxDisruptions = 2
  MaxRebalances = 0
SYMMETRY PartitionSymmetry
INVARIANTS
  TypeOK
  CommittedIsDurable
  LandingInv
  KeyDeterminesRows
  BufferedIsRedelivered
PROPERTIES
  ImplementsLanding
  CommittedNeverRegresses
  CleanExitCommitsAll
