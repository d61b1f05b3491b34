SPECIFICATION Spec
CONSTANTS
  LineKinds = {"valid", "invalid", "raw", "broken", "scalar"}
  MaxLines = 3
  PollEvery = 2
  QueueLimit = 2
  MaxRuns = 2
CHECK_DEADLOCK FALSE
INVARIANTS
  SentIsAccounted
  CleanRunPublishesAll
