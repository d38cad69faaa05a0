\* One project and a publisher under FairSpec: refinement and liveness.
SPECIFICATION FairSpec
CONSTANTS
  Project = {p1}
  TicksPerMinute = 1
  MaxErrors = 2
  KafkaConfigured = TRUE
PROPERTIES
  PromiseKept
  ChurnIsBackedUp
  ErrorIsRetried
