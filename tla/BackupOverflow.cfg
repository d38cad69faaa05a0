\* One failure more.
SPECIFICATION Spec
CONSTANTS
  Project = {p1}
  TicksPerMinute = 1
  MaxErrors = 28
  KafkaConfigured = FALSE
INVARIANT BackoffHonoured
