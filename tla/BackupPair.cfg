\* Two projects sharing one publisher: safety.
SPECIFICATION Spec
CONSTANTS
  Project = {p1, p2}
  TicksPerMinute = 1
  MaxErrors = 2
  KafkaConfigured = TRUE
SYMMETRY Symmetry
INVARIANTS
  TypeOK
  CheckpointOwnsMachine
  RegistrationSerialised
  BackoffHonoured
PROPERTY PromiseSafe
