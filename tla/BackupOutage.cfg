SPECIFICATION OutageSpec
CONSTANTS
  Project = {p1}
  TicksPerMinute = 1
  MaxErrors = 1
  KafkaConfigured = TRUE
PROPERTY EmissionNeverBlocks
