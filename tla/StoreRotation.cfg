\* Keep everything, one or two; four seconds; every call failing, the process
\* dying anywhere, the clock set back, and archives of somebody else.
SPECIFICATION Spec
CONSTANTS
  MaxClock = 4
  Limits = {0, 1, 2}
  Foreign = {0, 9}
INVARIANTS
  TypeOK
  SuccessIsComplete
  RotationBounds
  AGoodArchiveSurvives
PROPERTIES
  OnlyExcessDeleted
  UnsetKeepsAll
