\* A workload and an object of a late kind, two requests at a time.
SPECIFICATION FairSpec
CONSTANTS
  Size = 2
  Workload = {1}
  Late = {2}
  Request = {r1, r2}
  Clearing = {r2}
INVARIANTS
  TypeOK
  ReportIsTrue
PROPERTY RetryConverges
