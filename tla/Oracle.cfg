\* Two projects, one read at a time; any read may hang.
SPECIFICATION FairSpec
CONSTANTS
  Project = {p1, p2}
  Worked = {p1}
  Cap = 1
  MaxHead = 2
INVARIANTS
  TypeOK
  SafeIsTrue
PROPERTIES
  ResultIsFinal
  SweepAnswered
