\* A commit lands between two reads of one tree.
SPECIFICATION Spec
CONSTANTS
  Project = {p1}
  Worked = {p1}
  Cap = 1
  MaxHead = 2
INVARIANT CleanIsTrue
