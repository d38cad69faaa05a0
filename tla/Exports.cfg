\* Two projects that may export the CLI's own name, a registry that may be
\* unreadable, a bin directory that may be, and one restart.
SPECIFICATION FairSpec
CONSTANTS
  p1 = p1
  p2 = p2
  tool = tool
  delight = delight
  CLI = delight
  Bin = {tool, delight}
  Known <- MCKnown
  Built <- MCBuilt
  Registered <- MCRegistered
  Fragile = {"registry", p2}
  Others <- MCOthers
  WorkRoot = TRUE
  ReadOnlyTree = FALSE
  ExposeCLI = TRUE
  MaxCrashes = 1
INVARIANTS
  TypeOK
  LiveExportsLinked
  NoStaleLinks
PROPERTIES
  OwnEntriesKept
  PickedUp
