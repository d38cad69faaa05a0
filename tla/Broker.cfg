\* Two requests race for one address; clock readings up to one tick stale,
\* failing transactions and a store that may not open.
SPECIFICATION FairSpec
CONSTANTS
  Project = {p1, p2}
  Service = {p1, p2}
  ServiceOf <- MCServiceOf
  Address = {a1}
  Request = {r1, r2}
  TTL = 3
  Grace = 2
  MaxDelay = 1
  StoreFaults = TRUE
  OpenFaults = TRUE
INVARIANTS
  TypeOK
  EndpointUnique
  GracefulDropsNothing
PROPERTIES
  OnlySilenceExpires
  DeadIsExpired
