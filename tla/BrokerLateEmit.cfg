\* A handler outlives server.Shutdown.
SPECIFICATION Spec
CONSTANTS
  Project = {p1}
  Service = {p1}
  ServiceOf <- MCServiceOf
  Address = {a1}
  Request = {r1}
  TTL = 2
  Grace = 1
  MaxDelay = 1
  StoreFaults = FALSE
  OpenFaults = FALSE
INVARIANT NothingDroppedOnExit
