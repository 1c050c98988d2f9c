\* Liveness, with every fault and crash still possible.
CONSTANTS
  ApiCalls = {h1, h2}
  Worker = worker
  TTL = 1
  Wait = 1
  Limit = 1
  MaxOrder = 1
  FailOpen = {}
SPECIFICATION FairSpec
PROPERTIES HangStaysInProcess OrphanedLeaseEnds
CHECK_DEADLOCK TRUE
