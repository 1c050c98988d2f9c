\* Every fault, the API open and the worker closed on Redis errors.
CONSTANTS
  ApiCalls = {h1, h2}
  Worker = worker
  TTL = 2
  Wait = 2
  Limit = 2
  MaxOrder = 2
  FailOpen = {"manual"}
SPECIFICATION Spec
SYMMETRY HandlerSymmetry
INVARIANTS MutualExclusion HandlersSerialized ExposureWithinLimit
PROPERTIES OnlyOwnerReleases WaitCoversHold GateSpec
CHECK_DEADLOCK TRUE
