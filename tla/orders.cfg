\* Two orders, two handlers, any two faults, crashes or rebuilds.
CONSTANTS
  Keys = {k1, k2}
  Exits = {k2}
  Handlers = {h1, h2}
  MaxTrades = 1
  RejectLimit = 2
  MaxFaults = 2
SPECIFICATION Spec
SYMMETRY HandlerSymmetry
INVARIANTS LockFollowsHandler NeverIllegal OneSubmissionPerKey TrailFaithful MirrorAtRest CancelledIsDead
PROPERTIES DailyCapHolds
CHECK_DEADLOCK TRUE
