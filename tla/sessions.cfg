\* Two requests at once and a socket, over three sessions of one user.
CONSTANTS
  Requests = {r1, r2}
  Sockets = {w1}
  SessionLife = 2
  AccessLife = 2
  RecheckAfter = 1
  MaxSessions = 3
  MaxTime = 3
SYMMETRY Symmetry
SPECIFICATION Spec
INVARIANTS OneLivePerLogin ReuseContained RelayBounded
CHECK_DEADLOCK FALSE
