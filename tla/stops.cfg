\* One position and its stop, with a fault, crash or resume.
CONSTANTS
  MaxQty = 2
  MaxStops = 2
  MaxFaults = 1
SPECIFICATION FairSpec
INVARIANTS ProtectedAtRest OneStopRests
PROPERTIES DivergenceHalts
CHECK_DEADLOCK TRUE
