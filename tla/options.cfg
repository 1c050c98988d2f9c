\* Four strategies from every small position, any two faults.
CONSTANTS
  call = call
  put = put
  Symbols = {call, put}
  Batches <- StrategiesAndTwins
  MaxHeld = 1
  MaxFaults = 2
SPECIFICATION Spec
INVARIANTS IntactMeansExecuted OneSubmissionPerLeg
PROPERTIES NothingKeptQuietly UnwindStopsAtStart UnwindKnowsTheMarket HaltedOnlyReduces
CHECK_DEADLOCK TRUE
