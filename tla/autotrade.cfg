\* Two strategies on one instrument, two days, crashes and failed writes.
CONSTANTS
  Strategies = {s1, s2}
  Instruments = {i1}
  TradeCap = 1
  OpenCap = 1
  LossCap = 2
  FailOpen = TRUE
  Touches = {{}, {"stop"}}
  MaxBar = 2
  MaxDay = 2
  MaxVersion = 2
  MaxFaults = 1
  MaxChanges = 1
SPECIFICATION FairSpec
INVARIANTS EntriesWithinCap RestartForgetsNothing
PROPERTIES JournalNamesOpener StopsHonoured
CHECK_DEADLOCK FALSE
