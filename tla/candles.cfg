\* Ticks over eight minutes, two derived timeframes, two faults.
CONSTANTS
  Timeframes <- MCTimeframes
  SessionOpen = 1
  Day = 4
  Repeats = 2
  MaxMinute = 7
  MaxTicks = 5
  MaxFaults = 2
SPECIFICATION PipelineSpec
INVARIANTS CandlesComplete DerivedFollows
CHECK_DEADLOCK FALSE
