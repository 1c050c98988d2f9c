\* A bucket whose last minute does not trade.
CONSTANTS
  Timeframes <- MCTimeframes
  SessionOpen = 1
  Day = 4
  Repeats = 2
  MaxMinute = 7
  MaxTicks = 5
  MaxFaults = 0
SPECIFICATION PipelineSpec
INVARIANTS EveryTradedBucketDerived
CHECK_DEADLOCK FALSE
