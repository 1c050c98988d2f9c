\* Every series of seven bars of five shapes, days of three bars, weeks of two
\* days; the scanner passes over the last two.
CONSTANTS
  Shapes <- MCShapes
  SwingLength = 1
  Lookback = 3
  ToleranceBp = 4000
  DayBars = 3
  WeekBars = 6
  SessionStart = 0
  OpeningBars = 2
  MaxBars = 7
  Strategies <- MCStrategies
  FirstScan = 6
SPECIFICATION ScannerSpec
INVARIANTS AnalysisExact JournalFollows
PROPERTIES NothingRetracted
\* A series of candles ends.
CHECK_DEADLOCK FALSE
