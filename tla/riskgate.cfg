\* Two symbols, three days in weeks of two, three orders, two restarts.
CONSTANTS
  Symbols = {a, b}
  Hedged = b
  Prices = {2, 3, 4}
  Marks = {4}
  Requests <- MCRequests
  Correlation <- MCCorrelation
  Elsewhere <- MCElsewhere
  StartingBalance = 4
  RiskPct = 50
  MaxExposurePct = 350
  MaxCorrelatedPct = 300
  MaxDailyLossPct = 50
  MaxWeeklyLossPct = 75
  MaxTradesPerDay = 2
  MaxOpenPositions = 2
  MaxRejections = 2
  MaxStaleness = 1
  MaxParticipationPct = 10
  MaxEntryDeviationPct = 50
  WeekDays = 2
  MaxDay = 2
  MaxOrders = 3
  MaxBuilds = 2
SPECIFICATION Spec
INVARIANTS CountersFollowJournal ExitAlwaysOpen CashFollowsJournal
PROPERTIES FillsWithinLimits
CHECK_DEADLOCK TRUE
