\* Past the last band boundary, at 365 days, for stakes of 3, 100 and 200.
SPECIFICATION Spec
CONSTANTS
  MaxDays = 400
  Amounts = {3, 100, 200}
  Caps = {16000, 30000}
INVARIANTS
  PointsMatchDailyRates
  CyclingEarnsNoMore
CHECK_DEADLOCK FALSE
