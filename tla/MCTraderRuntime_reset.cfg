SPECIFICATION Spec
CONSTANTS
  Managers = {loop}
  LoopManagers = {loop}
  AutoStart = TRUE
  MaxDailyLossUSD = 1
  MaxDailyLossPct = 0
  Equities = {0, 1, 3}
  Controls = {}
  ReadsFail = TRUE
  PauseLength = 1
  DayLength = 1
  MaxTime = 2
INVARIANTS OneBaselinePerDay
