SPECIFICATION Spec
CONSTANTS
  t1 = t1
  t2 = t2
  s1 = s1
  s2 = s2
  None = None
  Managers = {loop, worker}
  LoopManagers = {loop}
  Traders = {t1, t2}
  Symbols = {s1, s2}
  MaxPositions = 1
  OrderSizes = {1}
  QtyBound = 2
SYMMETRY Symmetry
INVARIANTS TradersIsolated
