SPECIFICATION FairSpec
CONSTANTS
  t1 = t1
  t2 = t2
  s1 = s1
  s2 = s2
  None = None
  Managers = {loop}
  LoopManagers = {loop}
  Traders = {t1, t2}
  Symbols = {s1, s2}
  MaxPositions = 2
  OrderSizes = {2}
  QtyBound = 2
INVARIANTS OpensFromReconciledBook
PROPERTIES NoStackedOpens StaleEntriesReleased
