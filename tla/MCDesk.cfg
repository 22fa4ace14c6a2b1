CONSTANTS
  Markets = {m1, m2}
  Sizes = {1, 2}
  Ticks = {60000, 120000}
  InitialCash = 150000
  FallbackPx = 60000
  FeeDen = 20
  SlipDen = 10
  Levers = {5}
  NoOrder = NoOrder
  MaxOrders = 2
  Replayed = m1
  Stakes = {120000}
  LotSz = 1
  ThresholdP = 50
  MaxSteps = 4
  MaxDecisions = 1
  Handlers = {h1, h2}
  CommandRefs = {ref1}
  IdemKeys = {k1}
  NoKey = NoKey
  MaxCommands = 3
  Models = {t1, t2}
  OrderCoins = {c1}
  AnyCoin = AnyCoin
  NoTrade = NoTrade
  PageLimit = 1
  ScanCap = 2
  MaxAudit = 3
  MaxSnapshots = 2
  MaxMarker = 1
  PlanCap = 2
  MaxPlans = 3
  MaxPolls = 2
  MaxMove = 4
  MaxFee = 4
  Callers = {g1, g2}
  TokenLimit = 2
  MaxTokens = 2
  MaxRetries = 1
  Strict = TRUE
  MaxCalls = 3
  MaxDays = 2
  Coins = {btc, alt}
  Majors = {btc}
  Equities = {0, 4}
  HeldMargin = 1
  Notionals = {4, 8}
  Leverages = {1, 4}
  MajorCoinLeverage = 4
  AltcoinLeverage = 3
  AssetLeverage = 2
  MajorFloor = 2
  AltFloor = 1
  MajorMultiple = 2
  AltMultiple = 1
  MaxMarginUsagePct = 50
  MaxPositions = 2
  MaxMoves = 2
  MaxCycles = 1
SPECIFICATION Spec
INVARIANTS
  LedgerBalances CanUnwind BooksAgree QueueConsistent
  PagingComplete TotalsComplete TradeAddsUp
  SpendBounded AcceptedFits
PROPERTY CallsEnd
CHECK_DEADLOCK FALSE
