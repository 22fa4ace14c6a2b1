CONSTANTS
  Capacity = 1
  MaxAttempts = 2
  NoTask = NoTask
  Symbols = {s1}
  MaxEvents = 4
  MaxSide = 1
  RecentLimit = 1
  Coins = {c1}
  AssetList = assets
  Fetchers = {ingestor, checker}
  Checker = checker
  MaxLive = 2
  MaxRestarts = 1
  Procs = {p1, p2}
  Traders = {t1}
  Configs = {yaml1, yaml2}
  Absent = Absent
  MaxStarts = 3
SPECIFICATION Spec
INVARIANTS
  EngineTypeOK CacheFollowsDatabase TradesTruthful RetryRepairs
  MarketTypeOK PublishedWasStored StartupRefreshes CacheAlarmsExplained
  ConfigTypeOK TradedIsRecorded VersionsIdentify
PROPERTY RetriesDrain
CHECK_DEADLOCK FALSE
