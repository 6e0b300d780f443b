SPECIFICATION ServicesSpec
CONSTANTS
  Events <- MCEvents
  Accounts <- MCAccounts
  MaxCount = 2
  MaxBytes = 3
  MaxRefreshes = 1
  LogTasks = {t1, t2, t3}
  BatchSize = 2
  Fetchers = {f1, f2}
  MaxAge = 1
  Timeout = 1
  Interval = 2
  MaxTime = 5
  Ids = {i1, i2}
  Files = {i1}
  Batches = {{i1}, {i2}}
  Askers = {a1, a2}
  StoreTtl = 2
  FetchTimeout = 1
  LastTick = 3
  Bidders <- MCBidders
  Vendors <- MCVendors
  NoVendor = 0
  PurposeIds = {1, 2, 3}
  Configs <- MCConfigs
  Statements <- MCStatements
CHECK_DEADLOCK FALSE
INVARIANTS
  DeliveredAtMostOnce
  StopsEmptyHanded
  
  OverflowIsOwed
  TakenOnce
  ServedFloorsAreRecent
  RatesExpireWithinOneUpdate
  StoredDataIsRecent
PROPERTIES
  WithdrawalOpensNoGate
  ShutdownReturns
  EveryEventLeaves
