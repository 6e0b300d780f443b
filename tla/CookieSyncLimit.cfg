SPECIFICATION BiddersSpec
CONSTANTS
  MaxImpsPerCall = 2
  Policies <- MCSmaato
  BidRequests <- MCBidRequests
  Answers <- MCAnswers
  SyncBidders = {"b1", "b2", "b3", "nourl", "denied"}
  NoUrl = {"nourl"}
  Denied = {"denied"}
  SyncAccounts <- MCSyncAccounts
  account_required = TRUE
  gdpr_enabled = TRUE
  SyncBodies <- MCSyncBodies
  UsizeMax = 1000
  UidTtl = 2
  CookieTtl = 3
  MaxOutside = 1
CHECK_DEADLOCK FALSE
INVARIANT
  LimitIsTheAccounts
