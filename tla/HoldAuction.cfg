SPECIFICATION FairSpec
CONSTANTS
  Bidders <- MCBidders
  Adapters <- MCAdapters
  Aliases <- MCAliases
  Requests <- MCRequests
  Calls <- MCCalls
  Replies <- MCReplies
CHECK_DEADLOCK FALSE
INVARIANTS
  SeatsAreAnswers
  NoBetterBidDropped
  CachedBidIsWinner
  SeatKeysDescribeSeat
PROPERTIES
  KeepsPromise
  AuctionEnds
