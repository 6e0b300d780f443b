SPECIFICATION FairSpec
CONSTANTS
  b1 = b1
  b2 = b2
  r1 = r1
  r2 = r2
  i1 = i1
  USD = USD
  EUR = EUR
  JPY = JPY
  NoCur = NoCur
  NoBids = NoBids
  NoCall = NoCall
  Nobody = Nobody
  Bidder = {b1, b2}
  Seat = {b1, b2}
  HasImps = {b1}
  Request = {r1, r2}
  StoredImp = {i1}
  Stored <- StoredAtBoth
  Codes <- MCCodes
  Cur = {USD, EUR, JPY}
  ReqCur <- MCReqCur
  Rates <- EuroRates
  Response <- MCResponses
CHECK_DEADLOCK FALSE
INVARIANTS
  SendNeverBlocks
  ReceiverNeverStarves
  NoBidLost
  EveryFailureReported
PROPERTIES
  AuctionCompletes
