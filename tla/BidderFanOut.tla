---------------------------- MODULE BidderFanOut ----------------------------
(***************************************************************************)
(* The fan-out of one auction: exchange.getAllBids starts one goroutine    *)
(* per bidder, each runs requestBid, and the loop that started them        *)
(* receives one bidResponseWrapper per bidder from the buffered channel    *)
(* chBids and merges its seats.  requestBid in turn starts one goroutine   *)
(* per HTTP request and per stored response and receives their             *)
(* httpCallInfos from the buffered channel responseChannel.                *)
(*                                                                         *)
(* A bid is told apart by who made it (bidder, call, position in the       *)
(* response); its price is abstracted to `cur', the currency the price is  *)
(* in after conversion and adjustment.  A list of bids is a set, because   *)
(* its elements are distinct and nothing here depends on their order.      *)
(***************************************************************************)
EXTENDS Integers, Sequences, FiniteSets

CONSTANTS
  Bidder,     \* the bidders of the auction, one BidderRequest each
  Seat,       \* seat names: the bidders and the alternate bidder codes
  HasImps,    \* the bidders whose request still has imps to send
  Request,    \* identities of the HTTP requests an adapter may make
  StoredImp,  \* identities of imps with a stored bid response
  Stored,     \* the BidderStoredResponses of each bidder
  Codes,      \* the alternate bidder codes allowed to each bidder
  Cur,        \* currencies
  USD,        \* the default currency
  NoCur,      \* the empty currency string
  ReqCur,     \* request.cur, in order of preference
  Rates,      \* the pairs of currencies GetRate knows a rate for
  Response,   \* what MakeBids may return
  NoBids,     \* the nil response
  NoCall,     \* no call is being handled
  Nobody      \* the empty bidder name

Call == Request \cup StoredImp

\* What the model tells apart in one bid of an adapter's response: its seat,
\* the currency of the static adjustment that applies to it (NoCur if none
\* does), and whether validateBid will accept it.
RawBid == [seat : Seat, static : Cur \cup {NoCur}, kind : {"valid", "invalid", "nil"}]

ASSUME FanOutAssumption ==
  /\ IsFiniteSet(Bidder) /\ Bidder # {} /\ Bidder \subseteq Seat
  /\ IsFiniteSet(Request) /\ IsFiniteSet(StoredImp)
  /\ Request \cap StoredImp = {}
  /\ HasImps \subseteq Bidder
  /\ Stored \in [Bidder -> SUBSET StoredImp]
  /\ \A b \in Bidder : b \in HasImps \/ Stored[b] # {}
  /\ Codes \in [Bidder -> SUBSET Seat]
  /\ USD \in Cur /\ NoCur \notin Cur
  /\ ReqCur \in Seq(Cur) /\ ReqCur # <<>>
  /\ Rates \subseteq Cur \X Cur
  /\ Response \subseteq [cur : Cur, fledge : BOOLEAN, bids : Seq(RawBid)]
  /\ NoBids \notin Response /\ NoCall \notin Call /\ Nobody \notin Bidder

VARIABLES
  expired,          \* the auction context's deadline has passed
  pc,               \* where each bidder's goroutine is
  dataLen,          \* capacity of each bidder's responseChannel
  running,          \* the calls in flight, per bidder
  outcome,          \* how each call ended
  responseChannel,  \* per bidder, the calls whose httpCallInfo is queued
  received,         \* per bidder, the index i of the receive loop
  current,          \* per bidder, the call whose response is being handled
  pending,          \* per bidder, the bids of it not yet handled
  convCur,          \* per bidder, the request currency it is converted to
  reply,            \* per bidder and call, the response taken from MakeBids
  seatBids,         \* seatBidMap[seat].Bids, per bidder
  seatCur,          \* seatBidMap[seat].Currency, per bidder
  seatFledge,       \* per bidder, the calls that gave FledgeAuctionConfigs
  nonBids,          \* per bidder, its seatNonBidBuilder
  chBids,           \* the bidders whose wrapper is queued
  merged,           \* the bidders whose wrapper the loop has merged
  adapterBids,      \* per seat, the merged bids
  adapterCur,       \* per seat, the merged seat's Currency
  adapterExtra,     \* the keys of the map adapterExtra
  fledge,           \* the merged FledgeAuctionConfigs
  seatNonBid        \* the merged seat non-bids

callVars    == <<dataLen, running, outcome, responseChannel>>
handleVars  == <<received, current, pending, convCur, reply>>
resultVars  == <<seatBids, seatCur, seatFledge, nonBids>>
auctionVars == <<merged, adapterBids, adapterCur, adapterExtra, fledge, seatNonBid>>
vars == <<expired, pc, callVars, handleVars, resultVars, chBids, auctionVars>>

-----------------------------------------------------------------------------
Reasons  == {"ErrorTimeout", "ErrorBidderUnreachable", "ErrorGeneral"}
Outcomes == {"none", "ok"} \cup Reasons
Bid == [bidder : Bidder, call : Call, idx : Nat, cur : Cur \cup {NoCur},
        kind : {"valid", "invalid", "nil"}]

\* The bidder's goroutine is inside requestBid.
Working == {"start", "inline", "collect", "bids"}
\* It has sent its wrapper: normally, early, or from recoverSafely.
Sent == {"returned", "refused", "panicked"}

Init ==
  /\ expired = FALSE
  /\ pc = [b \in Bidder |-> "start"]
  /\ dataLen = [b \in Bidder |-> 0]
  /\ running = [b \in Bidder |-> {}]
  /\ outcome = [b \in Bidder |-> [c \in Call |-> "none"]]
  /\ responseChannel = [b \in Bidder |-> <<>>]
  /\ received = [b \in Bidder |-> 0]
  /\ current = [b \in Bidder |-> NoCall]
  /\ pending = [b \in Bidder |-> <<>>]
  /\ convCur = [b \in Bidder |-> NoCur]
  /\ reply = [b \in Bidder |-> [c \in Call |-> NoBids]]
  /\ seatBids = [b \in Bidder |-> [s \in Seat |-> {}]]
  /\ seatCur = [b \in Bidder |-> [s \in Seat |-> USD]]
  /\ seatFledge = [b \in Bidder |-> {}]
  /\ nonBids = [b \in Bidder |-> {}]
  /\ chBids = <<>>
  /\ merged = {}
  /\ adapterBids = [s \in Seat |-> {}]
  /\ adapterCur = [s \in Seat |-> NoCur]
  /\ adapterExtra = {}
  /\ fledge = {}
  /\ seatNonBid = {}

\* chBids <- brw: the channel holds len(bidderRequests) wrappers, and a send
\* to a full one would block.
SendWrapper(b, how) ==
  /\ Len(chBids) < Cardinality(Bidder)
  /\ chBids' = Append(chBids, b)
  /\ pc' = [pc EXCEPT ![b] = how]

\* A return with no seats: the ExecuteBidderRequestStage hook rejects the
\* bidder, or MakeRequests makes no request.  Stored responses are dropped.
ReturnEarly(b) ==
  /\ pc[b] = "start"
  /\ SendWrapper(b, "refused")
  /\ UNCHANGED <<expired, callVars, handleVars, resultVars, auctionVars>>

\* Fault: the channel is sized for the HTTP requests only.
MakeChannelForRequests(b, R) == dataLen' = [dataLen EXCEPT ![b] = Cardinality(R)]

\* make(chan *httpCallInfo, dataLen), sized for the HTTP requests R and the
\* stored responses.
MakeChannel(b, R) == dataLen' = [dataLen EXCEPT ![b] = Cardinality(R) + Cardinality(Stored[b])]

\* Fault: the stored responses are counted but not started.
MakeRequestsOnly(b, R) ==
  /\ pc[b] = "start"
  /\ IF b \in HasImps THEN Cardinality(R) > 1 ELSE R = {}
  /\ MakeChannel(b, R)
  /\ running' = [running EXCEPT ![b] = R]
  /\ pc' = [pc EXCEPT ![b] = "collect"]
  /\ UNCHANGED <<expired, outcome, responseChannel, handleVars, resultVars, chBids, auctionVars>>

\* More than one request: a goroutine for each, and one for each stored
\* response.  No imps: the stored responses only.
MakeRequests(b, R) ==
  /\ pc[b] = "start"
  /\ IF b \in HasImps THEN Cardinality(R) > 1 ELSE R = {}
  /\ MakeChannel(b, R)
  /\ running' = [running EXCEPT ![b] = R \cup Stored[b]]
  /\ pc' = [pc EXCEPT ![b] = "collect"]
  /\ UNCHANGED <<expired, outcome, responseChannel, handleVars, resultVars, chBids, auctionVars>>

\* One request is made by the bidder's own goroutine.
MakeOneRequest(b, r) ==
  /\ pc[b] = "start" /\ b \in HasImps
  /\ MakeChannel(b, {r})
  /\ running' = [running EXCEPT ![b] = {r}]
  /\ pc' = [pc EXCEPT ![b] = "inline"]
  /\ UNCHANGED <<expired, outcome, responseChannel, handleVars, resultVars, chBids, auctionVars>>

\* doRequest and prepareStoredResponse: a stored response is always there; a
\* call is throttled, short of time, refused, badly answered or answered, and
\* is a Timeout only when the context's deadline has passed.
EndsAs(c, o) ==
  \/ o = "ok"
  \/ c \in Request /\ o \in {"ErrorGeneral", "ErrorBidderUnreachable"}
  \/ c \in Request /\ o = "ErrorTimeout" /\ expired

EndCall(b, c, o) ==
  /\ c \in running[b]
  /\ EndsAs(c, o)
  /\ Len(responseChannel[b]) < dataLen[b]
  /\ responseChannel' = [responseChannel EXCEPT ![b] = Append(@, c)]
  /\ outcome' = [outcome EXCEPT ![b][c] = o]

\* A goroutine of its own ends its call.
DoRequest(b, c, o) ==
  /\ pc[b] # "inline"
  /\ EndCall(b, c, o)
  /\ running' = [running EXCEPT ![b] = @ \ {c}]
  /\ UNCHANGED <<expired, pc, dataLen, handleVars, resultVars, chBids, auctionVars>>

\* The bidder's goroutine ends the only request and then starts the stored
\* responses.
DoRequestInline(b, c, o) ==
  /\ pc[b] = "inline"
  /\ EndCall(b, c, o)
  /\ running' = [running EXCEPT ![b] = Stored[b]]
  /\ pc' = [pc EXCEPT ![b] = "collect"]
  /\ UNCHANGED <<expired, dataLen, handleVars, resultVars, chBids, auctionVars>>

-----------------------------------------------------------------------------
\* httpInfo := <-responseChannel.
Receive(b, c) ==
  /\ pc[b] = "collect"
  /\ received[b] < dataLen[b]
  /\ responseChannel[b] # <<>>
  /\ c = Head(responseChannel[b])
  /\ responseChannel' = [responseChannel EXCEPT ![b] = Tail(@)]

\* Fault: an error replaces those before it.
RejectLastOnly(b, c) == [nonBids EXCEPT ![b] = {<<c, outcome[b][c]>>}]

\* seatNonBidBuilder.rejectImps, with the reason of the call's error.
rejectImps(b, c) == [nonBids EXCEPT ![b] = @ \cup {<<c, outcome[b][c]>>}]

\* httpInfo.err # nil: the imps of the call become non-bids.
RejectCall(b, c) ==
  /\ Receive(b, c)
  /\ outcome[b][c] \in Reasons
  /\ received' = [received EXCEPT ![b] = @ + 1]
  /\ nonBids' = rejectImps(b, c)
  /\ UNCHANGED <<expired, pc, dataLen, running, outcome, current, pending, convCur, reply,
                 seatBids, seatCur, seatFledge, chBids, auctionVars>>

\* MakeBids returns nil, or the ExecuteRawBidderResponseStage hook rejects
\* what it returns.
NoBidResponse(b, c) ==
  /\ Receive(b, c)
  /\ outcome[b][c] = "ok"
  /\ received' = [received EXCEPT ![b] = @ + 1]
  /\ UNCHANGED <<expired, pc, dataLen, running, outcome, current, pending, convCur, reply,
                 resultVars, chBids, auctionVars>>

\* The positions in request.cur of the currencies that the response's
\* currency converts to; the loop over request.cur stops at the first.
Matches(k) == {i \in 1..Len(ReqCur) : <<k, ReqCur[i]>> \in Rates}
FirstMatch(k) == ReqCur[CHOOSE i \in Matches(k) : \A j \in Matches(k) : i <= j]

\* MakeBids returns r.  The main seat takes the currency r converts to and
\* r's FLEDGE configs, and r's bids are handled one by one.
MakeBids(b, c, r) ==
  /\ Receive(b, c)
  /\ outcome[b][c] = "ok"
  /\ seatFledge' = IF r.fledge THEN [seatFledge EXCEPT ![b] = @ \cup {c}] ELSE seatFledge
  /\ reply' = [reply EXCEPT ![b][c] = r]
  /\ IF Matches(r.cur) # {}
       THEN /\ convCur' = [convCur EXCEPT ![b] = FirstMatch(r.cur)]
            /\ seatCur' = [seatCur EXCEPT ![b][b] = FirstMatch(r.cur)]
            /\ pending' = [pending EXCEPT ![b] = r.bids]
            /\ current' = [current EXCEPT ![b] = c]
            /\ pc' = [pc EXCEPT ![b] = "bids"]
            /\ received' = received
       ELSE /\ received' = [received EXCEPT ![b] = @ + 1]
            /\ UNCHANGED <<pc, convCur, seatCur, pending, current>>
  /\ UNCHANGED <<expired, dataLen, running, outcome, seatBids, nonBids, chBids, auctionVars>>

\* IsValidBidderCode: a bidder's own name, or a code allowed to it.
IsValidBidderCode(b, s) == s = b \/ s \in Codes[b]

\* The currency after bidadjustment.Apply, which is told the currency of the
\* bidder's main seat.  A nil bid is not adjusted and leaves it empty.
CurrencyAfterAdjustments(b, bid) ==
  IF bid.kind = "nil" THEN NoCur
  ELSE IF bid.static # NoCur THEN bid.static ELSE seatCur[b][b]

\* What the price of the bid is in: the static adjustment's currency, or the
\* currency the response was converted to.
PriceCurrency(b, bid) ==
  IF bid.kind # "nil" /\ bid.static # NoCur THEN bid.static ELSE convCur[b]

\* One iteration of the loop over bidResponse.Bids.
HandleBid(b) ==
  /\ pc[b] = "bids" /\ pending[b] # <<>>
  /\ LET bid == Head(pending[b])
         s   == bid.seat
         new == [bidder |-> b, call |-> current[b], idx |-> Len(pending[b]),
                 cur |-> PriceCurrency(b, bid), kind |-> bid.kind]
     IN  IF IsValidBidderCode(b, s)
           THEN /\ seatBids' = [seatBids EXCEPT ![b][s] = @ \cup {new}]
                /\ seatCur' = [seatCur EXCEPT ![b][s] = CurrencyAfterAdjustments(b, bid)]
           ELSE UNCHANGED <<seatBids, seatCur>>
  /\ pending' = [pending EXCEPT ![b] = Tail(@)]
  /\ UNCHANGED <<expired, pc, callVars, received, current, convCur, reply,
                 seatFledge, nonBids, chBids, auctionVars>>

\* The loop over bidResponse.Bids ends.
NextResponse(b) ==
  /\ pc[b] = "bids" /\ pending[b] = <<>>
  /\ received' = [received EXCEPT ![b] = @ + 1]
  /\ current' = [current EXCEPT ![b] = NoCall]
  /\ convCur' = [convCur EXCEPT ![b] = NoCur]
  /\ pc' = [pc EXCEPT ![b] = "collect"]
  /\ UNCHANGED <<expired, callVars, pending, reply, resultVars, chBids, auctionVars>>

\* validateCurrency: the empty currency counts as USD.
CurrencyAllowed(k) ==
  \E i \in 1..Len(ReqCur) : ReqCur[i] = IF k = NoCur THEN USD ELSE k

\* removeInvalidBids on every seat.
ValidBids(b) ==
  [s \in Seat |-> IF CurrencyAllowed(seatCur[b][s])
                    THEN {bid \in seatBids[b][s] : bid.kind = "valid"}
                    ELSE {}]

\* Every httpCallInfo is received: requestBid returns its seats, the
\* validating wrapper filters them, and the goroutine sends them.
Return(b) ==
  /\ pc[b] = "collect"
  /\ received[b] = dataLen[b]
  /\ seatBids' = [seatBids EXCEPT ![b] = ValidBids(b)]
  /\ SendWrapper(b, "returned")
  /\ UNCHANGED <<expired, callVars, handleVars, seatCur, seatFledge, nonBids, auctionVars>>

\* Fault: the recovered panic sends nothing.
RecoverSilently(b) ==
  /\ seatBids' = [seatBids EXCEPT ![b] = [s \in Seat |-> {}]]
  /\ seatFledge' = [seatFledge EXCEPT ![b] = {}]
  /\ nonBids' = [nonBids EXCEPT ![b] = {}]
  /\ pc' = [pc EXCEPT ![b] = "panicked"]
  /\ UNCHANGED <<expired, dataLen, outcome, handleVars, seatCur, chBids, auctionVars>>

\* The adapter panics in MakeRequests, in its only request or in MakeBids.
\* recoverSafely sends a wrapper with no bidder name and no seats; calls
\* already in flight on goroutines of their own go on.
Recover(b) ==
  /\ seatBids' = [seatBids EXCEPT ![b] = [s \in Seat |-> {}]]
  /\ seatFledge' = [seatFledge EXCEPT ![b] = {}]
  /\ nonBids' = [nonBids EXCEPT ![b] = {}]
  /\ SendWrapper(b, "panicked")
  /\ UNCHANGED <<expired, dataLen, outcome, handleVars, seatCur, auctionVars>>

PanicInRequest(b) ==
  /\ b \in HasImps /\ pc[b] \in {"start", "inline"}
  /\ running' = [running EXCEPT ![b] = {}]
  /\ Recover(b)
  /\ UNCHANGED responseChannel

PanicInMakeBids(b, c) ==
  /\ Receive(b, c)
  /\ outcome[b][c] = "ok"
  /\ Recover(b)
  /\ UNCHANGED running

Panic(b) == PanicInRequest(b) \/ \E c \in Call : PanicInMakeBids(b, c)

\* Fault: the bids of a seat seen before are replaced.
MergedBidsOfLast(b) == [s \in Seat |-> IF seatBids[b][s] = {} THEN adapterBids[s] ELSE seatBids[b][s]]

\* The seats of b are appended to those of the same name.
MergedBids(b) == [s \in Seat |-> adapterBids[s] \cup seatBids[b][s]]

\* collectFledgeFromSeatBid, whether or not the seat has bids.
CollectFledge(b) == fledge \cup {<<b, c>> : c \in seatFledge[b]}

\* brw := <-chBids and the merge of its seats: a seat seen before keeps the
\* currency it was first merged with.
Merge(b) ==
  /\ merged # Bidder
  /\ chBids # <<>>
  /\ b = Head(chBids)
  /\ chBids' = Tail(chBids)
  /\ merged' = merged \cup {b}
  /\ adapterBids' = MergedBids(b)
  /\ adapterCur' = [s \in Seat |-> IF seatBids[b][s] # {} /\ adapterBids[s] = {}
                                     THEN seatCur[b][s] ELSE adapterCur[s]]
  /\ adapterExtra' = adapterExtra \cup {IF pc[b] = "panicked" THEN Nobody ELSE b}
  /\ fledge' = CollectFledge(b)
  /\ seatNonBid' = seatNonBid \cup {<<b, n>> : n \in nonBids[b]}
  /\ UNCHANGED <<expired, pc, callVars, handleVars, resultVars>>

\* The auction context's deadline passes.
Expire ==
  /\ ~expired
  /\ expired' = TRUE
  /\ UNCHANGED <<pc, callVars, handleVars, resultVars, chBids, auctionVars>>

\* The auction has its bids and no goroutine of it is left.
Finished ==
  /\ expired /\ merged = Bidder /\ \A b \in Bidder : running[b] = {}
  /\ UNCHANGED vars

BidderStep(b) ==
  \/ ReturnEarly(b)
  \/ \E R \in SUBSET Request : MakeRequests(b, R)
  \/ \E r \in Request : MakeOneRequest(b, r)
  \/ \E c \in Call : RejectCall(b, c) \/ NoBidResponse(b, c)
  \/ \E c \in Call, r \in Response : MakeBids(b, c, r)
  \/ HandleBid(b)
  \/ NextResponse(b)
  \/ Return(b)

CallStep(b, c) == \E o \in Outcomes : DoRequest(b, c, o) \/ DoRequestInline(b, c, o)

Next ==
  \/ \E b \in Bidder : BidderStep(b) \/ Panic(b) \/ Merge(b)
  \/ \E b \in Bidder, c \in Call : CallStep(b, c)
  \/ Expire
  \/ Finished

Spec == Init /\ [][Next]_vars

\* Goroutines run when they can; the deadline comes; a call with no answer
\* ends once the deadline has passed, and a stored response needs none.
Fairness ==
  /\ WF_vars(Expire)
  /\ \A b \in Bidder : WF_vars(BidderStep(b)) /\ WF_vars(Merge(b))
  /\ \A b \in Bidder, c \in Call :
       WF_vars((expired \/ c \in StoredImp) /\ CallStep(b, c))

FairSpec == Spec /\ Fairness

-----------------------------------------------------------------------------
CallTypesOK ==
  /\ expired \in BOOLEAN
  /\ pc \in [Bidder -> Working \cup Sent]
  /\ dataLen \in [Bidder -> Nat]
  /\ running \in [Bidder -> SUBSET Call]
  /\ outcome \in [Bidder -> [Call -> Outcomes]]
  /\ responseChannel \in [Bidder -> Seq(Call)]

HandleTypesOK ==
  /\ received \in [Bidder -> Nat]
  /\ current \in [Bidder -> Call \cup {NoCall}]
  /\ pending \in [Bidder -> Seq(RawBid)]
  /\ convCur \in [Bidder -> Cur \cup {NoCur}]
  /\ reply \in [Bidder -> [Call -> Response \cup {NoBids}]]
  /\ \A b \in Bidder : pc[b] = "bids" => current[b] \in Call

ResultTypesOK ==
  /\ seatBids \in [Bidder -> [Seat -> SUBSET Bid]]
  /\ seatCur \in [Bidder -> [Seat -> Cur \cup {NoCur}]]
  /\ seatFledge \in [Bidder -> SUBSET Call]
  /\ nonBids \in [Bidder -> SUBSET (Call \X Reasons)]

AuctionTypesOK ==
  /\ chBids \in Seq(Bidder)
  /\ merged \subseteq Bidder
  /\ adapterBids \in [Seat -> SUBSET Bid]
  /\ adapterCur \in [Seat -> Cur \cup {NoCur}]
  /\ adapterExtra \subseteq Bidder \cup {Nobody}
  /\ fledge \subseteq Bidder \X Call
  /\ seatNonBid \subseteq Bidder \X (Call \X Reasons)

\* Every variable of the fan-out has its type, and a response being handled
\* has its call.
TypeOK == CallTypesOK /\ HandleTypesOK /\ ResultTypesOK /\ AuctionTypesOK

\* Both channels have room whenever somebody may still send: no goroutine of
\* a bidder that panicked, or of one whose loop is behind, is left blocked on
\* responseChannel, and no bidder is left blocked on chBids.
SendNeverBlocks ==
  /\ \A b \in Bidder : running[b] # {} => Len(responseChannel[b]) < dataLen[b]
  /\ (\E b \in Bidder : pc[b] \in Working) => Len(chBids) < Cardinality(Bidder)

\* No receiver waits for a message that nobody will send: while requestBid
\* waits on responseChannel a call is queued or in flight, and while getAllBids
\* waits on chBids a wrapper is queued or a bidder still at work, whichever
\* bidders panicked, returned early or had only stored responses.
ReceiverNeverStarves ==
  /\ \A b \in Bidder :
       (pc[b] = "collect" /\ received[b] < dataLen[b]) => responseChannel[b] # <<>> \/ running[b] # {}
  /\ merged # Bidder => chBids # <<>> \/ \E b \in Bidder : pc[b] \in Working

\* getAllBids returns every acceptable bid: when all wrappers are merged, a
\* valid bid of a response that was converted, under a code its bidder may
\* use and in a seat whose currency the request allows, is in its seat,
\* whatever other bidders did, a panic or a timeout included.
NoBidLost ==
  merged = Bidder =>
    \A b \in Bidder, c \in Call :
      (pc[b] = "returned" /\ reply[b][c] # NoBids /\ Matches(reply[b][c].cur) # {}) =>
        \A i \in 1..Len(reply[b][c].bids) :
          LET raw == reply[b][c].bids[i] IN
          (raw.kind = "valid" /\ IsValidBidderCode(b, raw.seat)
             /\ CurrencyAllowed(seatCur[b][raw.seat])) =>
            \E bid \in adapterBids[raw.seat] :
              bid.bidder = b /\ bid.call = c /\ bid.idx = Len(reply[b][c].bids) - i + 1

\* The other direction, "so that Publishers can trust the Bids they get": a
\* merged bid was returned by its bidder for that seat and is valid, and the
\* seat's currency is one the request allows.
OnlyTrustedBids ==
  \A s \in Seat :
    /\ adapterBids[s] # {} => CurrencyAllowed(adapterCur[s])
    /\ \A bid \in adapterBids[s] :
         LET r == reply[bid.bidder][bid.call] IN
         /\ pc[bid.bidder] = "returned"
         /\ IsValidBidderCode(bid.bidder, s)
         /\ r # NoBids
         /\ \E i \in 1..Len(r.bids) :
              /\ bid.idx = Len(r.bids) - i + 1
              /\ r.bids[i].seat = s /\ r.bids[i].kind = "valid"

\* FledgeAuctionConfigs "should be passed through even if bids[] is empty":
\* also when the seat has no valid bid or the response has no conversion.
FledgePassedThrough ==
  merged = Bidder =>
    \A b \in Bidder, c \in Call :
      (pc[b] = "returned" /\ reply[b][c] # NoBids /\ reply[b][c].fledge) => <<b, c>> \in fledge

\* Every call that failed is reported as a seat non-bid with its own reason,
\* unless the bidder panicked.
EveryFailureReported ==
  merged = Bidder =>
    \A b \in Bidder, c \in Call :
      (pc[b] = "returned" /\ outcome[b][c] \in Reasons) =>
        <<b, <<c, outcome[b][c]>>>> \in seatNonBid

\* Once a wrapper is sent, no late call changes what it carries: the merging
\* loop reads it without a lock.
SentIsFinal ==
  [][\A b \in Bidder : pc[b] \in Sent =>
       UNCHANGED <<pc[b], seatBids[b], seatCur[b], seatFledge[b], nonBids[b]>>]_vars

\* "Currency is the Currency in which the Bids are made": every merged bid's
\* price is in the currency its seat carries.
SeatCurrencyIsBidCurrency ==
  \A s \in Seat : \A bid \in adapterBids[s] : bid.cur = adapterCur[s]

\* The same where it can be expected: while every reply taken converts to the first
\* currency of the request and holds no nil and no adjusted bid, the seats that several
\* calls and several bidders fill have one currency, that of all their bids.
PlainSeatsHaveOneCurrency ==
  (\A b \in Bidder, c \in Call : reply[b][c] # NoBids =>
      /\ <<reply[b][c].cur, ReqCur[1]>> \in Rates
      /\ \A i \in DOMAIN reply[b][c].bids :
           reply[b][c].bids[i].static = NoCur /\ reply[b][c].bids[i].kind # "nil")
  => SeatCurrencyIsBidCurrency

\* "we need to add all bidders data to adapterExtra": when the loop ends,
\* every bidder has its entry.
AllBiddersInAdapterExtra == merged = Bidder => Bidder \subseteq adapterExtra

\* getAllBids returns, whatever the bidders' endpoints do.
AuctionCompletes == <>(merged = Bidder)

\* No goroutine outlives the auction for ever.
NoGoroutineLeak == <>[](\A b \in Bidder : running[b] = {})

=============================================================================
