----------------------------- MODULE HoldAuction -----------------------------
(***************************************************************************)
(* Exchange::hold_auction_with_timeouts and AdaptedBidder::request_bid of  *)
(* exchange/src/lib.rs: the checks before the auction, the fan-out of one  *)
(* task per bidder into a JoinSet, the calls each task makes, the results  *)
(* taken in order of completion, and the response built from them.         *)
(*                                                                         *)
(* Adapters, HTTP servers and hooks are external: Calls[b] is what         *)
(* make_requests may return for bidder b, Replies[b] what an HTTP call and *)
(* make_bids may give, and a hook stage passes or rejects.                 *)
(***************************************************************************)
EXTENDS BidProcessing

CONSTANTS Bidders,     \* names a request may use, aliases included
          Adapters,    \* canonical names with an adapter
          Aliases,     \* alias name -> canonical name
          Requests,    \* the requests the auction is run for
          Calls,       \* bidder -> set of [reqs : Nat, errs : set of error kinds]
          Replies      \* bidder -> set of replies to one call

ASSUME BidderAssumption == DOMAIN Aliases \subseteq Bidders

\* What a request and an adapter hand to the auction are bids and numbers.
ASSUME AuctionAssumption ==
    /\ \A q \in Requests :
          /\ \A b \in DOMAIN q.storedBids : q.storedBids[b] \in Seq(BidRecords)
          /\ \A c \in DOMAIN q.rates : q.rates[c] \in Int
          /\ \A b \in DOMAIN q.factors : q.factors[b] \in Int
          /\ \A b \in DOMAIN q.multibid : q.multibid[b] \in Int
    /\ \A b \in Bidders :
          /\ \A c \in Calls[b] : c.reqs \in Nat
          /\ \A y \in Replies[b] :
                /\ y.kind \in {"timeout", "error", "bids", "nobid"}
                /\ y.kind = "bids" => y.bids \in Seq(BidRecords)

VARIABLES r,          \* the request
          pc,         \* where hold_auction is
          todo,       \* active bidders the fan-out loop has not visited
          task,       \* bidder -> its task in the JoinSet
          results,    \* bidder_results: [seat, bid] in order of arrival
          nonBids,    \* collected_non_bids: [seat, imp, code]
          errors,     \* bidder_errors: seats with an entry
          timedOut,   \* timed_out_bidders
          targeting,  \* imp -> its winner keys
          seatBids,   \* the seats of the response, with the final prices
          cached      \* imp -> the bid sent to Prebid Cache

vars == <<r, pc, todo, task, results, nonBids, errors, timedOut, targeting,
          seatBids, cached>>

outcome == <<results, nonBids, errors, timedOut>>
response == <<targeting, seatBids, cached>>

-----------------------------------------------------------------------------
Idle == [state |-> "none"]

\* A task whose request_bid has not run yet, and one that has its answer.
Spawned == [state |-> "spawned", left |-> 0, errs |-> {}, bids |-> <<>>,
            cur |-> "USD", late |-> FALSE]

Ready(bids) == [Spawned EXCEPT !.state = "finished", !.bids = bids]

ActiveBidders(req) == UNION {req.imps[i] : i \in DOMAIN req.imps}

Canonical(b) == IF b \in DOMAIN Aliases THEN Aliases[b] ELSE b

Init ==
    /\ r \in Requests
    /\ pc = "validate"
    /\ todo = {} /\ task = [b \in Bidders |-> Idle]
    /\ results = <<>> /\ nonBids = {} /\ errors = {} /\ timedOut = {}
    /\ targeting = <<>> /\ seatBids = <<>> /\ cached = <<>>

-----------------------------------------------------------------------------
\* Before the fan-out: validation, the request hooks, the stored response,
\* the checks of the impressions and of tmax, in the code's order.
Goto(label) == pc' = label

Keep == UNCHANGED <<r, todo, task>> /\ UNCHANGED outcome /\ UNCHANGED response

Validate == pc = "validate" /\ Keep /\ Goto(IF r.valid THEN "entrypoint" ELSE "refused")

\* One of the three stages that may reject the whole request.
RequestHook(stage, next) ==
    /\ pc = stage
    /\ \/ Goto(next)
       \/ r.hooks /\ Goto("refused")
    /\ Keep

EntrypointHook == RequestHook("entrypoint", "raw")
RawAuctionHook == RequestHook("raw", "stored")

\* storedauctionresponse.id: only with a fetcher is it looked at.
StoredResponse ==
    /\ pc = "stored"
    /\ Goto(CASE r.stored = "none"  -> "check"
              [] r.stored = "found" -> "answered"
              [] OTHER              -> "refused")
    /\ Keep

CheckImps == pc = "check" /\ Keep /\ Goto(IF r.checked THEN "processed" ELSE "refused")

ProcessedHook ==
    /\ pc = "processed"
    /\ \/ Goto("fanout") /\ todo' = ActiveBidders(r)
       \/ r.hooks /\ Goto("refused") /\ UNCHANGED todo
    /\ UNCHANGED <<r, task>> /\ UNCHANGED outcome /\ UNCHANGED response

-----------------------------------------------------------------------------
\* The fan-out loop visits the active bidders in the order of a HashMap.
AllImps(seat, code) == {[seat |-> seat, imp |-> i, code |-> code] : i \in DOMAIN r.imps}

Blocked(b) == b \in DOMAIN r.privacy

Visit(b) == pc = "fanout" /\ b \in todo /\ todo' = todo \ {b}

SkipForPrivacy(b) ==
    /\ Visit(b)
    /\ Blocked(b)
    /\ nonBids' = nonBids \cup AllImps(b, r.privacy[b])
    /\ UNCHANGED <<r, pc, task, results, errors, timedOut>> /\ UNCHANGED response

\* A stored bid response for any impression answers for all of them.
UseStoredBids(b) ==
    /\ Visit(b)
    /\ ~ Blocked(b)
    /\ b \in DOMAIN r.storedBids
    /\ task' = [task EXCEPT ![b] = Ready(r.storedBids[b])]
    /\ UNCHANGED <<r, pc>> /\ UNCHANGED outcome /\ UNCHANGED response

\* A bug: the privacy check does not end the visit.
UncheckedCall(b) == b \notin DOMAIN r.storedBids

LiveCall(b) == ~ Blocked(b) /\ b \notin DOMAIN r.storedBids

\* A bidder without an adapter, or one its BidderRequest hook rejects, is
\* passed over and leaves no trace.
PassOver(b) ==
    /\ Visit(b)
    /\ LiveCall(b)
    /\ Canonical(b) \notin Adapters \/ r.hooks
    /\ UNCHANGED <<r, pc, task>> /\ UNCHANGED outcome /\ UNCHANGED response

Spawn(b) ==
    /\ Visit(b)
    /\ LiveCall(b)
    /\ Canonical(b) \in Adapters
    /\ task' = [task EXCEPT ![b] = Spawned]
    /\ UNCHANGED <<r, pc>> /\ UNCHANGED outcome /\ UNCHANGED response

EndFanOut ==
    /\ pc = "fanout" /\ todo = {}
    /\ Goto("collect")
    /\ Keep

-----------------------------------------------------------------------------
\* request_bid, one task per bidder.
Alone(b, t) ==
    /\ task' = [task EXCEPT ![b] = t]
    /\ UNCHANGED <<r, pc, todo>> /\ UNCHANGED outcome /\ UNCHANGED response

\* With no request left, a BadInput error discards the collected bids; other
\* errors are discarded and the bids are returned.
Close(t) ==
    IF t.left > 0 THEN t
    ELSE IF "BadInput" \in t.errs
    THEN [t EXCEPT !.state = "failed"]
    ELSE [t EXCEPT !.state = "finished"]

\* make_requests; without a request its errors, of any kind, are the result.
MakeRequests(b) ==
    /\ task[b].state = "spawned"
    /\ \E c \in Calls[b] :
          Alone(b, LET t == [task[b] EXCEPT !.state = "calling", !.left = c.reqs, !.errs = c.errs]
                   IN  IF c.reqs > 0 THEN t
                       ELSE [t EXCEPT !.state = IF c.errs = {} THEN "finished" ELSE "failed"])

\* What one reply adds to what the task has collected.
AddReply(t, reply) ==
    CASE reply.kind = "timeout" -> [t EXCEPT !.errs = @ \cup {"Timeout"}, !.late = TRUE]
      [] reply.kind = "error"   -> [t EXCEPT !.errs = @ \cup {reply.err}]
      [] reply.kind = "bids"    -> [t EXCEPT !.bids = @ \o reply.bids,
                                             !.cur = IF reply.cur # "USD" THEN reply.cur ELSE @]
      [] reply.kind = "nobid"   -> t

\* The requests are sent one after the other, each with the full timeout.
ExecuteRequest(b) ==
    /\ task[b].state = "calling"
    /\ \E reply \in Replies[b] :
          Alone(b, Close(AddReply([task[b] EXCEPT !.left = @ - 1], reply)))

\* A panic in make_requests or make_bids ends the task without a result.
Panic(b) ==
    /\ task[b].state \in {"spawned", "calling"}
    /\ r.panics
    /\ Alone(b, [task[b] EXCEPT !.state = "panicked"])

-----------------------------------------------------------------------------
\* A bug: the loop waits for a result that a panicked task never gives.
JoinResultsOnly(b, from, to) ==
    /\ pc = "collect"
    /\ task[b].state = from /\ from # "panicked"
    /\ task' = [task EXCEPT ![b].state = to]
    /\ timedOut' = IF task[b].late THEN timedOut \cup {b} ELSE timedOut
    /\ UNCHANGED <<r, pc, todo>> /\ UNCHANGED response

\* The collecting loop takes finished tasks in any order.
Join(b, from, to) ==
    /\ pc = "collect"
    /\ task[b].state = from
    /\ task' = [task EXCEPT ![b].state = to]
    /\ timedOut' = IF task[b].late /\ from # "panicked" THEN timedOut \cup {b} ELSE timedOut
    /\ UNCHANGED <<r, pc, todo>> /\ UNCHANGED response

SeatOf(b, kept) == [i \in DOMAIN kept |-> [seat |-> b, bid |-> kept[i]]]

JoinOk(b) ==
    /\ Join(b, "finished", "joined")
    /\ LET t    == task[b]
           kept == KeptBids(r, b, t.bids, t.cur)
       IN  /\ results' = results \o SeatOf(b, kept)
           /\ errors' = IF t.bids # <<>> /\ ~ ValidCurrency(t.cur) THEN errors \cup {b} ELSE errors
           /\ nonBids' = nonBids \cup
                {[seat |-> b, imp |-> i, code |-> 300] : i \in FloorNonBids(r, b, t.bids, t.cur)}

JoinErr(b) ==
    /\ Join(b, "failed", "lost")
    /\ errors' = errors \cup {b}
    /\ nonBids' = nonBids \cup AllImps(b, 200)
    /\ UNCHANGED results

JoinPanicked(b) ==
    /\ Join(b, "panicked", "lost")
    /\ UNCHANGED <<results, errors, nonBids>>

-----------------------------------------------------------------------------
\* The JoinSet is empty: targeting from the collected bids, then the extended
\* adjustments, the cache and the seats of the response.
Outstanding == {b \in Bidders : task[b].state \notin {"none", "joined", "lost"}}

\* hb_pb_cat_dur is emitted on request (includebrandcategory).
TiersOf(imp) == IF imp \in DOMAIN r.tiers THEN r.tiers[imp] ELSE <<>>

OnRequest(key) == IF r.brandCategory THEN key ELSE <<>>

SeatKeysOf(imp, s) ==
    LET last == SeatKeys(results, imp, s, r.ranges)
    IN  [adid |-> last.adid, pb |-> last.pb,
         catDur |-> OnRequest(SeatCatDur(results, imp, s, r.ranges, TiersOf(imp)))]

KeysOf(imp) ==
    LET top == WinnerKeys(results, imp, r.ranges)
    IN  [bidder |-> top.bidder, adid |-> top.adid, pb |-> top.pb,
         deal   |-> FirstDeal(results, imp),
         catDur |-> OnRequest(FirstCatDur(results, imp, r.ranges)),
         seats  |-> [s \in SeatsOn(results, imp) |-> SeatKeysOf(imp, s)]]

\* With bids to cache, building the response includes calls to Prebid Cache, which
\* block the auction and have no timeout.
AwaitsCache == pc = "collect" /\ Outstanding = {} /\ r.cache /\ results # <<>>

BuildResponse ==
    /\ pc = "collect"
    /\ Outstanding = {}
    /\ Goto("done")
    /\ targeting' = [i \in ImpsWithBids(results) |-> KeysOf(i)]
    /\ seatBids' = AdjustResults(results, r.adjustments)
    /\ cached' = IF r.cache
                 THEN [i \in ImpsWithBids(results) |->
                          CachedBid(seatBids', i, Winner(results, i).seat)]
                 ELSE <<>>
    /\ UNCHANGED <<r, todo, task>> /\ UNCHANGED outcome

Driver ==
    \/ Validate \/ EntrypointHook \/ RawAuctionHook \/ StoredResponse \/ CheckImps
    \/ ProcessedHook \/ EndFanOut \/ BuildResponse
    \/ \E b \in Bidders :
          \/ SkipForPrivacy(b) \/ UseStoredBids(b) \/ PassOver(b) \/ Spawn(b)
          \/ JoinOk(b) \/ JoinErr(b) \/ JoinPanicked(b)

Work(b) == MakeRequests(b) \/ ExecuteRequest(b) \/ Panic(b)

Next == Driver \/ (\E b \in Bidders : Work(b))

Spec == Init /\ [][Next]_vars

\* The runtime polls the auction's future and every task: each call to a bidder ends
\* by its answer, its error or its timeout, each hook by its result or its timeout.
\* Nothing of the kind can be said of the calls to Prebid Cache.
FairSpec ==
    Spec /\ WF_vars(Driver /\ ~ AwaitsCache) /\ \A b \in Bidders : WF_vars(Work(b))

-----------------------------------------------------------------------------
\* The states of the auction and of its tasks, and the shape of what the
\* collecting loop has gathered.
TypeOK ==
    /\ r \in Requests
    /\ pc \in {"validate", "entrypoint", "raw", "stored", "check", "processed",
               "fanout", "collect", "done", "refused", "answered"}
    /\ todo \subseteq ActiveBidders(r)
    /\ \A b \in Bidders : task[b].state \in
          {"none", "spawned", "calling", "finished", "failed", "panicked", "joined", "lost"}
    /\ \A i \in DOMAIN results : results[i].seat \in Bidders
    /\ errors \subseteq Bidders /\ timedOut \subseteq Bidders

\* A seat of the response belongs to a bidder that privacy did not block and
\* that has no request-level non-bid (codes 50-53 and 200), and what it holds
\* was collected in one go.
SeatsAreAnswers ==
    \A i \in DOMAIN results :
        /\ ~ Blocked(results[i].seat)
        /\ \A n \in nonBids : n.seat = results[i].seat => n.code = 300
        /\ \A j \in i..Len(results) : results[j].seat = results[i].seat =>
              \A k \in i..j : results[k].seat = results[i].seat

\* The bids that were sent for a seat, priced, and those that were kept.
Offered(b) == Range(Priced(r, b, task[b].bids, task[b].cur))

\* Multi-bid drops only what is no better than what stays: a valid bid above
\* the floor that is missing from its seat was beaten by a full quota of bids
\* at least as high on that impression, or by one with its id.
NoBetterBidDropped ==
    \A b \in Bidders : pc = "done" /\ task[b].state = "joined" =>
        LET kept == {results[n].bid : n \in OfSeat(results, DOMAIN results, b)}
        IN  \A x \in Offered(b) :
                \/ ~ ValidCurrency(task[b].cur)
                \/ BelowFloor(x, r.floors) \/ ~ ValidBid(x, DOMAIN r.imps)
                \/ \E y \in Offered(b) : y.id = x.id /\ y.price >= x.price /\ y # x
                \/ x \in kept
                \/ Cardinality({k \in kept : k.imp = x.imp /\ k.price >= x.price})
                      = MultiBidLimit(r.multibid, b)

\* The creative written to the cache is the one the winner keys announce:
\* the lookup by seat and impression, the multi-bid order and the choice of
\* the winner agree.
CachedBidIsWinner ==
    \A i \in DOMAIN cached : cached[i].id = targeting[i].adid

\* The keys of a seat describe bids that the seat delivers on the impression,
\* those of the winning seat repeat the winner's unless it may send several
\* bids, and only a bid that meets the tier of its deal puts the tier's
\* prefix in the place of the price.
SeatKeysDescribeSeat ==
    \A i \in DOMAIN targeting : \A s \in DOMAIN targeting[i].seats :
        LET key  == targeting[i].seats[s]
            bids == {results[n].bid : n \in OfSeat(results, On(results, i), s)}
        IN  /\ \E b \in bids : b.id = key.adid /\ key.pb = PriceBucket(b.price, r.ranges)
            /\ s = targeting[i].bidder /\ MultiBidLimit(r.multibid, s) = 1 =>
                  key.adid = targeting[i].adid /\ key.pb = targeting[i].pb
            /\ key.catDur # <<>> => \E b \in bids :
                  key.catDur[1] = IF \E d \in bids : MeetsTier(d, TiersOf(i))
                                  THEN <<TiersOf(i)[b.deal].prefix, b.prio>>
                                  ELSE PriceBucket(b.price, r.ranges)

\* bidfloor on the delivered price: what the comment at the extended rules
\* says ("application mirrors the flat factor path above", which is applied
\* before the floor comparison).
DeliveredAboveFloor ==
    \A i \in DOMAIN seatBids : ~ BelowFloor(seatBids[i].bid, r.floors)

\* Whatever its bidders do (panics, errors and timeouts included), every auction ends
\* with a response, a refusal or the stored answer; one that has bids to cache gets
\* as far as the calls to Prebid Cache, with all bidders accounted for.
AuctionEnds == <>(pc \in {"done", "refused", "answered"} \/ AwaitsCache)

\* The auction implements AuctionPromise: a seat is collected once, and the
\* announced winners are highest bids of what was collected.
OfferOf(x) == [seat |-> x.seat, imp |-> x.bid.imp, id |-> x.bid.id, price |-> x.bid.price]

OffersOf(res) == {OfferOf(res[n]) : n \in DOMAIN res}

Announced ==
    {o \in OffersOf(results) :
        /\ o.imp \in DOMAIN targeting
        /\ targeting[o.imp].bidder = o.seat
        /\ targeting[o.imp].adid = o.id
        /\ targeting[o.imp].pb = PriceBucket(o.price, r.ranges)}

Promise == INSTANCE AuctionPromise WITH
    collected <- OffersOf(results), winners <- Announced,
    closed <- pc \in {"done", "refused", "answered"}

KeepsPromise == Promise!Spec
=============================================================================
