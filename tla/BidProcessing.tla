---------------------------- MODULE BidProcessing ----------------------------
(***************************************************************************)
(* What the exchange does with the bids of one bidder, and the targeting   *)
(* keys it derives from the bids it keeps: the sequential part of          *)
(* exchange/src/lib.rs.  Prices are integers in a small unit; an f64's     *)
(* rounding is not modelled.  A bid carries the fields the code branches   *)
(* on: id, imp, price, deal ("none" is a missing dealid, "" an empty one), *)
(* crid (whether a creative id is present), video, dur, cat and prio; its  *)
(* adid is its id.                                                         *)
(***************************************************************************)
EXTENDS Integers, Sequences, TLC, FiniteSetsExt

BidRecords ==
    [id : STRING, imp : STRING, price : Int, deal : STRING, crid : BOOLEAN,
     video : BOOLEAN, dur : Int, cat : STRING, prio : Int]

-----------------------------------------------------------------------------
\* Custom and default price granularity.  A range is [max, increment]; a
\* default bucket is one unit wide and stops at DefaultCap.
DefaultCap == 20

RangeMax(ranges) == Max({ranges[i].max : i \in DOMAIN ranges})

SortedRanges(ranges) == SortSeq(ranges, LAMBDA x, y : x.max < y.max)

\* Entries with a non-positive increment are dropped when the request is
\* parsed; with no range left the default granularity applies.
ParseRanges(ranges) == SelectSeq(ranges, LAMBDA x : x.increment > 0)

PriceBucket(price, asked) ==
    LET ranges == ParseRanges(asked)
    IN  IF ranges = <<>>
        THEN Min({price, DefaultCap})
        ELSE IF price > RangeMax(ranges)
        THEN RangeMax(ranges)
        ELSE LET s    == SortedRanges(ranges)
                 i    == Min({k \in DOMAIN s : price <= s[k].max})
                 low  == IF i = 1 THEN 0 ELSE s[i - 1].max
             IN  ((price - low) \div s[i].increment) * s[i].increment + low

-----------------------------------------------------------------------------
\* A currency code is accepted when it is empty or three letters.
MalformedCurrencies == {"E1"}

ValidCurrency(cur) == cur \notin MalformedCurrencies

\* Without a converter, or without a rate, the price is left as it was.
ToUSD(price, cur, rates) ==
    IF cur # "USD" /\ cur \in DOMAIN rates THEN price * rates[cur] ELSE price

ApplyFactor(price, bidder, factors) ==
    IF bidder \in DOMAIN factors THEN price * factors[bidder] ELSE price

BelowFloor(b, floors) ==
    b.imp \in DOMAIN floors /\ floors[b.imp] > 0 /\ b.price < floors[b.imp]

AboveFloor(bids, floors) == {i \in DOMAIN bids : ~ BelowFloor(bids[i], floors)}

ValidBid(b, imps) ==
    /\ b.id # ""
    /\ b.imp \in imps
    /\ b.price >= 0
    /\ b.price = 0 => b.deal # "none"
    /\ b.crid

ValidateBids(bids, I, imps) == {i \in I : ValidBid(bids[i], imps)}

\* A bug: the lowest bid is taken for the best.
WorstOf(bids, I) == CHOOSE i \in I : \A j \in I : bids[j].price >= bids[i].price

\* The index of the highest-priced of the bids I; of equal ones, the first.
BestOf(bids, I) ==
    CHOOSE i \in I : \A j \in I :
        bids[j].price < bids[i].price \/ (bids[j].price = bids[i].price /\ i <= j)

\* The highest-priced bid of each bid id stays, where the first one stood.
Twins(bids, I, i) == {j \in I : bids[j].id = bids[i].id}

Dedupe(bids, I) == {BestOf(bids, Twins(bids, I, i)) : i \in I}

Place(bids, I, i) == Min(Twins(bids, I, i))

\* The order of a stable sort by descending price.
Before(bids, I, j, i) ==
    \/ bids[j].price > bids[i].price
    \/ bids[j].price = bids[i].price /\ Place(bids, I, j) < Place(bids, I, i)

Ahead(bids, I, D, i) == {j \in D : bids[j].imp = bids[i].imp /\ Before(bids, I, j, i)}

\* multibid: at most limit bids an impression, the best ones first.  In the
\* code a HashMap orders the impressions; here their bids are merged by price.
EnforceMultiBid(bids, I, D, limit) == {i \in D : Cardinality(Ahead(bids, I, D, i)) < limit}

Sorted(bids, I, limit) ==
    LET kept == EnforceMultiBid(bids, I, Dedupe(bids, I), limit)
    IN  [k \in 1..Cardinality(kept) |->
            CHOOSE i \in kept : Cardinality({j \in kept : Before(bids, I, j, i)}) = k - 1]

\* An entry for a bidder sets its limit, at least one; without one it is one.
MultiBidLimit(limits, bidder) ==
    IF bidder \in DOMAIN limits THEN Max({limits[bidder], 1}) ELSE 1

Priced(r, bidder, bids, cur) ==
    [i \in DOMAIN bids |->
        [bids[i] EXCEPT !.price = ApplyFactor(ToUSD(@, cur, r.rates), bidder, r.factors)]]

\* The bids of one bidder that reach the response, in the code's order:
\* conversion, factor, floor, validation, deduplication, multi-bid.
Accepted(r, bids) == ValidateBids(bids, AboveFloor(bids, r.floors), DOMAIN r.imps)

KeptBids(r, bidder, bids, cur) ==
    LET priced == Priced(r, bidder, bids, cur)
        sorted == Sorted(priced, Accepted(r, priced), MultiBidLimit(r.multibid, bidder))
    IN  IF bids = <<>> \/ ~ ValidCurrency(cur) THEN <<>>
        ELSE [k \in DOMAIN sorted |-> priced[sorted[k]]]

\* The impressions of the bids that the floor rejected.
FloorNonBids(r, bidder, bids, cur) ==
    IF bids = <<>> \/ ~ ValidCurrency(cur) THEN {}
    ELSE {b.imp : b \in {x \in Range(Priced(r, bidder, bids, cur)) :
                            BelowFloor(x, r.floors)}}

-----------------------------------------------------------------------------
\* Targeting.  results is the sequence of [seat, bid] in order of arrival;
\* a set of bids is the set of their places in it.
On(results, imp) == {i \in DOMAIN results : results[i].bid.imp = imp}

OfSeat(results, I, seat) == {i \in I : results[i].seat = seat}

ImpsWithBids(results) == {results[i].bid.imp : i \in DOMAIN results}

\* A bug: the first bid to arrive wins.
FirstWinner(results, imp) == results[Min(On(results, imp))]

\* A later bid replaces the winner only with a strictly higher price.
Winner(results, imp) ==
    results[BestOf([i \in DOMAIN results |-> results[i].bid], On(results, imp))]

\* hb_pb, hb_bidder and hb_adid of the highest bid.
WinnerKeys(results, imp, ranges) ==
    LET w == Winner(results, imp)
    IN  [bidder |-> w.seat, adid |-> w.bid.id,
         pb |-> PriceBucket(w.bid.price, ranges)]

SeatsOn(results, imp) == {results[i].seat : i \in On(results, imp)}

\* A bug: the last bid of the impression, whoever made it.
AnySeatKeys(results, imp, seat, ranges) ==
    LET last == results[Max(On(results, imp))].bid
    IN  [adid |-> last.id, pb |-> PriceBucket(last.price, ranges)]

\* hb_pb_<seat> and hb_adid_<seat>: each bid of the seat overwrites the keys
\* of the one before it.
SeatKeys(results, imp, seat, ranges) ==
    LET last == results[Max(OfSeat(results, On(results, imp), seat))].bid
    IN  [adid |-> last.id, pb |-> PriceBucket(last.price, ranges)]

\* hb_pb_cat_dur: the first video bid with a duration sets the winner key.
CatDur(b, ranges) == <<PriceBucket(b.price, ranges), b.cat, b.dur>>

WithDuration(results, imp) ==
    {i \in On(results, imp) : results[i].bid.video /\ results[i].bid.dur > 0}

FirstCatDur(results, imp, ranges) ==
    LET I == WithDuration(results, imp)
    IN  IF I = {} THEN <<>> ELSE CatDur(results[Min(I)].bid, ranges)

\* hb_deal: the first bid with a non-empty deal id sets the winner key.
HasDeal(b) == b.deal \notin {"none", ""}

FirstDeal(results, imp) ==
    LET I == {i \in On(results, imp) : HasDeal(results[i].bid)}
    IN  IF I = {} THEN "none" ELSE results[Min(I)].bid.deal

\* hb_pb_cat_dur_<seat>, whose price bucket a satisfied deal tier replaces by
\* the tier's prefix and the bid's deal priority.  tiers are those of the
\* impression's deals.
MeetsTier(b, tiers) ==
    /\ HasDeal(b)
    /\ b.deal \in DOMAIN tiers
    /\ tiers[b.deal].prefix # ""
    /\ tiers[b.deal].min > 0
    /\ b.prio >= tiers[b.deal].min

SeatCatDur(results, imp, seat, ranges, tiers) ==
    LET mine == OfSeat(results, On(results, imp), seat)
        dur  == mine \cap WithDuration(results, imp)
        met  == {i \in mine : MeetsTier(results[i].bid, tiers)}
        base == CatDur(results[Max(dur)].bid, ranges)
        best == results[Max(met)].bid
    IN  IF dur = {} THEN <<>>
        ELSE IF met = {} THEN base
        ELSE << <<tiers[best.deal].prefix, best.prio>>, base[2], base[3] >>

-----------------------------------------------------------------------------
\* The extended adjustment rules: those of the seat, else of "*"; of the
\* bid's deal, else of "*"; the first one of a known type applies.
RulesFor(rules, key) ==
    IF key \in DOMAIN rules THEN rules[key]
    ELSE IF "*" \in DOMAIN rules THEN rules["*"] ELSE <<>>

KnownTypes == {"multiplier", "static", "cpm"}

AdjustPrice(price, adj) ==
    CASE adj.type = "multiplier" -> price * adj.value
      [] adj.type = "static"     -> adj.value
      [] adj.type = "cpm"        -> price + adj.value

DealKey(b) == IF b.deal = "none" THEN "*" ELSE b.deal

AdjustBid(b, seatRules) ==
    LET known == SelectSeq(RulesFor(seatRules, DealKey(b)), LAMBDA a : a.type \in KnownTypes)
    IN  IF known = <<>> THEN b
        ELSE [b EXCEPT !.price = AdjustPrice(b.price, Head(known))]

AdjustResults(results, rules) ==
    [i \in DOMAIN results |->
        [results[i] EXCEPT !.bid = AdjustBid(@, RulesFor(rules, results[i].seat))]]

\* A bug: the last bid of the seat.
LastOfSeat(results, imp, seat) == results[Max(OfSeat(results, On(results, imp), seat))].bid

\* The bid that is written to Prebid Cache for an impression: the first bid
\* of the winning seat on it.
CachedBid(results, imp, seat) == results[Min(OfSeat(results, On(results, imp), seat))].bid
=============================================================================
