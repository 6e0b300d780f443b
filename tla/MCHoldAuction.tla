---------------------------- MODULE MCHoldAuction ----------------------------
(* Small auctions: two impressions, an adapter called twice, one called     *)
(* once under an alias, and a name without an adapter.                      *)
EXTENDS HoldAuction

MCImps == {"i1", "i2"}
MCBidders == {"a", "al", "x"}
MCAdapters == {"a", "c"}
MCAliases == [b \in {"al"} |-> "c"]

Bid(id, imp, price, deal) ==
    [id |-> id, imp |-> imp, price |-> price, deal |-> deal, crid |-> TRUE,
     video |-> deal # "none", dur |-> 30, cat |-> "c1", prio |-> 5]

\* A plain request, and what the others change in it.
Plain ==
    [valid |-> TRUE, checked |-> TRUE, hooks |-> FALSE, panics |-> FALSE, stored |-> "none",
     imps |-> [i \in MCImps |-> {"a", "al"}],
     privacy |-> <<>>, storedBids |-> <<>>, rates |-> [c \in {"EUR"} |-> 2],
     factors |-> <<>>, floors |-> <<>>, multibid |-> <<>>, ranges |-> <<>>,
     adjustments |-> <<>>, cache |-> TRUE, brandCategory |-> TRUE, tiers |-> <<>>]

Two == [b \in {"a"} |-> 2]

Refusals ==
    {[Plain EXCEPT !.valid = FALSE], [Plain EXCEPT !.checked = FALSE]}
    \cup {[Plain EXCEPT !.stored = s] : s \in {"found", "missing"}}

Guarded ==
    {[Plain EXCEPT !.imps = [i \in MCImps |-> IF i = "i1" THEN MCBidders ELSE {"al"}],
                   !.hooks = TRUE, !.panics = TRUE, !.cache = FALSE,
                   !.privacy = [b \in {"al"} |-> 50]],
     [Plain EXCEPT !.imps = [i \in MCImps |-> MCBidders],
                   !.storedBids = [b \in {"a"} |-> <<Bid("s1", "i1", 3, "d1")>>]]}

Pricing ==
    {[Plain EXCEPT !.floors = [i \in {"i1"} |-> f], !.multibid = m,
                   !.factors = [b \in {"al"} |-> 2]] : f \in {0, 3}, m \in {<<>>, Two}}

Tiered ==
    {[Plain EXCEPT !.tiers = [i \in {"i1"} |-> [d \in {"d1"} |-> [prefix |-> "tier", min |-> m]]],
                   !.multibid = Two,
                   !.ranges = <<[max |-> 5, increment |-> 2], [max |-> 2, increment |-> 1],
                                [max |-> 9, increment |-> 0]>>] : m \in {5, 6}}

\* A floor, and an extended rule that lowers the prices of a seat.
MCAdjusted ==
    {[Plain EXCEPT !.floors = [i \in {"i1"} |-> 2],
                   !.adjustments = [b \in {"a"} |->
                        [d \in {"*"} |-> <<[type |-> t, value |-> 1]>>]]] :
        t \in {"multiplier", "static"}}

MCRequests == Refusals \cup Guarded \cup Pricing \cup Tiered \cup MCAdjusted

Bids(s, c) == [kind |-> "bids", bids |-> s, cur |-> c]
Failure(e) == [kind |-> "error", err |-> e]

MCCalls ==
    [b \in MCBidders |->
        IF b = "a" THEN {[reqs |-> 0, errs |-> {}], [reqs |-> 2, errs |-> {}]}
        ELSE {[reqs |-> 0, errs |-> {"BadServerResponse"}], [reqs |-> 1, errs |-> {}]}]

MCReplies ==
    [b \in MCBidders |->
        IF b = "a"
        THEN {[kind |-> "timeout"], [kind |-> "nobid"], Failure("BadInput"),
              Bids(<<Bid("1", "i1", 2, "none"), Bid("2", "i1", 3, "d1")>>, "USD"),
              Bids(<<Bid("1", "i1", 4, "none"), Bid("3", "i2", 0, "d1"), Bid("4", "i2", 0, "none")>>, "EUR")}
        ELSE {[kind |-> "timeout"], Failure("BadServerResponse"),
              Bids(<<Bid("5", "i1", 3, "d2"), Bid("6", "i1", 1, "none"), Bid("", "i2", 9, "none")>>, "USD"),
              Bids(<<Bid("5", "i2", 9, "none"), Bid("7", "zz", 9, "none")>>, "E1")}]
=============================================================================
