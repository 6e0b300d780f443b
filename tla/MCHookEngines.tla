---------------------------- MODULE MCHookEngines ----------------------------
(* Two requests: an auction of one bidder, and single calls of the other     *)
(* engines, the library's with two groups.                                  *)
EXTENDS HookEngines

CONSTANTS q1, q2

Call(engine, name, groups) ==
    [engine |-> engine, stages |-> <<[name |-> name, groups |-> groups, resume |-> 0]>>]

\* An auction whose hooks may reject the request, the bidder and its response.
MCAuction ==
    [engine |-> "exchange",
     stages |-> HoldAuctionCalls(
        [entrypoint_raw |-> <<>>, raw_auction_request |-> <<>>,
         processed_auction_request |-> <<<<"m1", "m2">>>>,
         bidder_request |-> <<<<"m1">>>>, raw_bidder_response |-> <<<<"m1", "m2">>>>,
         all_processed_bid_responses |-> <<>>, auction_response |-> <<<<"m1">>>>])]

MCMetered == {Call("metered", "processed_auction_request", <<<<"m1", "m2">>>>),
              Call("metered", "raw_bidder_response", <<>>),
              Call("metered", "auction_response", <<<<"m1">>>>)}

MCPlans == {Call("library", "processed_auction_request", <<<<"m1", "m2">>, <<"m2">>>>),
            Call("library", "auction_response", <<<<"m1">>>>), MCAuction} \cup MCMetered

Ok(reject, muts, ctx) ==
    [kind |-> "ok", reject |-> reject, muts |-> muts, ctx |-> ctx, errs |-> FALSE]
Failed(kind) == [kind |-> kind]

MCResults ==
    [m \in {"m1", "m2"} |->
        IF m = "m1" THEN {Ok(FALSE, <<"a">>, TRUE), Ok(TRUE, <<"r">>, FALSE), Failed("timeout")}
        ELSE {[Ok(FALSE, <<"bad", "b">>, FALSE) EXCEPT !.errs = TRUE], Failed("failure"), Failed("panic"), Failed("rejected")}]
=============================================================================
