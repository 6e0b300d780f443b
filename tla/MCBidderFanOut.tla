--------------------------- MODULE MCBidderFanOut ---------------------------
(***************************************************************************)
(* Instances of BidderFanOut.  In each, b1 may use the alternate code b2,  *)
(* so that two bidders can fill one seat.                                  *)
(***************************************************************************)
EXTENDS BidderFanOut

CONSTANTS b1, b2, r1, r2, i1, EUR, JPY

MCCodes == [b \in Bidder |-> IF b = b1 THEN {b2} ELSE {}]
StoredAtBoth == [b \in Bidder |-> {i1}]
NoStored == [b \in Bidder |-> {}]

Raw(s, k) == [seat |-> s, static |-> NoCur, kind |-> k]

\* Every currency but JPY converts to the first currency of the request.
MCReqCur == <<EUR, USD>>
EuroRates == {<<EUR, EUR>>, <<USD, EUR>>, <<USD, USD>>}
\* EUR comes from EUR only; USD is what everything else converts to.
PartialRates == {<<EUR, EUR>>, <<USD, USD>>, <<JPY, USD>>}

\* Bids for a seat of its own and for another's, an invalid and a nil one, a
\* static adjustment to a currency the request does not allow, and FLEDGE
\* configs in a currency with no rate.
MCResponses ==
  {[cur |-> USD, fledge |-> FALSE, bids |-> <<Raw(b2, "valid"), Raw(b1, "invalid")>>],
   [cur |-> EUR, fledge |-> TRUE,
    bids |-> <<Raw(b1, "valid"), [seat |-> b2, static |-> JPY, kind |-> "valid"], Raw(b1, "nil")>>],
   [cur |-> JPY, fledge |-> TRUE, bids |-> <<Raw(b1, "valid")>>]}
\* Two responses that convert to different currencies.
MixedResponses ==
  {[cur |-> USD, fledge |-> FALSE, bids |-> <<Raw(b2, "valid")>>],
   [cur |-> EUR, fledge |-> FALSE, bids |-> <<Raw(b2, "valid")>>]}

=============================================================================
