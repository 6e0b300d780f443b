--------------------------- MODULE AuctionPromise ---------------------------
(***************************************************************************)
(* What an auction promises: bids are collected one bidder at a time, then *)
(* one highest bid is announced for every impression that has any, and     *)
(* nothing is collected or announced afterwards.                           *)
(***************************************************************************)
EXTENDS Integers

CONSTANT Bidders

VARIABLES collected,   \* bids taken so far: [seat, imp, id, price]
          winners,     \* the announced ones
          closed       \* whether the auction is over

vars == <<collected, winners, closed>>

Init == collected = {} /\ winners = {} /\ closed = FALSE

\* One bidder's answer is added, once.
Collect(b) ==
    /\ ~ closed
    /\ \A o \in collected : o.seat # b
    /\ collected \subseteq collected'
    /\ \A o \in collected' \ collected : o.seat = b
    /\ UNCHANGED <<winners, closed>>

IsBest(o, S) == \A p \in S : p.imp = o.imp => p.price <= o.price

\* One best bid for each impression with bids, and nothing else.
Announce ==
    /\ ~ closed
    /\ closed' = TRUE
    /\ winners' \subseteq collected
    /\ \A o \in winners' : IsBest(o, collected)
    /\ \A o \in collected : \E w \in winners' : w.imp = o.imp
    /\ \A v, w \in winners' : v.imp = w.imp => v = w
    /\ UNCHANGED collected

\* The request is refused, or answered without an auction.
Refuse == ~ closed /\ closed' = TRUE /\ UNCHANGED <<collected, winners>> /\ collected = {}

Next == (\E b \in Bidders : Collect(b)) \/ Announce \/ Refuse

Spec == Init /\ [][Next]_vars
=============================================================================
