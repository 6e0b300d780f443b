------------------------- MODULE BidderFanOutProofs -------------------------
(***************************************************************************)
(* Theorems about BidderFanOut for any bidders, requests, stored responses *)
(* and currencies.                                                         *)
(***************************************************************************)
EXTENDS BidderFanOut, FiniteSetTheorems, WellFoundedInduction, TLAPS

-----------------------------------------------------------------------------
(***************************************************************************)
(* Facts about the operators of the model.                                 *)
(***************************************************************************)

\* The loop over request.cur that finds a rate stops at a currency of the
\* request.
LEMMA FirstMatchType ==
  ASSUME NEW k, Matches(k) # {}
  PROVE  FirstMatch(k) \in Cur
<1>1. Matches(k) \subseteq Nat /\ Matches(k) \subseteq 1..Len(ReqCur)
  BY FanOutAssumption DEF Matches
<1> DEFINE Less == OpToRel(<, Nat)
<1>2. IsWellFoundedOn(Less, Nat)
  BY NatLessThanWellFounded, Zenon
<1>3. \A i, j \in Nat : i < j => <<i, j>> \in Less
  BY Zenon DEF OpToRel
<1> HIDE DEF Less
<1>4. PICK i \in Matches(k) : \A j \in Matches(k) : ~(<<j, i>> \in Less)
  BY <1>1, <1>2, WFMin
<1>5. ASSUME NEW j \in Matches(k) PROVE i <= j
  <2>1. i \in Nat /\ j \in Nat BY <1>1
  <2>2. ~(j < i) BY Zenon, <1>3, <1>4, <2>1
  <2> QED BY <2>1, <2>2
<1>6. (CHOOSE x \in Matches(k) : \A j \in Matches(k) : x <= j) \in Matches(k)
  BY <1>5
<1> QED
  BY <1>1, <1>6, FanOutAssumption DEF FirstMatch

\* How the calls of a bidder are counted: l answered, n running, k received, h
\* in hand, and d in all.  A call that ends moves from n to l, a message that is
\* received from l to the hand or to k, and the one in hand to k.
AddUp(l, n, k, h, d) == l \in Nat /\ n \in Nat /\ k \in Nat /\ h \in Nat /\ d \in Nat /\ l + n + k + h = d

LEMMA CountEnded ==
  \A l, n, k, h, d : AddUp(l, n, k, h, d) => (l + 1) + (n - 1) + k + h = d
BY DEF AddUp

LEMMA CountReceived ==
  \A l, n, k, d : AddUp(l, n, k, 0, d) => /\ (l - 1) + n + (k + 1) + 0 = d
                                          /\ (l - 1) + n + k + 1 = d
                                          /\ (l - 1) + n <= d
BY DEF AddUp

LEMMA CountHandled ==
  \A l, n, k, d : AddUp(l, n, k, 1, d) => l + n + (k + 1) + 0 = d
BY DEF AddUp

LEMMA CountPending ==
  ASSUME NEW l \in Nat, NEW n \in Nat, NEW d \in Nat, l + n <= d
  PROVE  (l + 1) + (n - 1) <= d
OBVIOUS

\* An empty channel has no places.
LEMMA NoPlaces == 1..Len(<<>>) = {}
OBVIOUS

\* Updating one entry of a table keeps the type of the table.
LEMMA TableUpdate ==
  ASSUME NEW A, NEW B, NEW C, NEW f \in [A -> [B -> C]], NEW a \in A, NEW b \in B, NEW v \in C
  PROVE  [f EXCEPT ![a][b] = v] \in [A -> [B -> C]]
OBVIOUS

\* Sets of calls are finite.
LEMMA CallsFinite ==
  ASSUME NEW S \in SUBSET Call
  PROVE  IsFiniteSet(S) /\ Cardinality(S) \in Nat
BY Zenon, FanOutAssumption, FS_Union, FS_Subset, FS_CardinalityType DEF Call

\* The sizes of disjoint sets add up.
LEMMA DisjointSizes ==
  ASSUME NEW S, NEW T, IsFiniteSet(S), IsFiniteSet(T), S \cap T = {}
  PROVE  Cardinality(S \cup T) = Cardinality(S) + Cardinality(T)
<1>1. Cardinality(S) \in Nat /\ Cardinality(T) \in Nat
  BY Zenon, FS_CardinalityType
<1>2. Cardinality(S \cup T) = Cardinality(S) + Cardinality(T) - Cardinality(S \cap T)
  BY Zenon, FS_Union
<1>3. Cardinality(S \cap T) = 0
  BY Zenon, FS_EmptySet
<1> QED
  BY <1>1, <1>2, <1>3

-----------------------------------------------------------------------------
(***************************************************************************)
(* Type correctness.                                                       *)
(***************************************************************************)

\* Initially every variable has its type.
LEMMA TypeInit == Init => TypeOK
<1> SUFFICES ASSUME Init PROVE TypeOK OBVIOUS
<1>1. CallTypesOK
  <2>1. pc \in [Bidder -> Working \cup Sent] /\ expired \in BOOLEAN
    BY Zenon DEF Init, Working
  <2>2. outcome \in [Bidder -> [Call -> Outcomes]]
    BY DEF Init, Outcomes
  <2> QED BY <2>1, <2>2 DEF Init, CallTypesOK
<1>2. HandleTypesOK BY DEF Init, HandleTypesOK
<1>3. ResultTypesOK BY FanOutAssumption DEF Init, ResultTypesOK
<1>4. AuctionTypesOK BY DEF Init, AuctionTypesOK
<1> QED BY <1>1, <1>2, <1>3, <1>4 DEF TypeOK

\* Every step keeps the types.
LEMMA TypeNext == TypeOK /\ [Next]_vars => TypeOK'
<1> SUFFICES ASSUME TypeOK, [Next]_vars PROVE TypeOK'
  OBVIOUS
<1> USE DEF TypeOK
<1>0. Bidder \subseteq Seat /\ Request \subseteq Call /\ StoredImp \subseteq Call
        /\ Stored \in [Bidder -> SUBSET Call]
  BY FanOutAssumption DEF Call
<1>1. ASSUME NEW b \in Bidder, ReturnEarly(b) PROVE TypeOK'
  <2>1. CallTypesOK'
    BY <1>1 DEF ReturnEarly, SendWrapper, CallTypesOK, Sent, callVars
  <2>2. HandleTypesOK' /\ ResultTypesOK'
    BY <1>1 DEF ReturnEarly, SendWrapper, HandleTypesOK, ResultTypesOK, CallTypesOK, handleVars, resultVars
  <2>3. AuctionTypesOK'
    BY <1>1 DEF ReturnEarly, SendWrapper, AuctionTypesOK, auctionVars
  <2> QED BY <2>1, <2>2, <2>3
<1>2. ASSUME NEW b \in Bidder, NEW R \in SUBSET Request, MakeRequests(b, R) PROVE TypeOK'
  <2>1. Cardinality(R) + Cardinality(Stored[b]) \in Nat /\ R \cup Stored[b] \subseteq Call
    BY <1>0, CallsFinite
  <2>2. CallTypesOK'
    BY <1>2, <2>1 DEF MakeRequests, MakeChannel, CallTypesOK, Working
  <2>3. HandleTypesOK' /\ ResultTypesOK' /\ AuctionTypesOK'
    BY <1>2 DEF MakeRequests, CallTypesOK, HandleTypesOK, ResultTypesOK, AuctionTypesOK, handleVars, resultVars, auctionVars
  <2> QED BY <2>2, <2>3
<1>3. ASSUME NEW b \in Bidder, NEW r \in Request, MakeOneRequest(b, r) PROVE TypeOK'
  <2>1. Cardinality({r}) + Cardinality(Stored[b]) \in Nat /\ {r} \subseteq Call
    BY <1>0, CallsFinite
  <2>2. CallTypesOK'
    BY <1>3, <2>1 DEF MakeOneRequest, MakeChannel, CallTypesOK, Working
  <2>3. HandleTypesOK' /\ ResultTypesOK' /\ AuctionTypesOK'
    BY <1>3 DEF MakeOneRequest, CallTypesOK, HandleTypesOK, ResultTypesOK, AuctionTypesOK, handleVars, resultVars, auctionVars
  <2> QED BY <2>2, <2>3
<1>4. ASSUME NEW b \in Bidder, NEW c \in Call, NEW o \in Outcomes, DoRequest(b, c, o) PROVE TypeOK'
  <2>1. CallTypesOK'
    BY <1>4 DEF DoRequest, EndCall, CallTypesOK
  <2>2. HandleTypesOK' /\ ResultTypesOK' /\ AuctionTypesOK'
    BY <1>4 DEF DoRequest, HandleTypesOK, ResultTypesOK, AuctionTypesOK, handleVars, resultVars, auctionVars
  <2> QED BY <2>1, <2>2
<1>5. ASSUME NEW b \in Bidder, NEW c \in Call, NEW o \in Outcomes, DoRequestInline(b, c, o) PROVE TypeOK'
  <2>1. CallTypesOK'
    <3>1. pc' \in [Bidder -> Working \cup Sent] /\ running' \in [Bidder -> SUBSET Call]
      BY Zenon, <1>5, <1>0 DEF DoRequestInline, CallTypesOK, Working
    <3>2. outcome' \in [Bidder -> [Call -> Outcomes]] /\ responseChannel' \in [Bidder -> Seq(Call)]
      BY <1>5 DEF DoRequestInline, EndCall, CallTypesOK
    <3> QED BY <1>5, <3>1, <3>2 DEF DoRequestInline, CallTypesOK
  <2>2. HandleTypesOK' /\ ResultTypesOK' /\ AuctionTypesOK'
    BY <1>5 DEF DoRequestInline, CallTypesOK, HandleTypesOK, ResultTypesOK, AuctionTypesOK, handleVars, resultVars, auctionVars
  <2> QED BY <2>1, <2>2
<1>6. ASSUME NEW b \in Bidder, NEW c \in Call, RejectCall(b, c) PROVE TypeOK'
  <2>1. CallTypesOK'
    BY <1>6 DEF RejectCall, Receive, CallTypesOK
  <2>2. HandleTypesOK' /\ AuctionTypesOK'
    BY <1>6 DEF RejectCall, HandleTypesOK, AuctionTypesOK, auctionVars
  <2>3. ResultTypesOK'
    BY <1>6 DEF RejectCall, rejectImps, ResultTypesOK
  <2> QED BY <2>1, <2>2, <2>3
<1>7. ASSUME NEW b \in Bidder, NEW c \in Call, NoBidResponse(b, c) PROVE TypeOK'
  <2>1. CallTypesOK'
    BY <1>7 DEF NoBidResponse, Receive, CallTypesOK
  <2>2. HandleTypesOK' /\ ResultTypesOK' /\ AuctionTypesOK'
    BY <1>7 DEF NoBidResponse, HandleTypesOK, ResultTypesOK, AuctionTypesOK, resultVars, auctionVars
  <2> QED BY <2>1, <2>2
<1>8. ASSUME NEW b \in Bidder, NEW c \in Call, NEW r \in Response, MakeBids(b, c, r) PROVE TypeOK'
  <2>1. r.bids \in Seq(RawBid) /\ (Matches(r.cur) # {} => FirstMatch(r.cur) \in Cur)
    BY FanOutAssumption, FirstMatchType
  <2>2. CallTypesOK'
    <3>1. responseChannel' \in [Bidder -> Seq(Call)]
      BY <1>8 DEF MakeBids, Receive, CallTypesOK
    <3>2. pc' \in [Bidder -> Working \cup Sent]
      BY Zenon, <1>8 DEF MakeBids, CallTypesOK, Working
    <3> QED BY <1>8, <3>1, <3>2 DEF MakeBids, CallTypesOK
  <2>3. HandleTypesOK'
    <3>1. reply' \in [Bidder -> [Call -> Response \cup {NoBids}]]
      BY <1>8 DEF MakeBids, HandleTypesOK
    <3>2. CASE Matches(r.cur) # {}
      <4>1. /\ convCur' = [convCur EXCEPT ![b] = FirstMatch(r.cur)]
            /\ pending' = [pending EXCEPT ![b] = r.bids]
            /\ current' = [current EXCEPT ![b] = c]
            /\ pc' = [pc EXCEPT ![b] = "bids"]
            /\ received' = received
        BY <1>8, <3>2 DEF MakeBids
      <4> QED BY <2>1, <3>1, <3>2, <4>1 DEF CallTypesOK, HandleTypesOK
    <3>3. CASE Matches(r.cur) = {}
      <4>1. received' = [received EXCEPT ![b] = @ + 1] /\ UNCHANGED <<pc, convCur, pending, current>>
        BY <1>8, <3>3 DEF MakeBids
      <4> QED BY <3>1, <4>1 DEF HandleTypesOK
    <3> QED BY <3>2, <3>3
  <2>4. ResultTypesOK'
    <3>1. seatFledge' \in [Bidder -> SUBSET Call]
      BY <1>8 DEF MakeBids, ResultTypesOK
    <3>2. CASE Matches(r.cur) # {}
      <4>1. seatCur' = [seatCur EXCEPT ![b][b] = FirstMatch(r.cur)] /\ UNCHANGED <<seatBids, nonBids>>
        BY <1>8, <3>2 DEF MakeBids
      <4>2. seatCur' \in [Bidder -> [Seat -> Cur \cup {NoCur}]]
        BY <1>0, <2>1, <3>2, <4>1, TableUpdate DEF ResultTypesOK
      <4> QED BY <3>1, <4>1, <4>2 DEF ResultTypesOK
    <3>3. CASE Matches(r.cur) = {}
      BY <1>8, <3>1, <3>3 DEF MakeBids, ResultTypesOK
    <3> QED BY <3>2, <3>3
  <2>5. AuctionTypesOK'
    BY <1>8 DEF MakeBids, AuctionTypesOK, auctionVars
  <2> QED BY <2>2, <2>3, <2>4, <2>5
<1>9. ASSUME NEW b \in Bidder, HandleBid(b) PROVE TypeOK'
  <2> DEFINE bid == Head(pending[b])
             new == [bidder |-> b, call |-> current[b], idx |-> Len(pending[b]),
                     cur |-> PriceCurrency(b, bid), kind |-> bid.kind]
  <2>1. bid \in RawBid /\ Tail(pending[b]) \in Seq(RawBid) /\ Len(pending[b]) \in Nat /\ current[b] \in Call
    BY <1>9 DEF HandleBid, HandleTypesOK
  <2>2. bid.seat \in Seat /\ bid.static \in Cur \cup {NoCur} /\ bid.kind \in {"valid", "invalid", "nil"}
    BY <2>1 DEF RawBid
  <2>3. PriceCurrency(b, bid) \in Cur \cup {NoCur} /\ CurrencyAfterAdjustments(b, bid) \in Cur \cup {NoCur}
    BY <1>0, <2>2 DEF PriceCurrency, CurrencyAfterAdjustments, HandleTypesOK, ResultTypesOK
  <2>4. new \in Bid
    BY <2>1, <2>2, <2>3 DEF Bid
  <2>5. CallTypesOK' /\ AuctionTypesOK'
    BY <1>9 DEF HandleBid, CallTypesOK, AuctionTypesOK, callVars, auctionVars
  <2>6. HandleTypesOK'
    BY <1>9, <2>1 DEF HandleBid, HandleTypesOK
  <2>7. ResultTypesOK'
    <3> HIDE DEF bid
    <3>1. \/ /\ seatBids' = [seatBids EXCEPT ![b][bid.seat] = @ \cup {new}]
             /\ seatCur' = [seatCur EXCEPT ![b][bid.seat] = CurrencyAfterAdjustments(b, bid)]
          \/ UNCHANGED <<seatBids, seatCur>>
      BY <1>9 DEF HandleBid, bid
    <3>2. UNCHANGED <<seatFledge, nonBids>>
      BY <1>9 DEF HandleBid
    <3> HIDE DEF new
    <3>3. seatBids' \in [Bidder -> [Seat -> SUBSET Bid]]
      <4>1. seatBids[b][bid.seat] \cup {new} \in SUBSET Bid
        BY <2>2, <2>4 DEF ResultTypesOK
      <4>2. [seatBids EXCEPT ![b][bid.seat] = seatBids[b][bid.seat] \cup {new}]
              \in [Bidder -> [Seat -> SUBSET Bid]]
        BY <2>2, <4>1, TableUpdate DEF ResultTypesOK
      <4> QED BY Zenon, <3>1, <4>2 DEF ResultTypesOK
    <3>4. seatCur' \in [Bidder -> [Seat -> Cur \cup {NoCur}]]
      <4>1. [seatCur EXCEPT ![b][bid.seat] = CurrencyAfterAdjustments(b, bid)]
              \in [Bidder -> [Seat -> Cur \cup {NoCur}]]
        BY <2>2, <2>3, TableUpdate DEF ResultTypesOK
      <4> QED BY Zenon, <3>1, <4>1 DEF ResultTypesOK
    <3> QED BY <3>2, <3>3, <3>4 DEF ResultTypesOK
  <2> QED BY <2>5, <2>6, <2>7
<1>10. ASSUME NEW b \in Bidder, NextResponse(b) PROVE TypeOK'
  <2>1. CallTypesOK'
    BY <1>10 DEF NextResponse, CallTypesOK, Working, callVars
  <2>2. HandleTypesOK'
    <3>1. \A x \in Bidder : pc'[x] = "bids" => current'[x] \in Call
      BY <1>10 DEF NextResponse, CallTypesOK, HandleTypesOK
    <3> QED BY <1>10, <3>1 DEF NextResponse, HandleTypesOK
  <2>3. ResultTypesOK' /\ AuctionTypesOK'
    BY <1>10 DEF NextResponse, ResultTypesOK, AuctionTypesOK, resultVars, auctionVars
  <2> QED BY <2>1, <2>2, <2>3
<1>11. ASSUME NEW b \in Bidder, Return(b) PROVE TypeOK'
  <2>1. CallTypesOK'
    BY <1>11 DEF Return, SendWrapper, CallTypesOK, Sent, callVars
  <2>2. HandleTypesOK'
    BY <1>11 DEF Return, SendWrapper, CallTypesOK, HandleTypesOK, handleVars
  <2>3. ValidBids(b) \in [Seat -> SUBSET Bid]
    <3>1. seatBids[b] \in [Seat -> SUBSET Bid]
      BY DEF ResultTypesOK
    <3>2. \A s \in Seat : {bid \in seatBids[b][s] : bid.kind = "valid"} \in SUBSET Bid
      BY <3>1
    <3> QED BY <3>2 DEF ValidBids
  <2>4. ResultTypesOK'
    BY <1>11, <2>3 DEF Return, ResultTypesOK
  <2>5. AuctionTypesOK'
    BY <1>11 DEF Return, SendWrapper, AuctionTypesOK, auctionVars
  <2> QED BY <2>1, <2>2, <2>4, <2>5
<1>12. ASSUME NEW b \in Bidder, Recover(b) PROVE HandleTypesOK' /\ ResultTypesOK' /\ AuctionTypesOK'
  <2>1. HandleTypesOK'
    BY <1>12 DEF Recover, SendWrapper, CallTypesOK, HandleTypesOK, handleVars
  <2>2. ResultTypesOK'
    BY <1>12 DEF Recover, ResultTypesOK
  <2>3. AuctionTypesOK'
    BY <1>12 DEF Recover, SendWrapper, AuctionTypesOK, auctionVars
  <2> QED BY <2>1, <2>2, <2>3
<1>13. ASSUME NEW b \in Bidder, PanicInRequest(b) PROVE TypeOK'
  <2>1. CallTypesOK'
    BY <1>13 DEF PanicInRequest, Recover, SendWrapper, CallTypesOK, Sent
  <2> QED BY <1>12, <1>13, <2>1 DEF PanicInRequest
<1>14. ASSUME NEW b \in Bidder, NEW c \in Call, PanicInMakeBids(b, c) PROVE TypeOK'
  <2>1. CallTypesOK'
    BY <1>14 DEF PanicInMakeBids, Receive, Recover, SendWrapper, CallTypesOK, Sent
  <2> QED BY <1>12, <1>14, <2>1 DEF PanicInMakeBids
<1>15. ASSUME NEW b \in Bidder, Merge(b) PROVE TypeOK'
  <2>1. CallTypesOK' /\ HandleTypesOK' /\ ResultTypesOK'
    BY <1>15 DEF Merge, CallTypesOK, HandleTypesOK, ResultTypesOK, callVars, handleVars, resultVars
  <2>2. chBids' \in Seq(Bidder) /\ merged' \subseteq Bidder /\ adapterExtra' \subseteq Bidder \cup {Nobody}
    BY <1>15 DEF Merge, AuctionTypesOK
  <2>3. adapterBids' \in [Seat -> SUBSET Bid] /\ adapterCur' \in [Seat -> Cur \cup {NoCur}]
    BY <1>15 DEF Merge, MergedBids, ResultTypesOK, AuctionTypesOK
  <2>4. fledge' \subseteq Bidder \X Call /\ seatNonBid' \subseteq Bidder \X (Call \X Reasons)
    BY <1>15 DEF Merge, CollectFledge, ResultTypesOK, AuctionTypesOK
  <2> QED BY <2>1, <2>2, <2>3, <2>4 DEF AuctionTypesOK
<1>16. CASE Expire
  BY <1>16 DEF Expire, CallTypesOK, HandleTypesOK, ResultTypesOK, AuctionTypesOK,
               callVars, handleVars, resultVars, auctionVars
<1>17. CASE UNCHANGED vars
  BY <1>17 DEF vars, CallTypesOK, HandleTypesOK, ResultTypesOK, AuctionTypesOK,
               callVars, handleVars, resultVars, auctionVars
<1> HIDE DEF TypeOK
<1> QED
  BY <1>1, <1>2, <1>3, <1>4, <1>5, <1>6, <1>7, <1>8, <1>9, <1>10, <1>11, <1>13, <1>14,
     <1>15, <1>16, <1>17 DEF Next, BidderStep, CallStep, Panic, Finished

\* Every variable keeps its type in every step of the fan-out.
THEOREM TypeCorrect == Spec => []TypeOK
<1> QED BY TypeInit, TypeNext, PTL DEF Spec

-----------------------------------------------------------------------------
(***************************************************************************)
(* The messages of a bidder's calls.  Every httpCallInfo that responseChannel *)
(* was made for is in flight, queued, in hand, or handled.                 *)
(***************************************************************************)

InHand(b) == IF pc[b] = "bids" THEN 1 ELSE 0

CallInv(b) ==
  /\ pc[b] = "start" => responseChannel[b] = <<>> /\ running[b] = {} /\ received[b] = 0
  /\ pc[b] = "inline" =>
       /\ responseChannel[b] = <<>> /\ received[b] = 0
       /\ Cardinality(running[b]) = 1 /\ dataLen[b] = 1 + Cardinality(Stored[b])
  /\ pc[b] \in {"collect", "bids"} =>
       Len(responseChannel[b]) + Cardinality(running[b]) + received[b] + InHand(b) = dataLen[b]
  /\ Len(responseChannel[b]) + Cardinality(running[b]) <= dataLen[b]
  /\ pc[b] = "returned" => responseChannel[b] = <<>> /\ running[b] = {}

\* The part of the state CallInv(b) is about.
CallState(b) == <<pc[b], dataLen[b], running[b], responseChannel[b], received[b]>>

\* Initially no call is made.
LEMMA CallInvInit == Init => \A b \in Bidder : CallInv(b)
<1> SUFFICES ASSUME Init, NEW b \in Bidder PROVE CallInv(b)
  OBVIOUS
<1>1. /\ pc[b] = "start" /\ responseChannel[b] = <<>> /\ running[b] = {}
      /\ received[b] = 0 /\ dataLen[b] = 0
  BY DEF Init
<1>2. Cardinality(running[b]) = 0 /\ Len(responseChannel[b]) = 0
  BY <1>1, FS_EmptySet
<1> QED BY <1>1, <1>2 DEF CallInv

\* A step that leaves a bidder's calls alone keeps their count.
LEMMA CallInvStutter ==
  ASSUME NEW b \in Bidder, CallInv(b), UNCHANGED CallState(b)
  PROVE  CallInv(b)'
BY DEF CallInv, CallState, InHand

\* Receiving a message takes one from the channel.
LEMMA ReceiveTakesOne ==
  ASSUME TypeOK, NEW b \in Bidder, NEW c \in Call, Receive(b, c)
  PROVE  /\ Len(responseChannel'[b]) = Len(responseChannel[b]) - 1
         /\ Len(responseChannel[b]) \in Nat
         /\ responseChannel' = [responseChannel EXCEPT ![b] = Tail(@)]
         /\ pc[b] = "collect"
BY DEF TypeOK, CallTypesOK, Receive

\* The other bidders' calls are left alone.
Elsewhere(b) == \A x \in Bidder \ {b} : UNCHANGED CallState(x)

LEMMA CountElsewhere ==
  ASSUME \A x \in Bidder : CallInv(x), NEW b \in Bidder, Elsewhere(b), CallInv(b)'
  PROVE  \A x \in Bidder : CallInv(x)'
BY CallInvStutter DEF Elsewhere

\* What is counted are numbers.
LEMMA CallCounts ==
  ASSUME TypeOK, TypeOK', NEW b \in Bidder
  PROVE  /\ Cardinality(running[b]) \in Nat /\ Cardinality(running'[b]) \in Nat
         /\ Cardinality(Stored[b]) \in Nat /\ Stored[b] \subseteq Call
         /\ Len(responseChannel[b]) \in Nat /\ Len(responseChannel'[b]) \in Nat
         /\ dataLen[b] \in Nat /\ received[b] \in Nat
<1>1. Stored[b] \subseteq Call /\ running[b] \subseteq Call /\ running'[b] \subseteq Call
  BY FanOutAssumption DEF TypeOK, CallTypesOK, Call
<1> QED BY <1>1, CallsFinite DEF TypeOK, CallTypesOK, HandleTypesOK

LEMMA CallTables ==
  ASSUME TypeOK
  PROVE  /\ pc \in [Bidder -> Working \cup Sent] /\ received \in [Bidder -> Nat]
         /\ responseChannel \in [Bidder -> Seq(Call)]
BY DEF TypeOK, CallTypesOK, HandleTypesOK

LEMMA ReceiveElsewhere ==
  ASSUME TypeOK, NEW b \in Bidder, NEW c \in Call, Receive(b, c)
  PROVE  \A x \in Bidder \ {b} : responseChannel'[x] = responseChannel[x]
BY CallTables DEF Receive

\* A bidder that returns early makes no call.
LEMMA CountReturnEarly ==
  ASSUME TypeOK, TypeOK', \A x \in Bidder : CallInv(x),
         NEW b \in Bidder, ReturnEarly(b)
  PROVE  \A x \in Bidder : CallInv(x)'
<1>1. Elsewhere(b)
  BY DEF ReturnEarly, SendWrapper, Elsewhere, CallState, callVars, handleVars, TypeOK, CallTypesOK
<1>2. CallInv(b)'
  BY DEF ReturnEarly, SendWrapper, CallInv, InHand, callVars, handleVars, TypeOK, CallTypesOK
<1> QED BY CountElsewhere, <1>1, <1>2

\* The calls of a bidder start together.
LEMMA CountMakeRequests ==
  ASSUME TypeOK, TypeOK', \A x \in Bidder : CallInv(x),
         NEW b \in Bidder, NEW R \in SUBSET Request, MakeRequests(b, R)
  PROVE  \A x \in Bidder : CallInv(x)'
<1>1. Elsewhere(b)
  BY DEF MakeRequests, MakeChannel, Elsewhere, CallState, handleVars, TypeOK, CallTypesOK
<1>2. Cardinality(R \cup Stored[b]) = Cardinality(R) + Cardinality(Stored[b])
  <2>1. IsFiniteSet(R) /\ IsFiniteSet(Stored[b]) /\ R \cap Stored[b] = {}
    BY CallCounts, CallsFinite, FanOutAssumption DEF Call
  <2> QED BY Zenon, <2>1, DisjointSizes
<1>3. /\ pc'[b] = "collect" /\ responseChannel'[b] = <<>> /\ received'[b] = 0
      /\ running'[b] = R \cup Stored[b] /\ dataLen'[b] = Cardinality(R) + Cardinality(Stored[b])
  BY DEF MakeRequests, MakeChannel, CallInv, handleVars, TypeOK, CallTypesOK
<1>4. CallInv(b)'
  <2>0. Cardinality(running'[b]) = dataLen'[b]
    BY <1>2, <1>3
  <2>1. Len(responseChannel'[b]) = 0
    BY <1>3
  <2>2. /\ Len(responseChannel'[b]) + Cardinality(running'[b]) + received'[b] + 0 = dataLen'[b]
        /\ Len(responseChannel'[b]) + Cardinality(running'[b]) <= dataLen'[b]
    <3>1. received'[b] = 0 /\ dataLen'[b] \in Nat
      BY <1>3 DEF TypeOK, CallTypesOK
    <3> QED BY <2>0, <2>1, <3>1
  <2> QED BY Zenon, <1>3, <2>2 DEF CallInv, InHand
<1> QED BY CountElsewhere, <1>1, <1>4

\* A single call runs in the goroutine of the bidder.
LEMMA CountMakeOneRequest ==
  ASSUME TypeOK, TypeOK', \A x \in Bidder : CallInv(x),
         NEW b \in Bidder, NEW r \in Request, MakeOneRequest(b, r)
  PROVE  \A x \in Bidder : CallInv(x)'
<1>1. Elsewhere(b)
  BY DEF MakeOneRequest, MakeChannel, Elsewhere, CallState, handleVars, TypeOK, CallTypesOK
<1>2. Cardinality({r}) = 1
  BY FS_Singleton
<1>3. /\ pc'[b] = "inline" /\ responseChannel'[b] = <<>> /\ received'[b] = 0
      /\ running'[b] = {r} /\ dataLen'[b] = 1 + Cardinality(Stored[b])
  BY <1>2 DEF MakeOneRequest, MakeChannel, CallInv, handleVars, TypeOK, CallTypesOK
<1>4. CallInv(b)'
  <2>1. Len(responseChannel'[b]) = 0 /\ Cardinality(running'[b]) = 1 BY <1>2, <1>3
  <2>2. 0 + 1 <= 1 + Cardinality(Stored[b]) BY CallCounts
  <2>3. Len(responseChannel'[b]) + Cardinality(running'[b]) <= dataLen'[b] BY Zenon, <1>3, <2>1, <2>2
  <2> QED BY Zenon, <1>3, <2>1, <2>3 DEF CallInv
<1> QED BY CountElsewhere, <1>1, <1>4

\* A call that ends sends its message.
LEMMA CountDoRequest ==
  ASSUME TypeOK, TypeOK', \A x \in Bidder : CallInv(x),
         NEW b \in Bidder, NEW c \in Call, NEW o \in Outcomes, DoRequest(b, c, o)
  PROVE  \A x \in Bidder : CallInv(x)'
<1>1. Elsewhere(b)
  BY DEF DoRequest, EndCall, Elsewhere, CallState, handleVars, TypeOK, CallTypesOK
<1>2. /\ c \in running[b] /\ pc[b] # "inline"
      /\ pc'[b] = pc[b] /\ received'[b] = received[b] /\ dataLen'[b] = dataLen[b]
      /\ running'[b] = running[b] \ {c}
      /\ Len(responseChannel'[b]) = Len(responseChannel[b]) + 1
  BY DEF DoRequest, EndCall, handleVars, TypeOK, CallTypesOK
<1>3. Cardinality(running'[b]) = Cardinality(running[b]) - 1
  <2>1. IsFiniteSet(running[b])
    BY CallsFinite DEF TypeOK, CallTypesOK
  <2> QED BY Zenon, <1>2, <2>1, FS_RemoveElement
<1>4. pc[b] \notin {"start", "inline", "returned"}
  BY <1>2 DEF CallInv
<1>5. CallInv(b)'
  <2>1. InHand(b) \in Nat /\ InHand(b)' = InHand(b) /\ pc'[b] \notin {"start", "inline", "returned"}
    BY <1>2, <1>4 DEF InHand
  <2> DEFINE l == Len(responseChannel[b])
             n == Cardinality(running[b])
             k == received[b]
             d == dataLen[b]
  <2>0. /\ l \in Nat /\ n \in Nat /\ k \in Nat /\ d \in Nat /\ l + n <= d
        /\ pc[b] \in {"collect", "bids"} => l + n + k + InHand(b) = d
    BY Zenon, CallCounts DEF CallInv
  <2> HIDE DEF l, n, k, d
  <2>2. (l + 1) + (n - 1) <= d
    BY <2>0, CountPending
  <2>3. pc[b] \in {"collect", "bids"} => (l + 1) + (n - 1) + k + InHand(b) = d
    <3>1. pc[b] \in {"collect", "bids"} => AddUp(l, n, k, InHand(b), d)
      BY <2>0, <2>1 DEF AddUp
    <3> QED BY Zenon, <3>1, CountEnded
  <2> USE DEF l, n, k, d
  <2> QED BY Zenon, <1>2, <1>3, <2>1, <2>2, <2>3 DEF CallInv
<1> QED BY CountElsewhere, <1>1, <1>5

\* So does the one that runs inline.
LEMMA CountDoRequestInline ==
  ASSUME TypeOK, TypeOK', \A x \in Bidder : CallInv(x),
         NEW b \in Bidder, NEW c \in Call, NEW o \in Outcomes, DoRequestInline(b, c, o)
  PROVE  \A x \in Bidder : CallInv(x)'
<1>1. Elsewhere(b)
  BY DEF DoRequestInline, EndCall, Elsewhere, CallState, handleVars, TypeOK, CallTypesOK
<1>2. /\ pc[b] = "inline" /\ pc'[b] = "collect"
      /\ received'[b] = received[b] /\ dataLen'[b] = dataLen[b]
      /\ running'[b] = Stored[b]
      /\ Len(responseChannel'[b]) = Len(responseChannel[b]) + 1
  BY DEF DoRequestInline, EndCall, handleVars, TypeOK, CallTypesOK
<1>3. received[b] = 0 /\ Len(responseChannel[b]) = 0 /\ dataLen[b] = 1 + Cardinality(Stored[b])
  BY <1>2 DEF CallInv
<1>4. CallInv(b)'
  BY CallCounts, <1>2, <1>3 DEF CallInv, InHand
<1> QED BY CountElsewhere, <1>1, <1>4

\* A message without bids is handled at once.
LEMMA CountNoResponse ==
  ASSUME TypeOK, TypeOK', \A x \in Bidder : CallInv(x),
         NEW b \in Bidder, NEW c \in Call, RejectCall(b, c) \/ NoBidResponse(b, c)
  PROVE  \A x \in Bidder : CallInv(x)'
<1>1. /\ Receive(b, c) /\ UNCHANGED <<pc, dataLen, running>>
      /\ received' = [received EXCEPT ![b] = @ + 1]
  BY DEF RejectCall, NoBidResponse
<1>2. Elsewhere(b)
  BY ReceiveElsewhere, CallTables, <1>1 DEF Elsewhere, CallState
<1>3. /\ received'[b] = received[b] + 1
      /\ Len(responseChannel'[b]) = Len(responseChannel[b]) - 1
      /\ dataLen'[b] = dataLen[b] /\ running'[b] = running[b]
  BY Zenon, <1>1, ReceiveTakesOne DEF TypeOK, HandleTypesOK
<1>4. CallInv(b)'
  <2>1. Len(responseChannel[b]) + Cardinality(running[b]) + received[b] + 0 = dataLen[b]
    BY Zenon, <1>1, ReceiveTakesOne DEF CallInv, InHand
  <2>0. Cardinality(running'[b]) = Cardinality(running[b])
    BY Zenon, <1>3
  <2>2. /\ Len(responseChannel'[b]) + Cardinality(running'[b]) + received'[b] + 0 = dataLen'[b]
        /\ Len(responseChannel'[b]) + Cardinality(running'[b]) <= dataLen'[b]
    <3> DEFINE l == Len(responseChannel[b])
               n == Cardinality(running[b])
               k == received[b]
               d == dataLen[b]
    <3>1. AddUp(l, n, k, 0, d)
      BY CallCounts, <2>1 DEF AddUp
    <3> HIDE DEF l, n, k, d
    <3>2. (l - 1) + n + (k + 1) + 0 = d /\ (l - 1) + n <= d
      BY Zenon, <3>1, CountReceived
    <3> USE DEF l, n, k, d
    <3> QED BY Zenon, <1>3, <2>0, <3>2
  <2>3. pc'[b] = "collect" BY <1>1, ReceiveTakesOne
  <2> QED BY Zenon, <2>2, <2>3 DEF CallInv, InHand
<1> QED BY CountElsewhere, <1>2, <1>4

\* One with bids is in hand, or is handled at once.
LEMMA CountMakeBids ==
  ASSUME TypeOK, TypeOK', \A x \in Bidder : CallInv(x),
         NEW b \in Bidder, NEW c \in Call, NEW r \in Response, MakeBids(b, c, r)
  PROVE  \A x \in Bidder : CallInv(x)'
<1>1. Receive(b, c) /\ UNCHANGED <<dataLen, running>>
  BY DEF MakeBids
<1>2. \/ pc' = [pc EXCEPT ![b] = "bids"] /\ received' = received
      \/ pc' = pc /\ received' = [received EXCEPT ![b] = @ + 1]
  BY DEF MakeBids
<1>3. Elsewhere(b)
  BY ReceiveElsewhere, CallTables, <1>1, <1>2 DEF Elsewhere, CallState
<1>4. \/ pc'[b] = "bids" /\ received'[b] = received[b]
      \/ pc'[b] = pc[b] /\ received'[b] = received[b] + 1
  BY <1>2 DEF TypeOK, CallTypesOK, HandleTypesOK
<1>5. CallInv(b)'
  <2>1. Len(responseChannel[b]) + Cardinality(running[b]) + received[b] + 0 = dataLen[b]
    BY <1>1, ReceiveTakesOne DEF CallInv, InHand
  <2>0. /\ Len(responseChannel'[b]) = Len(responseChannel[b]) - 1
        /\ dataLen'[b] = dataLen[b] /\ Cardinality(running'[b]) = Cardinality(running[b])
    BY Zenon, <1>1, ReceiveTakesOne
  <2> DEFINE l == Len(responseChannel[b])
             n == Cardinality(running[b])
             k == received[b]
             d == dataLen[b]
  <2>5. AddUp(l, n, k, 0, d)
    BY CallCounts, <2>1 DEF AddUp
  <2> HIDE DEF l, n, k, d
  <2>6. (l - 1) + n + (k + 1) + 0 = d /\ (l - 1) + n + k + 1 = d /\ (l - 1) + n <= d
    BY Zenon, <2>5, CountReceived
  <2> USE DEF l, n, k, d
  <2>2. Len(responseChannel'[b]) + Cardinality(running'[b]) <= dataLen'[b]
    BY Zenon, <2>0, <2>6
  <2>3. CASE pc'[b] = "bids" /\ received'[b] = received[b]
    <3>1. Len(responseChannel'[b]) + Cardinality(running'[b]) + received'[b] + 1 = dataLen'[b]
      BY Zenon, <2>0, <2>3, <2>6
    <3> QED BY <2>2, <2>3, <3>1 DEF CallInv, InHand
  <2>4. CASE pc'[b] = pc[b] /\ received'[b] = received[b] + 1
    <3>1. Len(responseChannel'[b]) + Cardinality(running'[b]) + received'[b] + 0 = dataLen'[b]
      BY Zenon, <2>0, <2>4, <2>6
    <3>2. pc'[b] = "collect" BY <1>1, <2>4, ReceiveTakesOne
    <3> QED BY <2>2, <3>1, <3>2 DEF CallInv, InHand
  <2> QED BY <1>4, <2>3, <2>4
<1> QED BY CountElsewhere, <1>3, <1>5

\* Handling a bid counts no message.
LEMMA CountHandleBid ==
  ASSUME TypeOK, TypeOK', \A x \in Bidder : CallInv(x),
         NEW b \in Bidder, HandleBid(b)
  PROVE  \A x \in Bidder : CallInv(x)'
<1>1. \A x \in Bidder : UNCHANGED CallState(x)
  BY DEF HandleBid, CallState, callVars
<1> QED BY <1>1, CallInvStutter

\* After the last bid the message is handled.
LEMMA CountNextResponse ==
  ASSUME TypeOK, TypeOK', \A x \in Bidder : CallInv(x),
         NEW b \in Bidder, NextResponse(b)
  PROVE  \A x \in Bidder : CallInv(x)'
<1>1. Elsewhere(b)
  BY DEF NextResponse, Elsewhere, CallState, callVars, TypeOK, CallTypesOK, HandleTypesOK
<1>2. /\ pc[b] = "bids" /\ pc'[b] = "collect" /\ received'[b] = received[b] + 1
      /\ UNCHANGED <<dataLen, running, responseChannel>>
  BY DEF NextResponse, callVars, TypeOK, CallTypesOK, HandleTypesOK
<1>3. CallInv(b)'
  <2>1. Len(responseChannel[b]) + Cardinality(running[b]) + received[b] + 1 = dataLen[b]
    BY <1>2 DEF CallInv, InHand
  <2>2. Len(responseChannel'[b]) + Cardinality(running'[b]) + received'[b] + 0 = dataLen'[b]
    <3> DEFINE l == Len(responseChannel[b])
               n == Cardinality(running[b])
               k == received[b]
               d == dataLen[b]
    <3>0. l \in Nat /\ n \in Nat /\ k \in Nat /\ d \in Nat
      BY Zenon, CallCounts
    <3> HIDE DEF l, n, k, d
    <3>1. l + n + (k + 1) + 0 = d
      <4>1. l + n + k + 1 = d BY Zenon, <2>1 DEF l, n, k, d
      <4>2. AddUp(l, n, k, 1, d) BY <3>0, <4>1 DEF AddUp
      <4> QED BY Zenon, <4>2, CountHandled
    <3> USE DEF l, n, k, d
    <3>2. /\ responseChannel'[b] = responseChannel[b] /\ running'[b] = running[b]
          /\ dataLen'[b] = dataLen[b] /\ received'[b] = received[b] + 1
      BY Zenon, <1>2
    <3> QED BY Zenon, <3>1, <3>2
  <2>3. Len(responseChannel'[b]) + Cardinality(running'[b]) <= dataLen'[b]
    BY <1>2 DEF CallInv
  <2> QED BY <1>2, <2>2, <2>3 DEF CallInv, InHand
<1> QED BY CountElsewhere, <1>1, <1>3

\* All messages are handled when the bidder returns.
LEMMA CountReturn ==
  ASSUME TypeOK, TypeOK', \A x \in Bidder : CallInv(x),
         NEW b \in Bidder, Return(b)
  PROVE  \A x \in Bidder : CallInv(x)'
<1>1. Elsewhere(b)
  BY DEF Return, SendWrapper, Elsewhere, CallState, callVars, handleVars, TypeOK, CallTypesOK
<1>2. /\ pc[b] = "collect" /\ pc'[b] = "returned" /\ received[b] = dataLen[b]
      /\ UNCHANGED <<dataLen, running, responseChannel, received>>
  BY DEF Return, SendWrapper, callVars, handleVars, TypeOK, CallTypesOK
<1>3. Len(responseChannel[b]) = 0 /\ Cardinality(running[b]) = 0
  BY CallCounts, <1>2 DEF CallInv, InHand
<1>4. responseChannel[b] = <<>> /\ running[b] = {}
  <2>1. running[b] \in SUBSET Call /\ responseChannel[b] \in Seq(Call)
    BY DEF TypeOK, CallTypesOK
  <2> QED BY <1>3, <2>1, CallsFinite, FS_EmptySet
<1>5. CallInv(b)'
  BY Zenon, <1>2, <1>4 DEF CallInv, InHand
<1> QED BY CountElsewhere, <1>1, <1>5

\* A panic before the calls leaves none running.
LEMMA CountPanicInRequest ==
  ASSUME TypeOK, TypeOK', \A x \in Bidder : CallInv(x),
         NEW b \in Bidder, PanicInRequest(b)
  PROVE  \A x \in Bidder : CallInv(x)'
<1>1. Elsewhere(b)
  BY ZenonT(40) DEF PanicInRequest, Recover, SendWrapper, Elsewhere, CallState, handleVars, TypeOK, CallTypesOK
<1>2. /\ pc[b] \in {"start", "inline"} /\ pc'[b] = "panicked" /\ running'[b] = {}
      /\ UNCHANGED <<dataLen, responseChannel>>
  BY DEF PanicInRequest, Recover, SendWrapper, TypeOK, CallTypesOK
<1>3. CallInv(b)'
  BY CallCounts, <1>2, FS_EmptySet DEF CallInv, InHand
<1> QED BY CountElsewhere, <1>1, <1>3

\* A panic with a message in hand leaves the others.
LEMMA CountPanicInMakeBids ==
  ASSUME TypeOK, TypeOK', \A x \in Bidder : CallInv(x),
         NEW b \in Bidder, NEW c \in Call, PanicInMakeBids(b, c)
  PROVE  \A x \in Bidder : CallInv(x)'
<1>1. /\ Receive(b, c) /\ UNCHANGED <<dataLen, running, received>>
      /\ pc' = [pc EXCEPT ![b] = "panicked"]
  BY ZenonT(40) DEF PanicInMakeBids, Recover, SendWrapper, handleVars
<1>2. Elsewhere(b)
  BY ReceiveElsewhere, CallTables, <1>1 DEF Elsewhere, CallState
<1>3. pc'[b] = "panicked"
  BY ZenonT(40), <1>1 DEF TypeOK, CallTypesOK
<1>4. CallInv(b)'
  <2>1. Len(responseChannel'[b]) = Len(responseChannel[b]) - 1
    BY <1>1, ReceiveTakesOne
  <2>2. dataLen'[b] = dataLen[b] /\ running'[b] = running[b]
    BY <1>1
  <2>3. Len(responseChannel[b]) + Cardinality(running[b]) <= dataLen[b]
    BY DEF CallInv
  <2>4. Len(responseChannel'[b]) + Cardinality(running'[b]) <= dataLen'[b]
    BY CallCounts, <2>1, <2>2, <2>3
  <2> QED BY <1>3, <2>4 DEF CallInv
<1> QED BY CountElsewhere, <1>2, <1>4

\* The auction does not touch the calls.
LEMMA CountAuction ==
  ASSUME TypeOK, TypeOK', \A x \in Bidder : CallInv(x),
         (\E b \in Bidder : Merge(b)) \/ Expire \/ UNCHANGED vars
  PROVE  \A x \in Bidder : CallInv(x)'
<1>1. \A x \in Bidder : UNCHANGED CallState(x)
  BY DEF Merge, Expire, vars, CallState, callVars, handleVars
<1> QED BY <1>1, CallInvStutter

\* Every step keeps the count of every bidder's messages.
LEMMA CallInvNext ==
  ASSUME TypeOK, TypeOK', [Next]_vars, \A b \in Bidder : CallInv(b)
  PROVE  \A b \in Bidder : CallInv(b)'
<1>1. ASSUME NEW b \in Bidder, ReturnEarly(b) PROVE \A x \in Bidder : CallInv(x)'
  BY Zenon, <1>1, CountReturnEarly
<1>2. ASSUME NEW b \in Bidder, NEW R \in SUBSET Request, MakeRequests(b, R) PROVE \A x \in Bidder : CallInv(x)'
  BY Zenon, <1>2, CountMakeRequests
<1>3. ASSUME NEW b \in Bidder, NEW r \in Request, MakeOneRequest(b, r) PROVE \A x \in Bidder : CallInv(x)'
  BY Zenon, <1>3, CountMakeOneRequest
<1>4. ASSUME NEW b \in Bidder, NEW c \in Call, NEW o \in Outcomes, DoRequest(b, c, o) PROVE \A x \in Bidder : CallInv(x)'
  BY Zenon, <1>4, CountDoRequest
<1>5. ASSUME NEW b \in Bidder, NEW c \in Call, NEW o \in Outcomes, DoRequestInline(b, c, o) PROVE \A x \in Bidder : CallInv(x)'
  BY Zenon, <1>5, CountDoRequestInline
<1>6. ASSUME NEW b \in Bidder, NEW c \in Call, RejectCall(b, c) \/ NoBidResponse(b, c) PROVE \A x \in Bidder : CallInv(x)'
  BY Zenon, <1>6, CountNoResponse
<1>7. ASSUME NEW b \in Bidder, NEW c \in Call, NEW r \in Response, MakeBids(b, c, r) PROVE \A x \in Bidder : CallInv(x)'
  BY Zenon, <1>7, CountMakeBids
<1>8. ASSUME NEW b \in Bidder, HandleBid(b) PROVE \A x \in Bidder : CallInv(x)'
  BY Zenon, <1>8, CountHandleBid
<1>9. ASSUME NEW b \in Bidder, NextResponse(b) PROVE \A x \in Bidder : CallInv(x)'
  BY Zenon, <1>9, CountNextResponse
<1>10. ASSUME NEW b \in Bidder, Return(b) PROVE \A x \in Bidder : CallInv(x)'
  BY Zenon, <1>10, CountReturn
<1>11. ASSUME NEW b \in Bidder, PanicInRequest(b) PROVE \A x \in Bidder : CallInv(x)'
  BY Zenon, <1>11, CountPanicInRequest
<1>12. ASSUME NEW b \in Bidder, NEW c \in Call, PanicInMakeBids(b, c) PROVE \A x \in Bidder : CallInv(x)'
  BY Zenon, <1>12, CountPanicInMakeBids
<1>13. ASSUME (\E b \in Bidder : Merge(b)) \/ Expire \/ UNCHANGED vars PROVE \A x \in Bidder : CallInv(x)'
  BY Zenon, <1>13, CountAuction
<1> QED
  BY Zenon, <1>1, <1>2, <1>3, <1>4, <1>5, <1>6, <1>7, <1>8, <1>9, <1>10, <1>11, <1>12, <1>13
     DEF Next, BidderStep, CallStep, Panic, Finished

-----------------------------------------------------------------------------
(***************************************************************************)
(* The wrappers of the bidders.  Every bidder is at work, queued or merged, *)
(* and chBids has a place for each bidder still at work.                   *)
(***************************************************************************)

AtWork == {b \in Bidder : pc[b] \in Working}

WrapperInv ==
  /\ Len(chBids) + Cardinality(AtWork) <= Cardinality(Bidder)
  /\ \A i \in 1..Len(chBids) : pc[chBids[i]] \in Sent
  /\ \A b \in merged : pc[b] \in Sent
  /\ \A b \in Bidder : b \in AtWork \/ b \in merged \/ \E i \in 1..Len(chBids) : chBids[i] = b

\* The bidders at work are finitely many, and no more than there are.
LEMMA AtWorkFinite ==
  /\ IsFiniteSet(Bidder) /\ Cardinality(Bidder) \in Nat
  /\ IsFiniteSet(AtWork) /\ Cardinality(AtWork) \in Nat /\ Cardinality(AtWork) <= Cardinality(Bidder)
<1>1. AtWork \subseteq Bidder BY DEF AtWork
<1> QED BY <1>1, FanOutAssumption, FS_Subset, FS_CardinalityType

\* Initially every bidder is at work.
LEMMA WrapperInit == Init => WrapperInv
<1> SUFFICES ASSUME Init PROVE WrapperInv OBVIOUS
<1>1. AtWork = Bidder BY DEF Init, AtWork, Working
<1>2. Len(chBids) = 0 /\ merged = {} BY DEF Init
<1>3. Len(chBids) + Cardinality(AtWork) <= Cardinality(Bidder) BY <1>1, <1>2, AtWorkFinite
<1> QED BY <1>1, <1>2, <1>3 DEF WrapperInv

\* A step inside requestBid, or of a call.
LEMMA WrapperStutter ==
  ASSUME TypeOK, WrapperInv, UNCHANGED <<chBids, merged>>,
         \A b \in Bidder : pc'[b] = pc[b] \/ (pc[b] \in Working /\ pc'[b] \in Working)
  PROVE  WrapperInv'
<1>1. AtWork' = AtWork BY DEF AtWork
<1>2. \A b \in Bidder : pc[b] \in Sent => pc'[b] \in Sent BY DEF Working, Sent
<1>3. (\A i \in 1..Len(chBids) : chBids[i] \in Bidder) /\ merged \subseteq Bidder
  BY DEF TypeOK, AuctionTypesOK
<1>4. Len(chBids') + Cardinality(AtWork') <= Cardinality(Bidder) BY <1>1 DEF WrapperInv
<1>5. \A i \in 1..Len(chBids') : pc'[chBids'[i]] \in Sent BY <1>2, <1>3 DEF WrapperInv
<1>6. \A b \in merged' : pc'[b] \in Sent BY <1>2, <1>3 DEF WrapperInv
<1>7. \A b \in Bidder : b \in AtWork' \/ b \in merged' \/ \E i \in 1..Len(chBids') : chBids'[i] = b
  BY <1>1 DEF WrapperInv
<1> QED BY <1>4, <1>5, <1>6, <1>7 DEF WrapperInv

\* A bidder sends its wrapper.
LEMMA WrapperSend ==
  ASSUME TypeOK, WrapperInv, NEW b \in Bidder, NEW how \in Sent, SendWrapper(b, how),
         pc[b] \in Working, UNCHANGED merged
  PROVE  WrapperInv'
<1>1. /\ chBids \in Seq(Bidder) /\ merged \subseteq Bidder
      /\ pc \in [Bidder -> Working \cup Sent] /\ Working \cap Sent = {}
  BY DEF TypeOK, CallTypesOK, AuctionTypesOK, Working, Sent
<1>2. chBids' = Append(chBids, b) /\ pc' = [pc EXCEPT ![b] = how]
  BY DEF SendWrapper
<1>3. Len(chBids') = Len(chBids) + 1 /\ Len(chBids) \in Nat
      /\ chBids'[Len(chBids) + 1] = b /\ \A i \in 1..Len(chBids) : chBids'[i] = chBids[i]
  BY <1>1, <1>2
<1>4. AtWork' = AtWork \ {b} /\ b \in AtWork
  BY <1>1, <1>2 DEF AtWork
<1>5. Cardinality(AtWork') = Cardinality(AtWork) - 1
  BY Zenon, <1>4, AtWorkFinite, FS_RemoveElement
<1>6. Len(chBids') + Cardinality(AtWork') <= Cardinality(Bidder)
  BY <1>3, <1>5, AtWorkFinite DEF WrapperInv
<1>7. pc'[b] \in Sent /\ \A x \in Bidder : pc[x] \in Sent => pc'[x] \in Sent
  BY <1>1, <1>2
<1>8. \A i \in 1..Len(chBids) : chBids[i] \in Bidder
  BY <1>1
<1>9. \A i \in 1..Len(chBids') : pc'[chBids'[i]] \in Sent
  BY <1>3, <1>7, <1>8 DEF WrapperInv
<1>10. \A x \in merged' : pc'[x] \in Sent
  BY <1>1, <1>7 DEF WrapperInv
<1>11. \A x \in Bidder : x \in AtWork' \/ x \in merged' \/ \E i \in 1..Len(chBids') : chBids'[i] = x
  <2> SUFFICES ASSUME NEW x \in Bidder, x \notin AtWork', x \notin merged'
               PROVE  \E i \in 1..Len(chBids') : chBids'[i] = x
    OBVIOUS
  <2>1. CASE x = b BY <1>3, <2>1
  <2>2. CASE x # b
    <3>1. x \notin AtWork /\ x \notin merged BY <1>4, <2>2
    <3>2. PICK i \in 1..Len(chBids) : chBids[i] = x BY <3>1 DEF WrapperInv
    <3> QED BY <1>3, <3>2
  <2> QED BY <2>1, <2>2
<1> QED BY <1>6, <1>9, <1>10, <1>11 DEF WrapperInv

\* The loop of getAllBids takes a wrapper.
LEMMA WrapperMerge ==
  ASSUME TypeOK, WrapperInv, NEW b \in Bidder, Merge(b)
  PROVE  WrapperInv'
<1>1. /\ chBids \in Seq(Bidder) /\ chBids # <<>> /\ b = Head(chBids) /\ chBids' = Tail(chBids)
      /\ merged' = merged \cup {b} /\ pc' = pc
  BY Zenon DEF Merge, TypeOK, AuctionTypesOK
<1>2. /\ Len(chBids') = Len(chBids) - 1 /\ Len(chBids) \in Nat /\ Len(chBids) >= 1 /\ chBids[1] = b
      /\ \A i \in 1..Len(chBids') : chBids'[i] = chBids[i + 1]
  BY <1>1
<1>3. AtWork' = AtWork BY <1>1 DEF AtWork
<1>4. Len(chBids') + Cardinality(AtWork') <= Cardinality(Bidder)
  BY <1>2, <1>3, AtWorkFinite DEF WrapperInv
<1>5. \A i \in 1..Len(chBids') : pc'[chBids'[i]] \in Sent
  BY <1>1, <1>2 DEF WrapperInv
<1>6. \A x \in merged' : pc'[x] \in Sent
  BY <1>1, <1>2 DEF WrapperInv
<1>7. \A x \in Bidder : x \in AtWork' \/ x \in merged' \/ \E i \in 1..Len(chBids') : chBids'[i] = x
  <2> SUFFICES ASSUME NEW x \in Bidder, x \notin AtWork, x \notin merged, x # b
               PROVE  \E i \in 1..Len(chBids') : chBids'[i] = x
    BY <1>1, <1>3
  <2>1. PICK i \in 1..Len(chBids) : chBids[i] = x BY DEF WrapperInv
  <2>2. i # 1 BY <1>2, <2>1
  <2>3. i - 1 \in 1..Len(chBids') /\ chBids'[i - 1] = x BY <1>2, <2>1, <2>2
  <2> QED BY <2>3
<1> QED BY <1>4, <1>5, <1>6, <1>7 DEF WrapperInv

\* Every step keeps every bidder's wrapper accounted for.
LEMMA WrapperNext == TypeOK /\ WrapperInv /\ [Next]_vars => WrapperInv'
<1> SUFFICES ASSUME TypeOK, WrapperInv, [Next]_vars PROVE WrapperInv'
  OBVIOUS
<1>0. pc \in [Bidder -> Working \cup Sent]
  BY DEF TypeOK, CallTypesOK
<1>1. ASSUME NEW b \in Bidder, ReturnEarly(b) \/ Return(b) \/ Panic(b) PROVE WrapperInv'
  <2>1. /\ SendWrapper(b, "refused") \/ SendWrapper(b, "returned") \/ SendWrapper(b, "panicked")
        /\ pc[b] \in Working /\ UNCHANGED merged
    BY Zenon, <1>1 DEF ReturnEarly, Return, Panic, PanicInRequest, PanicInMakeBids, Receive, Recover, Working, auctionVars
  <2>2. "refused" \in Sent /\ "returned" \in Sent /\ "panicked" \in Sent
    BY DEF Sent
  <2> QED BY <2>1, <2>2, WrapperSend
<1>2. ASSUME NEW b \in Bidder, Merge(b) PROVE WrapperInv'
  BY <1>2, WrapperMerge
<1>3. ASSUME NEW b \in Bidder, NEW c \in Call, CallStep(b, c) PROVE WrapperInv'
  <2>1. UNCHANGED <<chBids, merged>> /\ (pc' = pc \/ (pc[b] = "inline" /\ pc' = [pc EXCEPT ![b] = "collect"]))
    BY Zenon, <1>3 DEF CallStep, DoRequest, DoRequestInline, auctionVars
  <2> QED BY <1>0, <2>1, WrapperStutter DEF Working
<1>4. ASSUME NEW b \in Bidder,
             \/ \E R \in SUBSET Request : MakeRequests(b, R)
             \/ \E r \in Request : MakeOneRequest(b, r)
      PROVE  WrapperInv'
  <2>1. /\ UNCHANGED <<chBids, merged>> /\ pc[b] = "start"
        /\ pc' = [pc EXCEPT ![b] = "collect"] \/ pc' = [pc EXCEPT ![b] = "inline"]
    BY Zenon, <1>4 DEF MakeRequests, MakeOneRequest, auctionVars
  <2> QED BY <1>0, <2>1, WrapperStutter DEF Working
<1>5. ASSUME NEW b \in Bidder, NEW c \in Call, RejectCall(b, c) \/ NoBidResponse(b, c) PROVE WrapperInv'
  <2>1. UNCHANGED <<chBids, merged, pc>>
    BY <1>5 DEF RejectCall, NoBidResponse, auctionVars
  <2> QED BY <2>1, WrapperStutter
<1>6. ASSUME NEW b \in Bidder, NEW c \in Call, NEW r \in Response, MakeBids(b, c, r) PROVE WrapperInv'
  <2>1. /\ UNCHANGED <<chBids, merged>> /\ pc[b] = "collect"
        /\ pc' = [pc EXCEPT ![b] = "bids"] \/ pc' = pc
    BY <1>6 DEF MakeBids, Receive, auctionVars
  <2> QED BY <1>0, <2>1, WrapperStutter DEF Working
<1>7. ASSUME NEW b \in Bidder, HandleBid(b) \/ NextResponse(b) PROVE WrapperInv'
  <2>1. /\ UNCHANGED <<chBids, merged>> /\ pc[b] = "bids"
        /\ pc' = [pc EXCEPT ![b] = "collect"] \/ pc' = pc
    BY <1>7 DEF HandleBid, NextResponse, auctionVars
  <2> QED BY <1>0, <2>1, WrapperStutter DEF Working
<1>8. CASE Expire \/ UNCHANGED vars
  <2>1. UNCHANGED <<chBids, merged, pc>>
    BY <1>8 DEF Expire, vars, auctionVars
  <2> QED BY <2>1, WrapperStutter
<1> QED
  BY Zenon, <1>1, <1>2, <1>3, <1>4, <1>5, <1>6, <1>7, <1>8 DEF Next, BidderStep, Finished

\* In every reachable state all messages are accounted for.
LEMMA Accounted == Spec => [](TypeOK /\ (\A b \in Bidder : CallInv(b)) /\ WrapperInv)
<1> DEFINE Inv == TypeOK /\ (\A b \in Bidder : CallInv(b)) /\ WrapperInv
<1>1. Init => Inv BY TypeInit, CallInvInit, WrapperInit
<1>2. Inv /\ [Next]_vars => Inv' BY TypeNext, CallInvNext, WrapperNext
<1> QED BY <1>1, <1>2, PTL DEF Spec

\* No goroutine of an auction ever blocks on a send, for any number of
\* bidders, requests and stored responses: responseChannel has room for every
\* call in flight, a late one of a bidder that panicked included, and chBids
\* for every bidder at work.
THEOREM SendsNeverBlock == Spec => []SendNeverBlocks
<1>1. TypeOK /\ (\A b \in Bidder : CallInv(b)) /\ WrapperInv => SendNeverBlocks
  <2> SUFFICES ASSUME TypeOK, \A b \in Bidder : CallInv(b), WrapperInv PROVE SendNeverBlocks
    OBVIOUS
  <2>1. ASSUME NEW b \in Bidder, running[b] # {} PROVE Len(responseChannel[b]) < dataLen[b]
    <3>1. running[b] \in SUBSET Call /\ responseChannel[b] \in Seq(Call) /\ dataLen[b] \in Nat
      BY DEF TypeOK, CallTypesOK
    <3>2. Cardinality(running[b]) \in Nat /\ Cardinality(running[b]) # 0
      BY <2>1, <3>1, CallsFinite, FS_EmptySet
    <3> QED BY <3>1, <3>2 DEF CallInv
  <2>2. ASSUME NEW b \in Bidder, pc[b] \in Working PROVE Len(chBids) < Cardinality(Bidder)
    <3>1. AtWork # {} BY <2>2 DEF AtWork
    <3>2. Cardinality(AtWork) # 0 BY <3>1, AtWorkFinite, FS_EmptySet
    <3>3. Len(chBids) \in Nat BY DEF TypeOK, AuctionTypesOK
    <3> QED BY <3>2, <3>3, AtWorkFinite DEF WrapperInv
  <2> QED BY <2>1, <2>2 DEF SendNeverBlocks
<1> QED BY <1>1, Accounted, PTL

\* No receiver of an auction waits for a message nobody will send: neither
\* requestBid for a call, nor getAllBids for a bidder.
THEOREM ReceiversNeverStarve == Spec => []ReceiverNeverStarves
<1>1. TypeOK /\ (\A b \in Bidder : CallInv(b)) /\ WrapperInv => ReceiverNeverStarves
  <2> SUFFICES ASSUME TypeOK, \A b \in Bidder : CallInv(b), WrapperInv PROVE ReceiverNeverStarves
    OBVIOUS
  <2>1. ASSUME NEW b \in Bidder, pc[b] = "collect", received[b] < dataLen[b],
               responseChannel[b] = <<>>, running[b] = {}
        PROVE  FALSE
    <3>1. Len(responseChannel[b]) = 0 /\ Cardinality(running[b]) = 0
      BY <2>1, FS_EmptySet
    <3>2. received[b] \in Nat /\ dataLen[b] \in Nat
      BY DEF TypeOK, CallTypesOK, HandleTypesOK
    <3>3. Len(responseChannel[b]) + Cardinality(running[b]) + received[b] + 0 = dataLen[b]
      BY Zenon, <2>1 DEF CallInv, InHand
    <3> QED BY <2>1, <3>1, <3>2, <3>3
  <2>2. ASSUME merged # Bidder, chBids = <<>> PROVE \E b \in Bidder : pc[b] \in Working
    <3>1. PICK b \in Bidder : b \notin merged
      BY Zenon, <2>2 DEF TypeOK, AuctionTypesOK
    <3>2. 1..Len(chBids) = {} BY <2>2
    <3>3. b \in AtWork BY <3>1, <3>2 DEF WrapperInv
    <3> QED BY <3>3 DEF AtWork
  <2> QED BY <2>1, <2>2 DEF ReceiverNeverStarves
<1> QED BY <1>1, Accounted, PTL

-----------------------------------------------------------------------------
(***************************************************************************)
(* A wrapper is final once sent.                                           *)
(***************************************************************************)

\* What the wrapper of b carries.
Carried(b) == <<pc[b], seatBids[b], seatCur[b], seatFledge[b], nonBids[b]>>

\* No step changes what a bidder carries once its wrapper is sent.
LEMMA SentStep ==
  ASSUME TypeOK, [Next]_vars, NEW x \in Bidder, pc[x] \in Sent
  PROVE  UNCHANGED Carried(x)
<1>0. pc[x] \notin {"start", "inline", "collect", "bids"}
  BY DEF Sent
<1>t. /\ pc \in [Bidder -> Working \cup Sent]
      /\ seatBids \in [Bidder -> [Seat -> SUBSET Bid]]
      /\ seatCur \in [Bidder -> [Seat -> Cur \cup {NoCur}]]
      /\ seatFledge \in [Bidder -> SUBSET Call]
      /\ nonBids \in [Bidder -> SUBSET (Call \X Reasons)]
  BY DEF TypeOK, CallTypesOK, ResultTypesOK
<1>1. ASSUME NEW b \in Bidder, BidderStep(b) \/ Panic(b) PROVE UNCHANGED Carried(x)
  <2>1. pc[b] \in {"start", "inline", "collect", "bids"}
    BY Zenon, <1>1 DEF BidderStep, Panic, ReturnEarly, MakeRequests, MakeOneRequest, RejectCall, NoBidResponse,
                MakeBids, HandleBid, NextResponse, Return, PanicInRequest, PanicInMakeBids, Receive
  <2>2. b # x BY <1>0, <2>1
  <2>3. CASE ReturnEarly(b)
    BY <1>t, <2>2, <2>3 DEF ReturnEarly, SendWrapper, Carried, resultVars
  <2>4. CASE \/ \E R \in SUBSET Request : MakeRequests(b, R)
             \/ \E r \in Request : MakeOneRequest(b, r)
    BY Zenon, <1>t, <2>2, <2>4 DEF MakeRequests, MakeOneRequest, Carried, resultVars
  <2>5. CASE \E c \in Call : RejectCall(b, c) \/ NoBidResponse(b, c)
    BY ZenonT(40), <1>t, <2>2, <2>5 DEF RejectCall, NoBidResponse, rejectImps, Carried, resultVars
  <2>6. CASE \E c \in Call, r \in Response : MakeBids(b, c, r)
    BY <1>t, <2>2, <2>6 DEF MakeBids, Carried
  <2>7. CASE HandleBid(b)
    BY Zenon, <1>t, <2>2, <2>7 DEF HandleBid, Carried
  <2>8. CASE NextResponse(b)
    BY Zenon, <1>t, <2>2, <2>8 DEF NextResponse, Carried, resultVars
  <2>9. CASE Return(b)
    BY Zenon, <1>t, <2>2, <2>9 DEF Return, SendWrapper, Carried
  <2>10. CASE Panic(b)
    BY Zenon, <1>t, <2>2, <2>10 DEF Panic, PanicInRequest, PanicInMakeBids, Recover, SendWrapper, Carried
  <2> QED BY <1>1, <2>3, <2>4, <2>5, <2>6, <2>7, <2>8, <2>9, <2>10 DEF BidderStep
<1>2. ASSUME NEW b \in Bidder, NEW c \in Call, CallStep(b, c) PROVE UNCHANGED Carried(x)
  <2>1. UNCHANGED resultVars /\ (pc' = pc \/ (pc[b] = "inline" /\ pc' = [pc EXCEPT ![b] = "collect"]))
    BY <1>2 DEF CallStep, DoRequest, DoRequestInline
  <2> QED BY <1>0, <1>t, <2>1 DEF Carried, resultVars
<1>3. CASE (\E b \in Bidder : Merge(b)) \/ Expire \/ UNCHANGED vars
  BY <1>3 DEF Merge, Expire, vars, resultVars, Carried
<1> QED BY <1>1, <1>2, <1>3 DEF Next, Finished

\* Once a bidder's wrapper is sent, no step of a call in flight, of another
\* bidder or of the merging loop changes what it carries.
THEOREM WrapperIsFinal == Spec => SentIsFinal
<1>1. TypeOK /\ [Next]_vars =>
        [\A b \in Bidder : pc[b] \in Sent =>
           UNCHANGED <<pc[b], seatBids[b], seatCur[b], seatFledge[b], nonBids[b]>>]_vars
  BY SentStep DEF Carried
<1> QED BY <1>1, TypeCorrect, PTL DEF Spec, SentIsFinal

-----------------------------------------------------------------------------
(***************************************************************************)
(* What the calls of a bidder gave reaches the auction.  While the bidder  *)
(* is at work, a failed call is queued or is a non-bid, and the FLEDGE     *)
(* configs of a reply are in its seat; what a merged bidder had is merged. *)
(***************************************************************************)

Queued(b, c) == \E i \in 1..Len(responseChannel[b]) : responseChannel[b][i] = c

Kept(b) ==
  pc[b] \in Working \cup {"returned"} =>
    \A c \in Call :
      /\ outcome[b][c] \in Reasons => Queued(b, c) \/ <<c, outcome[b][c]>> \in nonBids[b]
      /\ (reply[b][c] # NoBids /\ reply[b][c].fledge) => c \in seatFledge[b]

HandedOver(b) ==
  b \in merged =>
    /\ \A n \in nonBids[b] : <<b, n>> \in seatNonBid
    /\ \A c \in seatFledge[b] : <<b, c>> \in fledge

KeptInv == \A b \in Bidder : Kept(b) /\ HandedOver(b)

\* Initially there is nothing to keep.
LEMMA KeptInit == Init => KeptInv
<1> SUFFICES ASSUME Init, NEW b \in Bidder
             PROVE  Kept(b) /\ HandedOver(b)
  BY Zenon DEF KeptInv
<1>1. merged = {} /\ \A c \in Call : outcome[b][c] = "none" /\ reply[b][c] = NoBids
  BY DEF Init
<1>2. "none" \notin Reasons
  BY DEF Reasons
<1> QED
  BY Zenon, <1>1, <1>2 DEF Kept, HandedOver

\* The part of the state Kept(b) is about.
KeptState(b) == <<outcome[b], responseChannel[b], reply[b], nonBids[b], seatFledge[b]>>

\* A step that leaves a bidder's results alone keeps them.
LEMMA KeptStutter ==
  ASSUME NEW b \in Bidder, Kept(b), UNCHANGED KeptState(b),
         pc'[b] = pc[b] \/ pc[b] \in Working \/ pc'[b] \notin Working \cup {"returned"}
  PROVE  Kept(b)'
BY DEF Kept, KeptState, Queued

\* Taking the head of the channel leaves the other calls queued.
LEMMA QueuedAfterReceive ==
  ASSUME TypeOK, NEW b \in Bidder, NEW c \in Call, Receive(b, c),
         NEW d \in Call, d # c, Queued(b, d)
  PROVE  Queued(b, d)'
<1>1. responseChannel[b] \in Seq(Call) /\ responseChannel[b] # <<>>
      /\ c = Head(responseChannel[b]) /\ responseChannel'[b] = Tail(responseChannel[b])
  BY DEF Receive, TypeOK, CallTypesOK
<1>2. PICK i \in 1..Len(responseChannel[b]) : responseChannel[b][i] = d
  BY DEF Queued
<1>3. i # 1
  BY <1>1, <1>2
<1>4. i - 1 \in 1..Len(Tail(responseChannel[b])) /\ Tail(responseChannel[b])[i - 1] = d
  BY <1>1, <1>2, <1>3
<1> QED BY <1>1, <1>4 DEF Queued

\* A call that ends is queued, and those queued before it stay so.
LEMMA QueuedAfterCall ==
  ASSUME TypeOK, NEW b \in Bidder, NEW c \in Call, NEW o \in Outcomes, EndCall(b, c, o)
  PROVE  Queued(b, c)' /\ \A d \in Call : Queued(b, d) => Queued(b, d)'
<1>1. responseChannel[b] \in Seq(Call) /\ responseChannel'[b] = Append(responseChannel[b], c)
  BY DEF EndCall, TypeOK, CallTypesOK
<1>2. Len(responseChannel'[b]) = Len(responseChannel[b]) + 1 /\ Len(responseChannel[b]) \in Nat
      /\ responseChannel'[b][Len(responseChannel[b]) + 1] = c
      /\ \A i \in 1..Len(responseChannel[b]) : responseChannel'[b][i] = responseChannel[b][i]
  BY <1>1
<1>3. Queued(b, c)'
  BY <1>2 DEF Queued
<1>4. ASSUME NEW d \in Call, Queued(b, d) PROVE Queued(b, d)'
  <2>1. PICK i \in 1..Len(responseChannel[b]) : responseChannel[b][i] = d
    BY <1>4 DEF Queued
  <2> QED BY <1>2, <2>1 DEF Queued
<1> QED BY <1>3, <1>4

\* Every step keeps the results of every bidder's calls.
LEMMA KeptNext ==
  ASSUME TypeOK, TypeOK', [Next]_vars, \A b \in Bidder : Kept(b)
  PROVE  \A b \in Bidder : Kept(b)'
<1> DEFINE KeptElsewhere(b) == \A x \in Bidder \ {b} : UNCHANGED <<pc[x], KeptState(x)>>
<1>0. ASSUME NEW b \in Bidder, KeptElsewhere(b), Kept(b)' PROVE \A x \in Bidder : Kept(x)'
  BY ZenonT(40), <1>0, KeptStutter
<1>t. /\ pc \in [Bidder -> Working \cup Sent]
      /\ outcome \in [Bidder -> [Call -> Outcomes]]
      /\ responseChannel \in [Bidder -> Seq(Call)]
      /\ reply \in [Bidder -> [Call -> Response \cup {NoBids}]]
      /\ seatFledge \in [Bidder -> SUBSET Call]
      /\ nonBids \in [Bidder -> SUBSET (Call \X Reasons)]
  BY DEF TypeOK, CallTypesOK, HandleTypesOK, ResultTypesOK
<1> HIDE DEF KeptElsewhere
<1>1. ASSUME NEW b \in Bidder, NEW c \in Call, NEW o \in Outcomes,
             DoRequest(b, c, o) \/ DoRequestInline(b, c, o)
      PROVE  \A x \in Bidder : Kept(x)'
  <2>1. /\ EndCall(b, c, o)
        /\ responseChannel' = [responseChannel EXCEPT ![b] = Append(@, c)]
        /\ outcome' = [outcome EXCEPT ![b][c] = o]
        /\ UNCHANGED <<reply, seatFledge, nonBids>>
        /\ pc' = pc \/ (pc[b] = "inline" /\ pc' = [pc EXCEPT ![b] = "collect"])
    BY <1>1 DEF DoRequest, DoRequestInline, EndCall, handleVars, resultVars
  <2>2. KeptElsewhere(b)
    BY <1>t, <2>1 DEF KeptElsewhere, KeptState
  <2>3. \A d \in Call : outcome'[b][d] = IF d = c THEN o ELSE outcome[b][d]
    BY <1>t, <2>1
  <2>4. pc'[b] \in Working \cup {"returned"} => pc[b] \in Working \cup {"returned"}
    BY <1>t, <2>1 DEF Working
  <2>5. Kept(b)'
    BY Zenon, <2>1, <2>3, <2>4, QueuedAfterCall DEF Kept
  <2> QED BY <1>0, <2>2, <2>5
<1>2. ASSUME NEW b \in Bidder, NEW c \in Call, RejectCall(b, c) PROVE \A x \in Bidder : Kept(x)'
  <2>1. /\ Receive(b, c) /\ UNCHANGED <<outcome, reply, seatFledge, pc>>
        /\ nonBids' = [nonBids EXCEPT ![b] = @ \cup {<<c, outcome[b][c]>>}]
        /\ responseChannel' = [responseChannel EXCEPT ![b] = Tail(@)]
    BY Zenon, <1>2 DEF RejectCall, rejectImps, Receive
  <2>2. KeptElsewhere(b)
    BY <1>t, <2>1 DEF KeptElsewhere, KeptState
  <2>3. nonBids'[b] = nonBids[b] \cup {<<c, outcome[b][c]>>}
    BY <1>t, <2>1
  <2>4. Kept(b)'
    BY Zenon, <2>1, <2>3, QueuedAfterReceive DEF Kept
  <2> QED BY <1>0, <2>2, <2>4
<1>3. ASSUME NEW b \in Bidder, NEW c \in Call, NoBidResponse(b, c) PROVE \A x \in Bidder : Kept(x)'
  <2>1. /\ Receive(b, c) /\ UNCHANGED <<outcome, reply, seatFledge, nonBids, pc>> /\ outcome[b][c] = "ok"
        /\ responseChannel' = [responseChannel EXCEPT ![b] = Tail(@)]
    BY Zenon, <1>3 DEF NoBidResponse, Receive, resultVars
  <2>2. KeptElsewhere(b)
    BY <1>t, <2>1 DEF KeptElsewhere, KeptState
  <2>3. outcome[b][c] \notin Reasons
    BY Zenon, <2>1 DEF Reasons
  <2>4. Kept(b)'
    BY ZenonT(40), <2>1, <2>3, QueuedAfterReceive DEF Kept
  <2> QED BY <1>0, <2>2, <2>4
<1>4. ASSUME NEW b \in Bidder, NEW c \in Call, NEW r \in Response, MakeBids(b, c, r)
      PROVE  \A x \in Bidder : Kept(x)'
  <2>1. /\ Receive(b, c) /\ UNCHANGED <<outcome, nonBids>> /\ outcome[b][c] = "ok" /\ pc[b] = "collect"
        /\ responseChannel' = [responseChannel EXCEPT ![b] = Tail(@)]
        /\ reply' = [reply EXCEPT ![b][c] = r]
        /\ seatFledge' = IF r.fledge THEN [seatFledge EXCEPT ![b] = @ \cup {c}] ELSE seatFledge
        /\ pc' = pc \/ pc' = [pc EXCEPT ![b] = "bids"]
    BY <1>4 DEF MakeBids, Receive
  <2>2. KeptElsewhere(b)
    BY <1>t, <2>1 DEF KeptElsewhere, KeptState
  <2>3. outcome[b][c] \notin Reasons /\ pc[b] \in Working
    BY <2>1 DEF Reasons, Working
  <2>4. /\ \A d \in Call : reply'[b][d] = IF d = c THEN r ELSE reply[b][d]
        /\ seatFledge[b] \subseteq seatFledge'[b] /\ (r.fledge => c \in seatFledge'[b])
    BY <1>t, <2>1
  <2>5. Kept(b)'
    BY <2>1, <2>3, <2>4, QueuedAfterReceive DEF Kept
  <2> QED BY <1>0, <2>2, <2>5
<1>5. ASSUME NEW b \in Bidder, Panic(b) PROVE \A x \in Bidder : Kept(x)'
  <2>1. /\ pc' = [pc EXCEPT ![b] = "panicked"] /\ UNCHANGED <<outcome, reply>>
        /\ nonBids' = [nonBids EXCEPT ![b] = {}] /\ seatFledge' = [seatFledge EXCEPT ![b] = {}]
        /\ responseChannel' = responseChannel \/ responseChannel' = [responseChannel EXCEPT ![b] = Tail(@)]
    BY Zenon, <1>5 DEF Panic, PanicInRequest, PanicInMakeBids, Receive, Recover, SendWrapper, handleVars
  <2>2. KeptElsewhere(b)
    BY <1>t, <2>1 DEF KeptElsewhere, KeptState
  <2>3. pc'[b] = "panicked"
    BY <1>t, <2>1
  <2>4. Kept(b)'
    BY <2>3 DEF Kept, Working
  <2> QED BY <1>0, <2>2, <2>4
<1>6. ASSUME NEW b \in Bidder,
             \/ ReturnEarly(b) \/ HandleBid(b) \/ NextResponse(b) \/ Return(b)
             \/ \E R \in SUBSET Request : MakeRequests(b, R)
             \/ \E r \in Request : MakeOneRequest(b, r)
      PROVE  \A x \in Bidder : Kept(x)'
  <2>1. UNCHANGED <<outcome, responseChannel, reply, nonBids, seatFledge>>
    BY Zenon, <1>6 DEF ReturnEarly, HandleBid, NextResponse, Return, MakeRequests, MakeOneRequest,
                callVars, handleVars, resultVars
  <2>2. pc[b] \in Working /\ (pc' = pc \/ \E p \in Working \cup Sent : pc' = [pc EXCEPT ![b] = p])
    BY Zenon, <1>6 DEF ReturnEarly, HandleBid, NextResponse, Return, MakeRequests, MakeOneRequest,
                SendWrapper, Working, Sent
  <2>3. \A x \in Bidder : UNCHANGED KeptState(x) /\ (pc'[x] = pc[x] \/ pc[x] \in Working)
    BY <1>t, <2>1, <2>2 DEF KeptState
  <2> QED BY <2>3, KeptStutter
<1>7. CASE (\E b \in Bidder : Merge(b)) \/ Expire \/ UNCHANGED vars
  <2>1. UNCHANGED <<pc, outcome, responseChannel, reply, nonBids, seatFledge>>
    BY Zenon, <1>7 DEF Merge, Expire, vars, callVars, handleVars, resultVars
  <2> QED BY <2>1, KeptStutter DEF KeptState
<1> QED
  BY Zenon, <1>1, <1>2, <1>3, <1>4, <1>5, <1>6, <1>7 DEF Next, BidderStep, CallStep, Finished

\* A merged bidder has sent its wrapper, which no later step changes.
LEMMA HandedOverNext ==
  ASSUME TypeOK, WrapperInv, [Next]_vars, \A b \in Bidder : HandedOver(b)
  PROVE  \A b \in Bidder : HandedOver(b)'
<1> SUFFICES ASSUME NEW b \in Bidder, b \in merged' PROVE HandedOver(b)'
  BY DEF HandedOver
<1>1. CASE \E x \in Bidder : Merge(x)
  <2>1. PICK x \in Bidder : Merge(x)
    BY <1>1
  <2>2. /\ merged' = merged \cup {x} /\ UNCHANGED <<nonBids, seatFledge>>
        /\ fledge' = fledge \cup {<<x, c>> : c \in seatFledge[x]}
        /\ seatNonBid' = seatNonBid \cup {<<x, n>> : n \in nonBids[x]}
    BY ZenonT(40), <2>1 DEF Merge, CollectFledge, resultVars
  <2>3. CASE b = x
    BY <2>2, <2>3 DEF HandedOver
  <2>4. CASE b \in merged
    BY <2>2, <2>4 DEF HandedOver
  <2> QED BY <2>2, <2>3, <2>4
<1>2. CASE ~ \E x \in Bidder : Merge(x)
  <2>1. UNCHANGED <<merged, fledge, seatNonBid>>
    <3>1. ASSUME NEW x \in Bidder, BidderStep(x) PROVE UNCHANGED auctionVars
      BY Zenon, <3>1 DEF BidderStep, ReturnEarly, MakeRequests, MakeOneRequest, RejectCall,
           NoBidResponse, MakeBids, HandleBid, NextResponse, Return
    <3>2. ASSUME NEW x \in Bidder, Panic(x) PROVE UNCHANGED auctionVars
      BY Zenon, <3>2 DEF Panic, PanicInRequest, PanicInMakeBids, Recover
    <3>3. ASSUME NEW x \in Bidder, NEW c \in Call, CallStep(x, c) PROVE UNCHANGED auctionVars
      BY Zenon, <3>3 DEF CallStep, DoRequest, DoRequestInline
    <3>4. ASSUME Expire \/ Finished \/ UNCHANGED vars PROVE UNCHANGED auctionVars
      BY Zenon, <3>4 DEF Expire, Finished, vars
    <3>5. UNCHANGED auctionVars
      BY Zenon, <1>2, <3>1, <3>2, <3>3, <3>4 DEF Next
    <3> QED BY <3>5 DEF auctionVars
  <2>2. pc[b] \in Sent
    BY <2>1 DEF WrapperInv
  <2>3. UNCHANGED <<nonBids[b], seatFledge[b]>>
    BY <2>2, SentStep DEF Carried
  <2> QED BY <2>1, <2>3 DEF HandedOver
<1> QED BY <1>1, <1>2

\* In every reachable state the calls' results are kept and handed over.
LEMMA AllKept == Spec => [](TypeOK /\ (\A b \in Bidder : CallInv(b)) /\ KeptInv)
<1>1. TypeOK /\ TypeOK' /\ WrapperInv /\ KeptInv /\ [Next]_vars => KeptInv'
  BY KeptNext, HandedOverNext DEF KeptInv
<1> QED BY <1>1, KeptInit, TypeCorrect, Accounted, PTL DEF Spec

\* When the auction has merged every bidder, each failed call of a bidder that
\* returned is a seat non-bid with its own reason, for every set of bidders,
\* requests and responses.
THEOREM FailuresReported == Spec => []EveryFailureReported
<1>1. TypeOK /\ (\A b \in Bidder : CallInv(b)) /\ KeptInv => EveryFailureReported
  <2> SUFFICES ASSUME \A b \in Bidder : CallInv(b), KeptInv, merged = Bidder,
                      NEW b \in Bidder, NEW c \in Call, pc[b] = "returned", outcome[b][c] \in Reasons
               PROVE  <<b, <<c, outcome[b][c]>>>> \in seatNonBid
    BY DEF EveryFailureReported
  <2>1. ~ Queued(b, c)
    <3>1. responseChannel[b] = <<>>
      BY DEF CallInv
    <3>2. 1..Len(responseChannel[b]) = {}
      BY Zenon, <3>1, NoPlaces
    <3> QED BY <3>2 DEF Queued
  <2>2. <<c, outcome[b][c]>> \in nonBids[b]
    BY <2>1 DEF KeptInv, Kept
  <2> QED BY <2>2 DEF KeptInv, HandedOver
<1> QED BY <1>1, AllKept, PTL

\* Every FLEDGE config of a bidder that returned is among those of the auction,
\* whether or not its response had a bid or a conversion.
THEOREM FledgeReachesAuction == Spec => []FledgePassedThrough
<1>1. KeptInv => FledgePassedThrough
  <2> SUFFICES ASSUME KeptInv, merged = Bidder, NEW b \in Bidder, NEW c \in Call,
                      pc[b] = "returned", reply[b][c] # NoBids, reply[b][c].fledge
               PROVE  <<b, c>> \in fledge
    BY DEF FledgePassedThrough
  <2>1. c \in seatFledge[b]
    BY Zenon DEF KeptInv, Kept
  <2> QED BY <2>1 DEF KeptInv, HandedOver
<1> QED BY <1>1, AllKept, PTL

=============================================================================
