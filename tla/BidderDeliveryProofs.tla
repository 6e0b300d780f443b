------------------------ MODULE BidderDeliveryProofs ------------------------
(***************************************************************************)
(* Every acceptable bid of BidderFanOut reaches the auction.  While a      *)
(* response is handled, `pending' is the part of it not yet handled; a bid *)
(* that the bidder owes is in that part or already in its seat, and stays  *)
(* there.                                                                  *)
(***************************************************************************)
EXTENDS BidderFanOutProofs

\* Bid i of the reply to call c is one that b has to deliver.
Owes(b, c, i) ==
  /\ reply[b][c] # NoBids /\ Matches(reply[b][c].cur) # {}
  /\ i \in 1..Len(reply[b][c].bids)
  /\ reply[b][c].bids[i].kind = "valid" /\ IsValidBidderCode(b, reply[b][c].bids[i].seat)

InSeat(b, c, i) ==
  \E bid \in seatBids[b][reply[b][c].bids[i].seat] :
    /\ bid.bidder = b /\ bid.call = c /\ bid.kind = "valid"
    /\ bid.idx = Len(reply[b][c].bids) - i + 1

Untouched(b, c, i) ==
  pc[b] = "bids" /\ current[b] = c /\ i > Len(reply[b][c].bids) - Len(pending[b])

\* pending is the rest of the reply being handled.
RestPending(b) ==
  pc[b] = "bids" =>
    LET r == reply[b][current[b]]
    IN  /\ r # NoBids
        /\ Len(pending[b]) <= Len(r.bids)
        /\ \A j \in 1..Len(pending[b]) : pending[b][j] = r.bids[Len(r.bids) - Len(pending[b]) + j]

Delivers(b) ==
  \A c \in Call, i \in Nat : Owes(b, c, i) =>
    /\ pc[b] \in Working => Untouched(b, c, i) \/ InSeat(b, c, i)
    /\ (pc[b] = "returned" /\ CurrencyAllowed(seatCur[b][reply[b][c].bids[i].seat])) => InSeat(b, c, i)

BidsMerged(b) == b \in merged => \A s \in Seat : seatBids[b][s] \subseteq adapterBids[s]

\* Initially nothing is owed.
LEMMA DeliversInit == Init => \A b \in Bidder : RestPending(b) /\ Delivers(b) /\ BidsMerged(b)
<1> SUFFICES ASSUME Init, NEW b \in Bidder PROVE RestPending(b) /\ Delivers(b) /\ BidsMerged(b)
  OBVIOUS
<1>1. pc[b] = "start" /\ merged = {} /\ \A c \in Call : reply[b][c] = NoBids BY DEF Init
<1>2. \A c \in Call, i \in Nat : ~Owes(b, c, i) BY <1>1 DEF Owes
<1> QED BY <1>1, <1>2 DEF RestPending, Delivers, BidsMerged

\* The part of the state that what b owes is about.
DeliverState(b) == <<reply[b], seatBids[b], seatCur[b], pending[b], current[b]>>

\* A step that leaves it alone keeps what is owed, when b goes on with other
\* work or will deliver nothing any more.
LEMMA DeliversStutter ==
  ASSUME NEW b \in Bidder, RestPending(b), Delivers(b), UNCHANGED DeliverState(b),
         \/ pc'[b] = pc[b]
         \/ pc[b] \in Working \ {"bids"} /\ pc'[b] \in Working \ {"bids"}
         \/ pc'[b] \in {"refused", "panicked"}
  PROVE  RestPending(b)' /\ Delivers(b)'
<1>1. /\ reply'[b] = reply[b] /\ seatBids'[b] = seatBids[b] /\ seatCur'[b] = seatCur[b]
      /\ pending'[b] = pending[b] /\ current'[b] = current[b]
  BY DEF DeliverState
<1>2. ASSUME NEW c, NEW i
      PROVE  /\ Owes(b, c, i)' <=> Owes(b, c, i)
             /\ InSeat(b, c, i)' <=> InSeat(b, c, i)
             /\ pc'[b] = pc[b] => (Untouched(b, c, i)' <=> Untouched(b, c, i))
  BY Zenon, <1>1 DEF Owes, InSeat, Untouched
<1>3. CASE pc'[b] = pc[b]
  <2>1. RestPending(b)' BY Zenon, <1>1, <1>3 DEF RestPending
  <2>2. Delivers(b)' BY <1>1, <1>2, <1>3 DEF Delivers
  <2> QED BY <2>1, <2>2
<1>4. CASE pc[b] \in Working \ {"bids"} /\ pc'[b] \in Working \ {"bids"}
  <2>1. RestPending(b)' BY <1>4 DEF RestPending
  <2>2. pc[b] # "bids" /\ pc'[b] # "returned" /\ pc[b] \in Working BY <1>4 DEF Working
  <2>3. Delivers(b)' BY Zenon, <1>2, <2>2 DEF Delivers, Untouched
  <2> QED BY <2>1, <2>3
<1>5. CASE pc'[b] \in {"refused", "panicked"}
  BY Zenon, <1>5 DEF RestPending, Delivers, Working
<1> QED BY <1>3, <1>4, <1>5

\* A reply of which no bid is handled yet is its own rest.
LEMMA WholeIsRest ==
  ASSUME NEW S, NEW q \in Seq(S)
  PROVE  Len(q) <= Len(q) /\ \A j \in 1..Len(q) : q[j] = q[Len(q) - Len(q) + j]
<1>1. Len(q) \in Nat OBVIOUS
<1>2. \A j \in 1..Len(q) : Len(q) - Len(q) + j = j BY <1>1
<1> QED BY <1>1, <1>2

\* A reply is taken: all its bids are pending, or none can be converted.
LEMMA DeliversMakeBids ==
  ASSUME TypeOK, NEW b \in Bidder, NEW c \in Call, NEW r \in Response, MakeBids(b, c, r), Delivers(b)
  PROVE  RestPending(b)' /\ Delivers(b)'
<1>t. /\ pc \in [Bidder -> Working \cup Sent]
      /\ reply \in [Bidder -> [Call -> Response \cup {NoBids}]]
      /\ pending \in [Bidder -> Seq(RawBid)]
      /\ current \in [Bidder -> Call \cup {NoCall}]
  BY DEF TypeOK, CallTypesOK, HandleTypesOK
<1>1. /\ pc[b] = "collect" /\ seatBids'[b] = seatBids[b]
      /\ \A d \in Call : reply'[b][d] = IF d = c THEN r ELSE reply[b][d]
  BY <1>t DEF MakeBids, Receive
<1>2. r.bids \in Seq(RawBid) /\ r # NoBids BY FanOutAssumption
<1>3. ASSUME NEW d \in Call, d # c, NEW i \in Nat, Owes(b, d, i)'
      PROVE  InSeat(b, d, i)'
  <2>1. Owes(b, d, i) BY <1>1, <1>3 DEF Owes
  <2>2. InSeat(b, d, i) BY <1>1, <2>1 DEF Delivers, Untouched, Working
  <2> QED BY <1>1, <1>3, <2>2 DEF InSeat
<1>4. CASE Matches(r.cur) # {}
  <2>1. pc'[b] = "bids" /\ pending'[b] = r.bids /\ current'[b] = c BY <1>t, <1>4 DEF MakeBids
  <2>2. RestPending(b)'
    <3>1. reply'[b][c] = r BY Zenon, <1>1
    <3>2. Len(r.bids) <= Len(r.bids)
          /\ \A j \in 1..Len(r.bids) : r.bids[j] = r.bids[Len(r.bids) - Len(r.bids) + j]
      BY Zenon, <1>2, WholeIsRest
    <3>3. reply'[b][current'[b]] = r BY Zenon, <2>1, <3>1
    <3> QED BY Zenon, <1>2, <2>1, <3>2, <3>3 DEF RestPending
  <2>3. ASSUME NEW i \in Nat, Owes(b, c, i)' PROVE Untouched(b, c, i)'
    <3>1. i \in 1..Len(r.bids) BY <1>1, <2>3 DEF Owes
    <3>2. reply'[b][c] = r BY <1>1
    <3> QED BY <1>2, <2>1, <3>1, <3>2 DEF Untouched
  <2>4. Delivers(b)' BY <1>3, <2>1, <2>3 DEF Delivers
  <2> QED BY <2>2, <2>4
<1>5. CASE Matches(r.cur) = {}
  <2>1. pc'[b] = "collect" BY <1>t, <1>1, <1>5 DEF MakeBids
  <2>2. RestPending(b)' BY <2>1 DEF RestPending
  <2>3. ASSUME NEW i PROVE ~Owes(b, c, i)' BY Zenon, <1>1, <1>5 DEF Owes, Matches
  <2>4. Delivers(b)' BY <1>3, <2>1, <2>3 DEF Delivers
  <2> QED BY <2>2, <2>4
<1> QED BY <1>4, <1>5

\* An owed bid is a bid of a response, with a seat.
LEMMA OwedSeat ==
  ASSUME TypeOK, NEW b \in Bidder, NEW c \in Call, NEW i, Owes(b, c, i)
  PROVE  /\ reply[b][c] \in Response /\ reply[b][c].bids \in Seq(RawBid)
         /\ reply[b][c].bids[i].seat \in Seat
<1>1. reply[b][c] \in Response BY DEF Owes, TypeOK, HandleTypesOK
<1>2. reply[b][c] \in [cur : Cur, fledge : BOOLEAN, bids : Seq(RawBid)] BY <1>1, FanOutAssumption
<1>3. reply[b][c].bids \in Seq(RawBid) BY <1>2
<1>4. i \in 1..Len(reply[b][c].bids) BY DEF Owes
<1>5. reply[b][c].bids[i] \in RawBid BY <1>3, <1>4
<1> QED BY <1>1, <1>3, <1>5 DEF RawBid

\* The next pending bid goes into its seat, or its code is not allowed.
LEMMA DeliversHandleBid ==
  ASSUME TypeOK, NEW b \in Bidder, HandleBid(b), RestPending(b), Delivers(b)
  PROVE  RestPending(b)' /\ Delivers(b)'
<1> DEFINE c == current[b]
           r == reply[b][c]
           n == Len(r.bids)
           k == Len(pending[b])
           raw == Head(pending[b])
           new == [bidder |-> b, call |-> c, idx |-> k, cur |-> PriceCurrency(b, raw), kind |-> raw.kind]
<1>t. /\ pending[b] \in Seq(RawBid) /\ pending \in [Bidder -> Seq(RawBid)]
      /\ seatBids \in [Bidder -> [Seat -> SUBSET Bid]]
      /\ reply \in [Bidder -> [Call -> Response \cup {NoBids}]]
  BY DEF TypeOK, HandleTypesOK, ResultTypesOK
<1>1. /\ pc[b] = "bids" /\ pc'[b] = "bids" /\ pending[b] # <<>> /\ c \in Call
      /\ reply' = reply /\ current' = current /\ pending'[b] = Tail(pending[b])
  BY <1>t DEF HandleBid, TypeOK, HandleTypesOK
<1>2. r \in Response /\ r.bids \in Seq(RawBid) BY <1>t, <1>1, FanOutAssumption DEF RestPending
<1>3. k \in Nat /\ n \in Nat /\ 1 <= k /\ k <= n /\ Len(pending'[b]) = k - 1
  BY <1>t, <1>1, <1>2 DEF RestPending
<1>4. raw = r.bids[n - k + 1] /\ raw \in RawBid
  <2>1. raw = pending[b][1] /\ 1 \in 1..k BY <1>t, <1>1, <1>3
  <2> QED BY <1>1, <1>t, <2>1 DEF RestPending
<1>5. RestPending(b)'
  <2>1. ASSUME NEW j \in 1..(k - 1) PROVE pending'[b][j] = r.bids[n - (k - 1) + j]
    <3>1. pending'[b][j] = pending[b][j + 1] /\ j + 1 \in 1..k BY <1>t, <1>1, <1>3
    <3>2. pending[b][j + 1] = r.bids[n - k + (j + 1)] BY <1>1, <3>1 DEF RestPending
    <3>3. n - k + (j + 1) = n - (k - 1) + j
      <4> HIDE DEF n, k
      <4> QED BY <1>3
    <3> QED BY Zenon, <3>1, <3>2, <3>3
  <2>2. r # NoBids BY <1>1 DEF RestPending
  <2> HIDE DEF r, n, k, c
  <2>3. reply'[b][current'[b]] = r BY <1>1 DEF r, c
  <2>4. Len(r.bids) = n BY DEF n
  <2>5. k - 1 <= n /\ Len(pending'[b]) = k - 1 BY <1>3
  <2> QED BY <2>1, <2>2, <2>3, <2>4, <2>5 DEF RestPending
<1>6. \A s \in Seat : seatBids[b][s] \subseteq seatBids'[b][s]
  <2>1. seatBids' = seatBids \/ seatBids' = [seatBids EXCEPT ![b][raw.seat] = @ \cup {new}]
    BY DEF HandleBid
  <2>2. seatBids[b] \in [Seat -> SUBSET Bid] BY <1>t
  <2> HIDE DEF new, raw
  <2>3. seatBids'[b] = seatBids[b] \/ seatBids'[b] = [seatBids[b] EXCEPT ![raw.seat] = @ \cup {new}]
    BY Zenon, <1>t, <2>1
  <2> QED BY <2>2, <2>3
<1>7. IsValidBidderCode(b, raw.seat) => new \in seatBids'[b][raw.seat]
  <2>1. IsValidBidderCode(b, raw.seat) => seatBids' = [seatBids EXCEPT ![b][raw.seat] = @ \cup {new}]
    BY DEF HandleBid
  <2>2. raw.seat \in Seat BY <1>4 DEF RawBid
  <2> HIDE DEF new, raw
  <2> QED BY <1>t, <2>1, <2>2
<1>8. ASSUME NEW d \in Call, NEW i \in Nat, Owes(b, d, i)'
      PROVE  Untouched(b, d, i)' \/ InSeat(b, d, i)'
  <2>1. Owes(b, d, i) BY <1>1, <1>8 DEF Owes
  <2>2. reply[b][d].bids[i].seat \in Seat BY <2>1, OwedSeat
  <2>3. CASE InSeat(b, d, i)
    BY <1>1, <1>6, <2>2, <2>3 DEF InSeat
  <2>4. CASE Untouched(b, d, i)
    <3>1. d = c /\ i > n - k BY Zenon, <2>4 DEF Untouched
    <3>2. i \in 1..n BY <2>1, <3>1 DEF Owes
    <3>3. CASE i = n - k + 1
      <4>1. raw = reply[b][d].bids[i] /\ IsValidBidderCode(b, raw.seat) /\ raw.kind = "valid"
        BY Zenon, <1>4, <2>1, <3>1, <3>3 DEF Owes
      <4>2. new \in seatBids'[b][raw.seat] BY <1>7, <4>1
      <4>3. new.bidder = b /\ new.call = d /\ new.kind = "valid" /\ new.idx = n - i + 1
        BY <1>3, <3>1, <3>3, <4>1
      <4>4. reply'[b][d] = reply[b][d] /\ Len(reply'[b][d].bids) = n BY <1>1, <3>1
      <4> HIDE DEF new, raw, n
      <4> QED BY <4>1, <4>2, <4>3, <4>4 DEF InSeat
    <3>4. CASE i # n - k + 1
      <4>1. i > n - (k - 1)
        <5> HIDE DEF n, k
        <5> QED BY <1>3, <3>1, <3>2, <3>4
      <4> QED BY ZenonT(40), <1>1, <1>3, <3>1, <4>1 DEF Untouched
    <3> QED BY <3>3, <3>4
  <2> QED BY <1>1, <2>1, <2>3, <2>4 DEF Delivers, Working
<1>9. Delivers(b)' BY <1>1, <1>8 DEF Delivers
<1> QED BY <1>5, <1>9

\* The loop ends with no bid pending.
LEMMA DeliversNextResponse ==
  ASSUME TypeOK, NEW b \in Bidder, NextResponse(b), RestPending(b), Delivers(b)
  PROVE  RestPending(b)' /\ Delivers(b)'
<1>1. /\ pc[b] = "bids" /\ pending[b] = <<>> /\ pc'[b] = "collect"
      /\ reply' = reply /\ seatBids' = seatBids
  BY DEF NextResponse, resultVars, TypeOK, CallTypesOK
<1>2. RestPending(b)' BY <1>1 DEF RestPending
<1>3. ASSUME NEW d \in Call, NEW i \in Nat, Owes(b, d, i)' PROVE InSeat(b, d, i)'
  <2>1. Owes(b, d, i) BY <1>1, <1>3 DEF Owes
  <2>3. Len(reply[b][d].bids) \in Nat BY <2>1, OwedSeat
  <2>4. Len(pending[b]) = 0 BY <1>1
  <2>5. ~Untouched(b, d, i) BY <2>1, <2>3, <2>4 DEF Untouched, Owes
  <2>6. InSeat(b, d, i) BY <1>1, <2>1, <2>5 DEF Delivers, Working
  <2> QED BY <1>1, <2>6 DEF InSeat
<1>4. Delivers(b)' BY <1>1, <1>3 DEF Delivers
<1> QED BY <1>2, <1>4

\* removeInvalidBids keeps the valid bids of a seat with an allowed currency.
LEMMA DeliversReturn ==
  ASSUME TypeOK, NEW b \in Bidder, Return(b), RestPending(b), Delivers(b)
  PROVE  RestPending(b)' /\ Delivers(b)'
<1>1. /\ pc[b] = "collect" /\ pc'[b] = "returned"
      /\ reply' = reply /\ seatCur' = seatCur /\ seatBids'[b] = ValidBids(b)
  BY DEF Return, SendWrapper, handleVars, TypeOK, CallTypesOK, ResultTypesOK
<1>2. RestPending(b)' BY <1>1 DEF RestPending
<1>3. ASSUME NEW d \in Call, NEW i \in Nat, Owes(b, d, i)',
             CurrencyAllowed(seatCur[b][reply[b][d].bids[i].seat])
      PROVE  InSeat(b, d, i)'
  <2>1. Owes(b, d, i) BY Zenon, <1>1, <1>3 DEF Owes
  <2>3. reply[b][d].bids[i].seat \in Seat BY <2>1, OwedSeat
  <2>4. InSeat(b, d, i) BY <1>1, <2>1 DEF Delivers, Untouched, Working
  <2>5. ValidBids(b)[reply[b][d].bids[i].seat] = {bid \in seatBids[b][reply[b][d].bids[i].seat] : bid.kind = "valid"}
    BY Zenon, <1>3, <2>3 DEF ValidBids
  <2> QED BY <1>1, <2>4, <2>5 DEF InSeat
<1>4. Delivers(b)'
  <2>1. pc'[b] \notin Working BY <1>1 DEF Working
  <2> QED BY ZenonT(40), <1>1, <1>3, <2>1 DEF Delivers, CurrencyAllowed
<1> QED BY <1>2, <1>4

\* Every step keeps what is owed, or delivers it.
LEMMA DeliversNext ==
  ASSUME TypeOK, [Next]_vars, NEW x \in Bidder, RestPending(x), Delivers(x)
  PROVE  RestPending(x)' /\ Delivers(x)'
<1>t. /\ pc \in [Bidder -> Working \cup Sent]
      /\ reply \in [Bidder -> [Call -> Response \cup {NoBids}]]
      /\ pending \in [Bidder -> Seq(RawBid)]
      /\ current \in [Bidder -> Call \cup {NoCall}]
      /\ seatBids \in [Bidder -> [Seat -> SUBSET Bid]]
      /\ seatCur \in [Bidder -> [Seat -> Cur \cup {NoCur}]]
  BY DEF TypeOK, CallTypesOK, HandleTypesOK, ResultTypesOK
<1>1. ASSUME NEW b \in Bidder,
             \/ ReturnEarly(b)
             \/ \E R \in SUBSET Request : MakeRequests(b, R)
             \/ \E r \in Request : MakeOneRequest(b, r)
             \/ \E c \in Call : RejectCall(b, c) \/ NoBidResponse(b, c)
             \/ \E c \in Call : CallStep(b, c)
      PROVE  RestPending(x)' /\ Delivers(x)'
  <2>1. UNCHANGED <<reply, seatBids, seatCur, pending, current>>
    BY Zenon, <1>1 DEF ReturnEarly, MakeRequests, MakeOneRequest, RejectCall, NoBidResponse,
                CallStep, DoRequest, DoRequestInline, handleVars, resultVars
  <2>2. \/ pc' = pc
        \/ pc[b] \in {"start", "inline"} /\ \E p \in {"inline", "collect", "refused"} : pc' = [pc EXCEPT ![b] = p]
    BY Zenon, <1>1 DEF ReturnEarly, MakeRequests, MakeOneRequest, RejectCall, NoBidResponse,
                CallStep, DoRequest, DoRequestInline, SendWrapper
  <2>3. \/ pc'[x] = pc[x]
        \/ pc[x] \in Working \ {"bids"} /\ pc'[x] \in Working \ {"bids"}
        \/ pc'[x] \in {"refused", "panicked"}
    BY <1>t, <2>2 DEF Working
  <2>4. UNCHANGED DeliverState(x) BY <2>1 DEF DeliverState
  <2> QED BY <2>3, <2>4, DeliversStutter
<1>2. ASSUME NEW b \in Bidder, b # x,
             \/ \E c \in Call, r \in Response : MakeBids(b, c, r)
             \/ HandleBid(b) \/ NextResponse(b) \/ Return(b) \/ Panic(b)
      PROVE  RestPending(x)' /\ Delivers(x)'
  <2>1. CASE \E c \in Call, r \in Response : MakeBids(b, c, r)
    <3>1. UNCHANGED <<pc[x], DeliverState(x)>> BY ZenonT(40), <1>t, <1>2, <2>1 DEF MakeBids, DeliverState
    <3> QED BY <3>1, DeliversStutter
  <2>2. CASE HandleBid(b)
    <3>1. UNCHANGED <<pc[x], DeliverState(x)>> BY Zenon, <1>t, <1>2, <2>2 DEF HandleBid, DeliverState
    <3> QED BY <3>1, DeliversStutter
  <2>3. CASE NextResponse(b)
    <3>1. UNCHANGED <<pc[x], DeliverState(x)>>
      BY Zenon, <1>t, <1>2, <2>3 DEF NextResponse, resultVars, DeliverState
    <3> QED BY <3>1, DeliversStutter
  <2>4. CASE Return(b)
    <3>1. UNCHANGED <<pc[x], DeliverState(x)>>
      BY Zenon, <1>t, <1>2, <2>4 DEF Return, SendWrapper, handleVars, DeliverState
    <3> QED BY <3>1, DeliversStutter
  <2>5. CASE Panic(b)
    <3>1. UNCHANGED <<pc[x], DeliverState(x)>>
      BY Zenon, <1>t, <1>2, <2>5
         DEF Panic, PanicInRequest, PanicInMakeBids, Recover, SendWrapper, handleVars, DeliverState
    <3> QED BY <3>1, DeliversStutter
  <2> QED BY <1>2, <2>1, <2>2, <2>3, <2>4, <2>5
<1>3. ASSUME \/ \E c \in Call, r \in Response : MakeBids(x, c, r)
             \/ HandleBid(x) \/ NextResponse(x) \/ Return(x)
      PROVE  RestPending(x)' /\ Delivers(x)'
  BY <1>3, DeliversMakeBids, DeliversHandleBid, DeliversNextResponse, DeliversReturn
<1>4. ASSUME Panic(x) PROVE RestPending(x)' /\ Delivers(x)'
  <2>1. pc' = [pc EXCEPT ![x] = "panicked"]
    BY Zenon, <1>4 DEF Panic, PanicInRequest, PanicInMakeBids, Recover, SendWrapper
  <2>2. pc'[x] = "panicked" BY <1>t, <2>1
  <2> QED BY <2>2 DEF RestPending, Delivers, Working
<1>5. CASE (\E b \in Bidder : Merge(b)) \/ Expire \/ UNCHANGED vars
  <2>1. UNCHANGED <<pc, reply, seatBids, seatCur, pending, current>>
    BY Zenon, <1>5 DEF Merge, Expire, vars, handleVars, resultVars
  <2>2. UNCHANGED <<pc[x], DeliverState(x)>> BY <2>1 DEF DeliverState
  <2> QED BY <2>2, DeliversStutter
<1> QED
  BY Zenon, <1>1, <1>2, <1>3, <1>4, <1>5 DEF Next, BidderStep, Finished

\* What a merged wrapper carried stays among the auction's bids.
LEMMA BidsMergedNext ==
  ASSUME TypeOK, WrapperInv, [Next]_vars, NEW b \in Bidder, BidsMerged(b)
  PROVE  BidsMerged(b)'
<1> SUFFICES ASSUME b \in merged' PROVE BidsMerged(b)'
  BY DEF BidsMerged
<1>1. CASE \E x \in Bidder : Merge(x)
  <2>1. PICK x \in Bidder : Merge(x)
    BY <1>1
  <2>2. /\ merged' = merged \cup {x} /\ seatBids' = seatBids
        /\ adapterBids' = [s \in Seat |-> adapterBids[s] \cup seatBids[x][s]]
    BY Zenon, <2>1 DEF Merge, MergedBids, resultVars
  <2>3. CASE b = x
    BY <2>2, <2>3 DEF BidsMerged
  <2>4. CASE b \in merged
    BY <2>2, <2>4 DEF BidsMerged
  <2> QED BY <2>2, <2>3, <2>4
<1>2. CASE ~ \E x \in Bidder : Merge(x)
  <2>1. UNCHANGED <<merged, adapterBids>>
    <3>1. ASSUME NEW x \in Bidder, BidderStep(x) PROVE UNCHANGED auctionVars
      BY Zenon, <3>1 DEF BidderStep, ReturnEarly, MakeRequests, MakeOneRequest, RejectCall,
           NoBidResponse, MakeBids, HandleBid, NextResponse, Return
    <3>2. ASSUME NEW x \in Bidder, Panic(x) PROVE UNCHANGED auctionVars
      BY Zenon, <3>2 DEF Panic, PanicInRequest, PanicInMakeBids, Recover
    <3>3. ASSUME NEW x \in Bidder, NEW c \in Call, CallStep(x, c) PROVE UNCHANGED auctionVars
      BY Zenon, <3>3 DEF CallStep, DoRequest, DoRequestInline
    <3>4. ASSUME Expire \/ Finished \/ UNCHANGED vars PROVE UNCHANGED auctionVars
      BY Zenon, <3>4 DEF Expire, Finished, vars
    <3>5. UNCHANGED auctionVars
      BY Zenon, <1>2, <3>1, <3>2, <3>3, <3>4 DEF Next
    <3> QED BY <3>5 DEF auctionVars
  <2>2. pc[b] \in Sent
    BY <2>1 DEF WrapperInv
  <2>3. UNCHANGED seatBids[b]
    BY <2>2, SentStep DEF Carried
  <2> QED BY <2>1, <2>3 DEF BidsMerged
<1> QED BY <1>1, <1>2

LEMMA PlacesAreNumbers == ASSUME NEW n, NEW i \in 1..n PROVE i \in Nat
  OBVIOUS

\* When every wrapper is merged, each valid bid of a converted response, under
\* a code its bidder may use and in a seat whose currency is allowed, is in its
\* seat, for every set of bidders, calls, codes, currencies and responses.
THEOREM AcceptableBidsArrive == Spec => []NoBidLost
<1> DEFINE Inv == \A b \in Bidder : RestPending(b) /\ Delivers(b) /\ BidsMerged(b)
<1>1. Init => Inv BY DeliversInit
<1>2. TypeOK /\ WrapperInv /\ Inv /\ [Next]_vars => Inv' BY DeliversNext, BidsMergedNext
<1>3. TypeOK /\ Inv => NoBidLost
  <2> SUFFICES ASSUME TypeOK, Inv, merged = Bidder, NEW b \in Bidder, NEW c \in Call,
                      pc[b] = "returned" /\ reply[b][c] # NoBids /\ Matches(reply[b][c].cur) # {},
                      NEW i \in 1..Len(reply[b][c].bids),
                      reply[b][c].bids[i].kind = "valid" /\ IsValidBidderCode(b, reply[b][c].bids[i].seat)
                        /\ CurrencyAllowed(seatCur[b][reply[b][c].bids[i].seat])
               PROVE  \E bid \in adapterBids[reply[b][c].bids[i].seat] :
                        bid.bidder = b /\ bid.call = c /\ bid.idx = Len(reply[b][c].bids) - i + 1
    BY Zenon DEF NoBidLost
  <2>1. Delivers(b) /\ BidsMerged(b) /\ b \in merged BY ZenonT(40)
  <2> HIDE DEF Inv
  <2>2. i \in Nat BY Zenon, PlacesAreNumbers
  <2>3. Owes(b, c, i) BY DEF Owes
  <2>4. InSeat(b, c, i) BY Zenon, <2>1, <2>2, <2>3 DEF Delivers
  <2>5. reply[b][c].bids[i].seat \in Seat BY Zenon, <2>3, OwedSeat
  <2>6. seatBids[b][reply[b][c].bids[i].seat] \subseteq adapterBids[reply[b][c].bids[i].seat]
    BY Zenon, <2>1, <2>5 DEF BidsMerged
  <2> QED BY Zenon, <2>4, <2>6 DEF InSeat
<1> QED BY <1>1, <1>2, <1>3, TypeCorrect, Accounted, PTL DEF Spec

=============================================================================
