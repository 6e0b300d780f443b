--------------------------- MODULE AdapterReplies ----------------------------
(***************************************************************************)
(* How the bidder adapters of src/rust/crates/adapters read an answer: the *)
(* second half of an adapter's policy, and make_bids as an operator on it. *)
(*                                                                         *)
(* A reply has an HTTP status, a body that is unreadable, empty or a       *)
(* sequence of seats, a currency ("none" when the field is missing, "" when*)
(* it is there and blank) and a format named by a header.  A bid has the   *)
(* imp it is for (a stray one when the call carried no such imp), the type *)
(* signals the adapters look at, and whether it has a price and everything *)
(* else its adapter insists on.                                            *)
(***************************************************************************)
EXTENDS AdapterRequests

Statuses == {200, 201, 204, 302, 400, 404, 500, 503}

Stray == [id |-> "stray", offers |-> {}, defect |-> "none", key |-> "none", full |-> FALSE]

Empty == "empty"        \* a new BidderResponse: Ok, without bids, in USD
Read == "read"          \* the adapter goes on

(* check_response_status, and the matches adapters have in its place. *)
Strict == [s \in Statuses |-> CASE s = 200 -> Read [] s = 204 -> Empty
                                [] s = 400 -> BadInput [] OTHER -> BadServerResponse]
Server == [Strict EXCEPT ![400] = BadServerResponse]
Input == [s \in Statuses |-> CASE s = 200 -> Read [] s = 204 -> Empty [] OTHER -> BadInput]
OnlyOk == [Server EXCEPT ![204] = BadServerResponse]
ByClass == [Strict EXCEPT ![404] = BadInput]
OnlyCreated == [Server EXCEPT ![200] = BadServerResponse, ![201] = Read]
AnyStatus == [s \in Statuses |-> IF s = 204 THEN Empty ELSE Read]

(* How the type of a bid is found.  Each rule looks at one signal; when the *)
(* signal names a format of rule.of that is the type, otherwise the rule's  *)
(* odd or missing outcome decides: a format, the next rule, or no type.     *)
TryNext == "next"
NoType == "no type"
Rule(by, of, odd, missing) == [by |-> by, of |-> of, odd |-> odd, missing |-> missing]

ByMType(of) == Rule("mtype", of, NoType, NoType)
ByExt(of) == Rule("ext", of, NoType, NoType)
ByImp(of) == Rule("imp", of, NoType, NoType)
Always(f) == Rule("none", <<>>, f, f)

(* get_bid_type_from_mtype and get_bid_type_from_imp of the crate. *)
MTypeOrBanner == Rule("mtype", <<"video", "audio", "native">>, "banner", NoType)
ImpOrBanner == Rule("imp", <<"video", "native", "audio">>, "banner", "banner")

ReadPolicies ==
    [status : [Statuses -> {Read, Empty, BadInput, BadServerResponse}],
     blankBody : {"bad", "empty", "always empty"},
     noSeats : {Read, Empty, BadInput, BadServerResponse, "bare bid"},
     leadEmpty : {Read, Empty, BadInput, BadServerResponse},
     seats : {"all", "first", "only", "first bid"},
     cur : {"USD", "EUR", "copy", "filled", "copy or blank", "copy or EUR", "copy or PLN",
            "copy or asked", "asked"},
     types : Seq([by : {"none", "mtype", "ext", "header", "markup", "asked", "imp", "sole",
                        "lead imp", "lead sole", "any imp"},
                  of : Seq(Formats), odd : Formats \cup {TryNext, NoType},
                  missing : Formats \cup {TryNext, NoType}]),
     lost : [how : {"skip", "fail", "fail if none"}, err : Errors],
     noBids : {Read, Empty, BadServerResponse},
     keeps : SUBSET Formats, dropsUnpriced : BOOLEAN, knownOnly : BOOLEAN,
     partial : {"use", "skip", "report", BadInput, BadServerResponse}, partialOf : SUBSET Formats,
     headerFirst : BOOLEAN, rereads : BOOLEAN, credits : {"its imp", "by position", "first imp", "own id"}]

Skip == [how |-> "skip", err |-> BadServerResponse]
Fail(e) == [how |-> "fail", err |-> e]
FailIfNone(e) == [how |-> "fail if none", err |-> e]

(* The adapter with nothing unusual: it reads all seats. *)
Reads(status, cur, types, lost) ==
    [status |-> status, blankBody |-> "bad", noSeats |-> Read, leadEmpty |-> Read, seats |-> "all",
     cur |-> cur, types |-> types, lost |-> lost, noBids |-> Read,
     keeps |-> Formats, dropsUnpriced |-> FALSE, knownOnly |-> FALSE,
     partial |-> "use", partialOf |-> Formats, headerFirst |-> FALSE, rereads |-> FALSE, credits |-> "its imp"]

Adapter(asks, reads) == [asks |-> asks, reads |-> reads]

-----------------------------------------------------------------------------
(* make_bids *)

MTypes == <<"banner", "video", "audio", "native">>

FirstOffered(imp, order) ==
    LET offered == SelectSeq(order, LAMBDA f : f \in imp.offers)
    IN  IF offered = <<>> THEN "odd" ELSE offered[1]

SoleOffered(imp, fs) ==
    IF Cardinality(imp.offers \cap Range(fs)) = 1 THEN CHOOSE f \in imp.offers : f \in Range(fs) ELSE "odd"

FirstImp(call) == IF call.imps = <<>> THEN Stray ELSE call.imps[1]

(* What the signal of a rule says of a bid: a format, "odd" or "missing". *)
Signal(rule, call, reply, bid) ==
    CASE rule.by = "none" -> "missing"
      [] rule.by = "mtype" -> IF bid.mtype = 0 THEN "missing"
                              ELSE IF bid.mtype \in DOMAIN MTypes THEN MTypes[bid.mtype] ELSE "odd"
      [] rule.by = "ext" -> bid.ext
      [] rule.by = "header" -> reply.header
      [] rule.by = "markup" -> bid.markup
      [] rule.by = "asked" -> IF call.format # "any" THEN call.format ELSE FirstOffered(FirstImp(call), rule.of)
      [] rule.by = "imp" -> IF bid.imp = Stray THEN "missing" ELSE FirstOffered(bid.imp, rule.of)
      [] rule.by = "sole" -> IF bid.imp = Stray THEN "missing" ELSE SoleOffered(bid.imp, rule.of)
      [] rule.by = "lead imp" -> FirstOffered(FirstImp(call), rule.of)
      [] rule.by = "lead sole" -> SoleOffered(FirstImp(call), rule.of)
      [] rule.by = "any imp" -> IF Offering(call.imps, Range(rule.of)) = <<>> THEN "odd" ELSE rule.of[1]

Outcome(rule, call, reply, bid) ==
    LET s == Signal(rule, call, reply, bid)
    IN  IF s \in Range(rule.of) THEN s ELSE IF s = "missing" THEN rule.missing ELSE rule.odd

(* The first rule that decides, decides. *)
TypeOf(p, call, reply, bid) ==
    LET decides(i) == Outcome(p.types[i], call, reply, bid) # TryNext
        deciding == {i \in DOMAIN p.types : decides(i)}
    IN  IF deciding = {} THEN NoType
        ELSE Outcome(p.types[CHOOSE i \in deciding : \A j \in deciding : i <= j], call, reply, bid)

(* missena's answer is one flat object: a bid without a price when it is empty. *)
BareBid == [imp |-> Stray, mtype |-> 0, ext |-> "missing", markup |-> "missing",
            priced |-> FALSE, complete |-> TRUE]

(* The bids of the seats the adapter looks at. *)
BidsRead(p, reply) ==
    LET every == p.seats \in {"all", "only"} \/ reply.seats = <<>>
        bids == IF every THEN FlattenSeq(reply.seats) ELSE reply.seats[1]
    IN  IF p.seats = "first bid" /\ bids # <<>> THEN <<Head(bids)>> ELSE bids

(* The bids it goes on to type. *)
Considered(p, reply) ==
    SelectSeq(BidsRead(p, reply), LAMBDA bid : /\ p.knownOnly => bid.imp # Stray
                                               /\ p.dropsUnpriced => bid.priced)

ReplyCurrency(p, req, cur) ==
    CASE p.cur \in {"USD", "EUR"} -> p.cur
      [] p.cur = "copy" -> IF cur = "none" THEN "USD" ELSE cur
      [] p.cur = "filled" -> IF cur \in {"none", ""} THEN "USD" ELSE cur
      [] p.cur = "copy or blank" -> IF cur = "none" THEN "" ELSE cur
      [] p.cur = "copy or EUR" -> IF cur = "none" THEN "EUR" ELSE cur
      [] p.cur = "copy or PLN" -> IF cur = "none" THEN "PLN" ELSE cur
      [] p.cur = "copy or asked" -> IF cur \in {"none", ""} THEN req.cur ELSE cur
      [] p.cur = "asked" -> req.cur

(* The imp a bid is credited to. *)
Credited(p, call, bids, i) ==
    CASE p.credits = "its imp" -> bids[i].imp.id
      [] p.credits = "first imp" -> FirstImp(call).id
      [] p.credits = "by position" -> IF i \in DOMAIN call.imps THEN call.imps[i].id ELSE "none"
      [] p.credits = "own id" -> "the bid's id"

FailedBy(es) == [bids |-> <<>>, errs |-> es, cur |-> "USD"]
Failed(e) == FailedBy({e})
NoBids == [bids |-> <<>>, errs |-> {}, cur |-> "USD"]

Decline(how) == IF how = Empty THEN NoBids ELSE Failed(how)

(* The typed bids, or the errors that take their place. *)
TypeBids(p, req, call, reply) ==
    LET bids == Considered(p, reply)
        type(i) == TypeOf(p, call, reply, bids[i])
        lost == {i \in DOMAIN bids : type(i) = NoType}
        partial == {i \in DOMAIN bids \ lost : ~bids[i].complete /\ type(i) \in p.partialOf}
        out == {i \in DOMAIN bids \ lost : type(i) \notin p.keeps}
                 \cup (IF p.partial \in {"skip", "report"} THEN partial ELSE {})
                 \cup (IF p.credits = "by position" THEN DOMAIN bids \ DOMAIN call.imps ELSE {})
        typed == [i \in DOMAIN bids |-> [imp |-> Credited(p, call, bids, i), type |-> type(i), at |-> i]]
        delivered == SelectSeq(typed, LAMBDA b : b.at \notin lost \cup out)
        noted == (IF lost # {} /\ p.lost.how = "fail if none" THEN {p.lost.err} ELSE {})
                   \cup (IF partial # {} /\ p.partial = "report" THEN {BadServerResponse} ELSE {})
    IN  IF lost # {} /\ p.lost.how = "fail" THEN Failed(p.lost.err)
        ELSE IF partial # {} /\ p.partial \in Errors THEN Failed(p.partial)
        ELSE IF delivered = <<>> /\ noted # {} THEN FailedBy(noted)
        ELSE IF delivered = <<>> /\ p.noBids # Read THEN Decline(p.noBids)
        ELSE [bids |-> [i \in DOMAIN delivered |-> [imp |-> delivered[i].imp, type |-> delivered[i].type]],
              errs |-> {}, cur |-> ReplyCurrency(p, req, reply.cur)]

MakeBids(p, req, call, reply) ==
    LET verdict == p.status[reply.status]
        blank == reply.body = "blank"
    IN  IF blank /\ p.blankBody = "always empty" THEN NoBids
        ELSE IF verdict # Read THEN Decline(verdict)
        ELSE IF p.headerFirst /\ reply.header \notin Range(p.types[1].of) THEN Failed(BadServerResponse)
        ELSE IF blank /\ p.blankBody = "empty" THEN NoBids
        ELSE IF reply.body # "seats" THEN Failed(BadServerResponse)
        ELSE IF p.noSeats = "bare bid" /\ FlattenSeq(reply.seats) = <<>>
             THEN TypeBids(p, req, call, [reply EXCEPT !.seats = << <<BareBid>> >>])
        ELSE IF reply.seats = <<>> /\ p.noSeats # Read THEN Decline(p.noSeats)
        ELSE IF p.seats = "only" /\ Len(reply.seats) > 1 THEN Failed(BadServerResponse)
        ELSE IF reply.seats # <<>> /\ reply.seats[1] = <<>> /\ p.leadEmpty # Read THEN Decline(p.leadEmpty)
        ELSE IF p.rereads /\ \E i \in DOMAIN req.imps : req.imps[i].defect = "blank" THEN Failed(BadInput)
        ELSE TypeBids(p, req, call, reply)

=============================================================================
