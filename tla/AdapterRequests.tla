--------------------------- MODULE AdapterRequests ---------------------------
(***************************************************************************)
(* How the bidder adapters of src/rust/crates/adapters ask for bids.  An    *)
(* adapter implements the trait Bidder: make_requests turns                *)
(* the bidder's share of the auction request into HTTP calls, make_bids    *)
(* turns one HTTP answer into typed bids.  The adapters differ in a small  *)
(* number of decisions: how they group the imps into calls, what they do   *)
(* with an imp they cannot use, which HTTP statuses and reply shapes they  *)
(* accept, where they take the currency and the type of a bid from, and    *)
(* what becomes of a bid they cannot type.  A policy is a record of these  *)
(* decisions; the modules Adapters* hold one policy for each adapter.      *)
(*                                                                         *)
(* URLs, headers and the rewriting of request fields are left out: no      *)
(* decision of make_bids and nothing in the exchange reads them.           *)
(***************************************************************************)
EXTENDS Naturals, Sequences, FiniteSets, SequencesExt

CONSTANT MaxImpsPerCall     \* the 10 of the adapters that send in chunks

ASSUME ChunkAssumption == MaxImpsPerCall \in Nat \ {0}

Formats == {"banner", "video", "native", "audio"}

(* BidderError, without its message.  Only BadInput is fatal. *)
BadInput == "BadInput"
BadServerResponse == "BadServerResponse"
FailedToRequestBids == "FailedToRequestBids"
Timeout == "Timeout"
Errors == {BadInput, BadServerResponse, FailedToRequestBids, Timeout}
IsFatal(e) == e = BadInput

(* What can be wrong with an imp: its parameters are not an object, they   *)
(* lack a required field, its banner has no size, its native request is    *)
(* not JSON, its video object is incomplete, its floor is in a foreign     *)
(* currency; "unfit" is an imp with none of the formats the adapter takes. *)
Defects == {"none", "null", "blank", "unsized", "native", "video", "floor"}
Troubles == Defects \cup {"unfit"}

(* What an adapter may do with such an imp. *)
Reactions == {"use",      \* send it all the same
              "skip",     \* leave it out, BadInput
              "fault",    \* leave it out, BadServerResponse
              "drop",     \* leave it out and say nothing
              "note",     \* send it, BadInput
              "excuse",   \* send it, abort if no imp is sound
              "warn",     \* send it, BadInput; nothing is sent if no imp is sound
              "abort",    \* no calls at all, BadInput
              "giveUp",   \* no calls at all, FailedToRequestBids
              "stop",     \* BadInput; this and the later imps are left out
              "hush",     \* leave it out; BadInput if its call is left empty
              "shift"}    \* BadInput; as many imps are sent as are sound, from the first

Needs == {"usd", "os", "app", "nosite", "uid", "ip", "page", "site", "device",
          "noregs", "userext", "hops", "publisher", "domain", "place"}

AskPolicies ==
    [split : {"together", "alone", "echo", "first", "byKey", "perFormat", "videosLast",
              "nativesFirst", "slotsAndVideos", "videosApart", "chunks"},
     formats : Seq(Formats),         \* the order of the calls of "perFormat"
     params : {"each", "first"},     \* whose parameters are read
     on : [Troubles -> Reactions],
     takes : SUBSET Formats, fullscreen : SUBSET Formats, bans : SUBSET Formats,
     oneImp : BOOLEAN, oneKey : BOOLEAN, lastOfKey : BOOLEAN, videoRules : BOOLEAN,
     needs : SUBSET Needs, nothing : {"quiet", "send", "report", "all"}]

(* The plain adapter: the request is passed on as it is, in one call. *)
Whole ==
    [split |-> "together", formats |-> <<"banner", "video", "native", "audio">>,
     params |-> "each", on |-> [t \in Troubles |-> "use"],
     takes |-> Formats, fullscreen |-> {}, bans |-> {},
     oneImp |-> FALSE, oneKey |-> FALSE, lastOfKey |-> FALSE, videoRules |-> FALSE,
     needs |-> {}, nothing |-> "quiet"]

Each == [Whole EXCEPT !.split = "alone"]
Keyed == [Whole EXCEPT !.split = "byKey"]

(* The plain adapter that reads the parameters of the first imp only. *)
Lead == [Whole EXCEPT !.params = "first"]

-----------------------------------------------------------------------------
(* make_requests *)

Fits(p, imp) ==
    /\ imp.offers \cap (p.takes \cup (IF imp.full THEN p.fullscreen ELSE {})) # {}

Vetoed(p, req, imp) ==
    p.videoRules /\ "video" \notin imp.offers /\ \E i \in DOMAIN req.imps : "video" \in req.imps[i].offers

Trouble(p, req, imp) == IF Fits(p, imp) /\ ~Vetoed(p, req, imp) THEN imp.defect ELSE "unfit"

(* The imp whose parameters stand for all: the first one the adapter takes. *)
ReadFirst(p, req, i) ==
    \A j \in 1..(i - 1) : Trouble(p, req, req.imps[j]) = "unfit" /\ p.on["unfit"] \in {"skip", "drop"}

Reaction(p, req, i) ==
    LET t == Trouble(p, req, req.imps[i])
    IN  IF t \in {"null", "blank"} /\ p.params = "first" /\ ~ReadFirst(p, req, i) THEN "use" ELSE p.on[t]

Stopped(p, req, i) == \E j \in 1..(i - 1) : Reaction(p, req, j) = "stop"

Shifted(p, req) == \E i \in DOMAIN req.imps : Reaction(p, req, i) = "shift"

Sound(p, req) == {i \in DOMAIN req.imps : Reaction(p, req, i) = "use"}

NoneSound(p, req) ==
    /\ Sound(p, req) = {}
    /\ \E i \in DOMAIN req.imps : Reaction(p, req, i) \in {"excuse", "warn", "shift"}

Superseded(p, req, i) ==
    p.lastOfKey /\ \E j \in (i + 1)..Len(req.imps) : req.imps[j].key = req.imps[i].key

(* The imps that are left to be sent. *)
Kept(p, req) ==
    IF Shifted(p, req) THEN SubSeq(req.imps, 1, Cardinality(Sound(p, req)))
    ELSE LET keep(i) == /\ Reaction(p, req, i) \in {"use", "note", "excuse", "warn"}
                        /\ ~Stopped(p, req, i) /\ ~Superseded(p, req, i)
         IN  [n \in 1..Cardinality({i \in DOMAIN req.imps : keep(i)}) |->
                 req.imps[CHOOSE i \in DOMAIN req.imps :
                             keep(i) /\ Cardinality({j \in 1..i : keep(j)}) = n]]

SameKey(imps) == \A i, j \in DOMAIN imps : imps[i].key = imps[j].key

(* The request as a whole is refused. *)
Refused(p, req) ==
    \/ p.needs \cap req.lacks # {}
    \/ p.oneImp /\ Len(req.imps) # 1
    \/ p.oneKey /\ ~SameKey(Kept(p, req))
    \/ \E i \in DOMAIN req.imps :
          \/ req.imps[i].offers \cap p.bans # {}
          \/ Reaction(p, req, i) \in {"abort", "giveUp"}
    \/ NoneSound(p, req)
    \/ p.nothing = "all" /\ Kept(p, req) = <<>> /\ "publisher" \in req.lacks

Call(imps, format) == [imps |-> imps, format |-> format]

CallFor(imps, format) == IF imps = <<>> THEN <<>> ELSE <<Call(imps, format)>>

Offering(imps, fs) == SelectSeq(imps, LAMBDA imp : imp.offers \cap fs # {})

NotOffering(imps, fs) == SelectSeq(imps, LAMBDA imp : imp.offers \cap fs = {})

OneCallEach(imps, format) == [i \in DOMAIN imps |-> Call(<<imps[i]>>, format)]

(* Bugs: a chunk begins with the last imp of the one before it; the imps     *)
(* that do not fill a chunk are left over.                                   *)
OverlappingChunks(imps) ==
    [n \in 1..((Len(imps) + MaxImpsPerCall - 1) \div MaxImpsPerCall) |->
        Call(SubSeq(imps, IF n = 1 THEN 1 ELSE (n - 1) * MaxImpsPerCall,
                    IF n * MaxImpsPerCall < Len(imps) THEN n * MaxImpsPerCall ELSE Len(imps)), "any")]
FullChunks(imps) ==
    [n \in 1..(Len(imps) \div MaxImpsPerCall) |->
        Call(SubSeq(imps, (n - 1) * MaxImpsPerCall + 1, n * MaxImpsPerCall), "any")]

Chunks(imps) ==
    [n \in 1..((Len(imps) + MaxImpsPerCall - 1) \div MaxImpsPerCall) |->
        Call(SubSeq(imps, (n - 1) * MaxImpsPerCall + 1,
                    IF n * MaxImpsPerCall < Len(imps) THEN n * MaxImpsPerCall ELSE Len(imps)), "any")]

FormatsOf(imp, formats) == SelectSeq(formats, LAMBDA f : f \in imp.offers)

PerFormat(imps, formats) ==
    FlattenSeq([i \in DOMAIN imps |->
        [n \in DOMAIN FormatsOf(imps[i], formats) |->
            Call(<<imps[i]>>, FormatsOf(imps[i], formats)[n])]])

Keys(imps) == {imps[i].key : i \in DOMAIN imps}

(* The groups of a HashMap come in any order. *)
KeyedCalls(imps) ==
    {[n \in DOMAIN ks |-> Call(SelectSeq(imps, LAMBDA imp : imp.key = ks[n]), "any")] :
        ks \in SetToSeqs(Keys(imps))}

(* The calls the imps may be sent in, in the order they are made. *)
Groupings(p, req, imps) ==
    CASE p.split = "together" -> {<<Call(imps, "any")>>}
      [] p.split = "alone" -> {OneCallEach(imps, "any")}
      [] p.split = "echo" -> {[i \in DOMAIN imps |-> Call(req.imps, "any")]}
      [] p.split = "first" -> {CallFor(SubSeq(imps, 1, 1), "any")}
      [] p.split = "byKey" -> KeyedCalls(imps)
      [] p.split = "chunks" -> {Chunks(imps)}
      [] p.split = "perFormat" -> {PerFormat(imps, p.formats)}
      [] p.split = "videosLast" ->
            {OneCallEach(Offering(imps, {"banner"}), "any")
                \o CallFor(Offering(NotOffering(imps, {"banner"}), {"video"}), "any")}
      [] p.split = "nativesFirst" ->
            {CallFor(NotOffering(imps, {"banner"}), "any") \o CallFor(Offering(imps, {"banner"}), "any")}
      [] p.split = "slotsAndVideos" ->
            {CallFor(Offering(imps, {"banner"}), "banner") \o OneCallEach(Offering(imps, {"video"}), "video")}
      [] p.split = "videosApart" ->
            {CallFor(Offering(imps, {"banner", "native"}), "any")
                \o OneCallEach(NotOffering(imps, {"banner", "native"}), "any")}

(* openx groups the imps before it reads their parameters. *)
HushedGroupIsEmpty(p, req) ==
    LET plain(i) == req.imps[i].offers \cap {"banner", "native"} # {}
        hushed(i) == Reaction(p, req, i) = "hush"
    IN  \E i \in DOMAIN req.imps :
            hushed(i) /\ (plain(i) => \A j \in DOMAIN req.imps : plain(j) => hushed(j))

RequestErrors(p, req) ==
    LET reacts(rs) == \E i \in DOMAIN req.imps : ~Stopped(p, req, i) /\ Reaction(p, req, i) \in rs
    IN  (IF reacts({"skip", "note", "warn", "stop", "shift"}) \/ HushedGroupIsEmpty(p, req)
         THEN {BadInput} ELSE {})
        \cup (IF reacts({"fault"}) THEN {BadServerResponse} ELSE {})

RefusalError(p, req) ==
    IF \E i \in DOMAIN req.imps : Reaction(p, req, i) = "giveUp"
    THEN FailedToRequestBids ELSE BadInput

(* Everything make_requests may return: the calls to make, and the errors. *)
MakeRequests(p, req) ==
    LET kept == Kept(p, req)
        errs == RequestErrors(p, req)
    IN  IF Refused(p, req) THEN {[calls |-> <<>>, errs |-> errs \cup {RefusalError(p, req)}]}
        ELSE IF kept # <<>> THEN {[calls |-> cs, errs |-> errs] : cs \in Groupings(p, req, kept)}
        ELSE CASE p.nothing = "quiet" -> {[calls |-> <<>>, errs |-> errs]}
               [] p.nothing = "report" -> {[calls |-> <<>>, errs |-> errs \cup {BadInput}]}
               [] p.nothing = "send" -> {[calls |-> <<Call(<<>>, "any")>>, errs |-> errs]}
               [] p.nothing = "all" -> {[calls |-> <<Call(req.imps, "any")>>, errs |-> errs]}

=============================================================================
