---------------------------- MODULE AdaptedBidder ----------------------------
(***************************************************************************)
(* AdaptedBidder::request_bid and execute_request of exchange/src/lib.rs,  *)
(* with the adapter's own make_requests and make_bids: one bidder of one   *)
(* auction, from its share of the request to its BidderResult.             *)
(*                                                                         *)
(* The bidder's server is external.  It answers a call with one of         *)
(* Answers, in which a bid names its imp by its position in the call (0, or *)
(* a position past the end, stands for an imp the call did not carry).     *)
(***************************************************************************)
EXTENDS AdapterReplies

CONSTANTS Policies,     \* the adapters
          BidRequests,  \* what split_imps_for_bidders may hand to a bidder
          Answers       \* what a server may answer

VARIABLES policy, req,
          stage,      \* "start", "calling", "done"
          pending,    \* the calls not yet made
          errs,       \* the errors so far
          gathered,   \* all_bids
          cur,        \* all_bids.currency
          late,       \* timed_out
          ok,         \* the result is Ok
          history     \* what each call made and what came of it

bidderVars == <<policy, req, stage, pending, errs, gathered, cur, late, ok, history>>

BidderInit ==
    /\ policy \in Policies /\ req \in BidRequests
    /\ stage = "start" /\ pending = <<>> /\ history = <<>>
    /\ errs = {} /\ gathered = <<>> /\ cur = "USD" /\ late = FALSE /\ ok = FALSE

(* The result: a BadInput from make_requests or from any call discards all  *)
(* bids, any other error is forgotten.                                      *)
Succeeds(es) == ~ \E e \in es : IsFatal(e)

(* A bug: without a call the errors are forgotten. *)
AskAndForget ==
    /\ stage = "start"
    /\ \E made \in MakeRequests(policy.asks, req) :
          /\ pending' = made.calls
          /\ errs' = made.errs
          /\ stage' = IF made.calls = <<>> THEN "done" ELSE "calling"
          /\ ok' = (made.calls = <<>>)
    /\ UNCHANGED <<policy, req, gathered, cur, late, history>>

(* make_requests.  Without a call, an error of any kind is the result. *)
AskAdapter ==
    /\ stage = "start"
    /\ \E made \in MakeRequests(policy.asks, req) :
          /\ pending' = made.calls
          /\ errs' = made.errs
          /\ stage' = IF made.calls = <<>> THEN "done" ELSE "calling"
          /\ ok' = (made.calls = <<>> /\ made.errs = {})
    /\ UNCHANGED <<policy, req, gathered, cur, late, history>>

ImpAt(call, n) == IF n \in DOMAIN call.imps THEN call.imps[n] ELSE Stray

(* The answer as it reaches make_bids: execute_request passes the status    *)
(* and the body on, and no header.                                          *)
ResponseData(call, answer) ==
    [status |-> answer.status, body |-> answer.body, cur |-> answer.cur, header |-> "missing",
     seats |-> [s \in DOMAIN answer.seats |->
                   [n \in DOMAIN answer.seats[s] |->
                       LET bid == answer.seats[s][n]
                       IN  [imp |-> ImpAt(call, bid.at), mtype |-> bid.mtype, ext |-> bid.ext,
                            markup |-> bid.markup, priced |-> bid.priced, complete |-> bid.complete]]]]

LastLabel(came) == came.cur     \* a bug: the last reply decides, failed or not

Label(came) == IF came.errs = {} /\ came.cur # "USD" THEN came.cur ELSE cur

(* One round of the loop over the calls: what came of it, and whether it    *)
(* was late.                                                                *)
EndCall(answer, came, timedOut) ==
    /\ stage = "calling"
    /\ pending' = Tail(pending)
    /\ history' = Append(history, [call |-> Head(pending), answer |-> answer, came |-> came])
    /\ errs' = errs \cup came.errs
    /\ gathered' = gathered \o came.bids
    /\ cur' = Label(came)
    /\ late' = (late \/ timedOut)
    /\ stage' = IF Tail(pending) = <<>> THEN "done" ELSE "calling"
    /\ ok' = (Tail(pending) = <<>> /\ Succeeds(errs'))
    /\ UNCHANGED <<policy, req>>

NoAnswer == [status |-> 0, body |-> "none", cur |-> "none", header |-> "missing", seats |-> <<>>]

(* A 204 never reaches make_bids. *)
Answered ==
    /\ stage = "calling"
    /\ \E answer \in Answers :
          EndCall(answer,
                  IF answer.status = 204 THEN NoBids
                  ELSE MakeBids(policy.reads, req, Head(pending), ResponseData(Head(pending), answer)),
                  FALSE)

TimedOut == stage = "calling" /\ EndCall(NoAnswer, Failed(Timeout), TRUE)

SendFails == stage = "calling" /\ EndCall(NoAnswer, Failed(FailedToRequestBids), FALSE)

BodyBreaksOff == stage = "calling" /\ EndCall(NoAnswer, Failed(BadServerResponse), FALSE)

BidderNext == AskAdapter \/ Answered \/ TimedOut \/ SendFails \/ BodyBreaksOff

BidderSpec == BidderInit /\ [][BidderNext]_bidderVars

-----------------------------------------------------------------------------
Made == {history[i] : i \in DOMAIN history}

(* The policies are well-formed, and the loop's state has its types. *)
BidderTypeOK ==
    /\ policy.asks \in AskPolicies /\ policy.reads \in ReadPolicies
    /\ stage \in {"start", "calling", "done"}
    /\ errs \subseteq Errors
    /\ \A i \in DOMAIN gathered : gathered[i].type \in Formats
    /\ late = \E h \in Made : Timeout \in h.came.errs

AllCalls == [i \in DOMAIN history |-> history[i].call] \o pending

CallsWith(imp) == {i \in DOMAIN AllCalls : imp \in Range(AllCalls[i].imps)}

Healthy(imp) == imp.defect = "none" /\ imp.offers \subseteq policy.asks.takes

(* make_requests: no imp is lost without a word.  An imp that is in order    *)
(* and whose formats the adapter takes is in some call, or an error is       *)
(* reported, however the imps before it fared; but for the adapters that     *)
(* only ever ask for the first imp, or for the last one of a placement.      *)
HealthyImpIsAskedOrBlamed ==
    stage # "start" /\ policy.asks.split # "first" /\ ~policy.asks.lastOfKey =>
        \A i \in DOMAIN req.imps :
            Healthy(req.imps[i]) => CallsWith(req.imps[i]) # {} \/ errs # {}

(* make_requests: an imp is asked for once for each format, so that a server *)
(* that bids on all it is asked for does not bid twice; but for bluesea,     *)
(* which repeats the whole request.                                          *)
AskedOnce ==
    policy.asks.split # "echo" =>
        \A i \in DOMAIN req.imps : \A j, k \in CallsWith(req.imps[i]) :
            j # k => AllCalls[j].format # AllCalls[k].format

(* request_bid: when every readable answer names one currency, those without *)
(* a bid included, and the adapter goes by the answer, the bids are delivered *)
(* under that currency whichever of the calls failed, timed out, came back   *)
(* empty or had their bids left out.                                         *)
LabelIsTheAnswers ==
    LET read == {h \in Made : h.answer.body = "seats" /\ policy.reads.status[h.answer.status] = Read}
        named == {h.answer.cur : h \in read}
    IN  stage = "done" /\ ok /\ gathered # <<>> /\ policy.reads.cur \in {"copy", "filled"}
            /\ Cardinality(named) = 1 /\ named \subseteq {"USD", "EUR"} => cur \in named

(* request_bid implements BidderTask, the task hold_auction runs. *)
Task == INSTANCE BidderTask WITH
    Kinds <- Errors, Fatal <- {BadInput}, Late <- Timeout, MaxCalls <- 20, MaxBids <- 20,
    state <- CASE stage = "start" -> "spawned" [] stage = "calling" -> "calling"
               [] stage = "done" -> IF ok THEN "finished" ELSE "failed",
    left <- Len(pending), errors <- errs, bids <- Len(gathered), late <- late

ImplementsTask == Task!TaskSpec

(* adpone.rs says of an imp it only notes: "Errors here are non-fatal": the  *)
(* bids the call then brings are delivered.                                  *)
NotedErrorsAreNotFatal ==
    stage = "done" /\ gathered # <<>> /\ (\A h \in Made : h.came.errs = {})
        /\ (\A i \in DOMAIN req.imps : Reaction(policy.asks, req, i) \in {"use", "note"}) => ok

(* smaato.rs: "X-Smt-Adtype header determines bid type": a complete answer   *)
(* that names a format in its header is delivered.                           *)
HeaderDeterminesType ==
    \A h \in Made :
        /\ policy.reads.types[1].by = "header" /\ h.answer.status = 200 /\ h.answer.body = "seats"
        /\ h.answer.header \in {"banner", "video"}
        => h.came.errs = {}

=============================================================================
