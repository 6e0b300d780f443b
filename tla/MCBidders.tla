----------------------------- MODULE MCBidders ------------------------------
(***************************************************************************)
(* What is done for one bidder, each part on its own: its adapter is asked *)
(* for bids (every adapter of the crate), or a page brings its user id     *)
(* into the cookie.  The initial state picks the part that moves.          *)
(***************************************************************************)
EXTENDS AdaptedBidder, Adapters1to5, Adapters6to13, Adapters14, UserSync, TLC

VARIABLE part

biddersVars == <<part, bidderVars, syncVars>>

-----------------------------------------------------------------------------
\* Requests of one to three imps in which every defect, every group of formats and
\* every missing request field occurs, and the answers the adapters tell apart.
MCPolicies ==
    InAdapters1 \cup InAdapters2 \cup InAdapters3 \cup InAdapters4 \cup InAdapters5 \cup InAdapters6
    \cup InAdapters7 \cup InAdapters8 \cup InAdapters9 \cup InAdapters10 \cup InAdapters11
    \cup InAdapters12 \cup InAdapters13 \cup InAdapters14

\* The adapters whose comments the exchange contradicts.
MCSmaato == {SmaatoAdapter}
MCAdpone == {AdponeAdapter}

Imp(id, offers, defect, key) == [id |-> id, offers |-> offers, defect |-> defect, key |-> key, full |-> FALSE]

Ask(imps) == [imps |-> imps, lacks |-> {}, cur |-> "USD"]

\* Three imps of one placement: more than one call's worth.
Long == Ask(<<Imp("1", {"banner"}, "none", "k1"), Imp("2", {"banner"}, "none", "k1"),
              Imp("3", {"video"}, "none", "k1")>>)

MCBidRequests ==
    {Long,
     Ask(<<Imp("1", {"banner"}, "none", "k1"), Imp("2", {"video"}, "none", "k1")>>),
     Ask(<<Imp("1", {"banner"}, "null", "k1"), Imp("2", {"banner", "video"}, "none", "k2")>>),
     Ask(<<Imp("1", {"banner"}, "none", "k1"), Imp("2", {"native"}, "blank", "k2"),
           Imp("3", {"banner"}, "none", "k2")>>),
     Ask(<<Imp("1", {"banner"}, "unsized", "k1"), Imp("2", {"video"}, "video", "k1")>>),
     Ask(<<Imp("1", {"native"}, "native", "k1"), Imp("2", {"audio", "video"}, "floor", "k2")>>),
     Ask(<<Imp("1", {"audio"}, "none", "k1"), Imp("2", {"native"}, "none", "k2")>>),
     Ask(<<[Imp("1", {"video"}, "none", "k1") EXCEPT !.full = TRUE]>>),
     [Ask(<<Imp("1", {"banner"}, "none", "k1")>>) EXCEPT !.lacks = Needs, !.cur = "JPY"]}

TheBid(at, mtype, ext) ==
    [at |-> at, mtype |-> mtype, ext |-> ext, markup |-> "vast", priced |-> TRUE, complete |-> TRUE]

Seats(c, ss) == [status |-> 200, body |-> "seats", cur |-> c, header |-> "banner", seats |-> ss]

MCAnswers ==
    {Seats("USD", << <<TheBid(1, 1, "banner")>> >>),
     Seats("EUR", << <<TheBid(1, 2, "video"), [TheBid(2, 4, "native") EXCEPT !.complete = FALSE]>> >>),
     Seats("none", << <<TheBid(1, 0, "missing")>>, <<[TheBid(0, 5, "odd") EXCEPT !.markup = "html"]>> >>),
     Seats("", << <<>>, <<[TheBid(1, 3, "audio") EXCEPT !.priced = FALSE, !.markup = "native"]>> >>),
     Seats("EUR", <<>>),
     [NoAnswer EXCEPT !.status = 201, !.body = "bad"],
     [NoAnswer EXCEPT !.status = 204],
     [NoAnswer EXCEPT !.status = 400, !.body = "blank"],
     [NoAnswer EXCEPT !.status = 503, !.body = "blank"]}

-----------------------------------------------------------------------------
\* Three bidders to sync, two pixels a round at most: an id that is live when two pixels
\* overlap is one of three.
MCSyncAccounts == "acct" :> [default |-> {}, max |-> {1}]

Body(account, bidders, coop, limit) ==
  [account |-> account, unconsented |-> FALSE, filter |-> "ok", bidders |-> bidders,
   coop |-> coop, limit |-> limit]

MCSyncBodies ==
  LET every == Body("acct", <<>>, FALSE, {2})
  IN { every,
       Body("acct", <<"b1", "b1">>, TRUE, {0}),
       Body("acct", <<"unknown", "b2", "b2">>, FALSE, {}),
       [every EXCEPT !.account = "nobody"], [every EXCEPT !.unconsented = TRUE],
       [every EXCEPT !.filter = "malformed"] }

-----------------------------------------------------------------------------
BiddersInit ==
  /\ part \in {"adapter", "sync"}
  /\ BidderInit /\ SyncInit
  /\ part # "adapter" => policy = SmaatoAdapter /\ req = Long
  /\ open = (part = "sync")

BiddersNext ==
  \/ part = "adapter" /\ BidderNext /\ UNCHANGED <<part, syncVars>>
  \/ part = "sync" /\ SyncNext /\ UNCHANGED <<part, bidderVars>>

\* Where an adapter is asked there is no page, and nobody owes the cookie a step.
BiddersSpec == BiddersInit /\ [][BiddersNext]_biddersVars /\ SyncFairness
=============================================================================
