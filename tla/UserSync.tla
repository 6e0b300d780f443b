------------------------------ MODULE UserSync ------------------------------
(***************************************************************************)
(* The cookie of user ids.  The server keeps nothing: /setuid, /optout and *)
(* /cookie_sync read the cookie that came with the request and answer with *)
(* a whole new one.  A page asks /cookie_sync which bidders lack an id and *)
(* then loads one pixel for each, all at once; each pixel ends in a        *)
(* /setuid call that carries the cookie as it was when the call was sent,  *)
(* and whose Set-Cookie replaces whatever the browser holds by then.       *)
(* endpoints/src/lib.rs.                                                   *)
(***************************************************************************)
EXTENDS Naturals, Sequences, FiniteSets, SequencesExt, FiniteSetsExt

CONSTANTS
  SyncBidders,      \* bidders the server has sync information for
  NoUrl,            \* those of them whose information holds neither URL
  Denied,           \* bidders the SyncUser activity is denied to
  SyncAccounts,     \* account |-> its cookie_sync limits [default, max], each {} or {n}
  account_required,
  gdpr_enabled,
  SyncBodies,       \* /cookie_sync bodies: [account, unconsented, filter, bidders, coop, limit]
  UsizeMax,         \* usize::MAX, the limit of who has none
  UidTtl,           \* UID_TTL_SECS, in days
  CookieTtl,        \* Max-Age of the cookie (ttl_days, 90 by default)
  MaxOutside        \* bound: calls and losses that are not part of a round

ASSUME SyncAssumption ==
  /\ IsFiniteSet(SyncBidders) /\ NoUrl \subseteq SyncBidders /\ Denied \subseteq SyncBidders
  /\ {account_required, gdpr_enabled} \subseteq BOOLEAN
  /\ {UsizeMax, UidTtl, CookieTtl, MaxOutside} \subseteq Nat
  /\ UidTtl > 0 /\ CookieTtl > 0

VARIABLES
  open,     \* the page is still there
  jar,      \* the cookie the browser holds, and how many days it keeps it
  listing,  \* the answer of /cookie_sync that is on its way to the page
  pixels,   \* the calls of the round under way, one for each sync that was listed
  round,    \* history: what the round was to bring and what was live when it began
  outside   \* history: how many calls and losses outside rounds there were

syncVars == <<open, jar, listing, pixels, round, outside>>

-----------------------------------------------------------------------------
\* UserSyncCookie.  An id is known by the days it has left; an id with none left is as
\* good as no entry, for that is how has_valid_uid takes it.
NoCookie == [uids |-> [b \in SyncBidders |-> 0], optout |-> "unset"]

\* cookie_sync_handler also asks exchange's PrebidCookie, which cannot parse what this
\* server writes (it wants a field opt_out, and expiries as strings) and so is empty.
has_valid_uid(cookie, b) == cookie.uids[b] > 0

\* A bug: the answer holds the new id only.
SetOnly(cookie, b) == [NoCookie EXCEPT !.uids[b] = UidTtl]

set_uid(cookie, b) == [cookie EXCEPT !.uids[b] = UidTtl]

Forget(cookie, b) == [cookie EXCEPT !.uids[b] = 0]

\* optout_handler: opting out clears the ids, opting in leaves them.
OptOut(cookie, out) ==
  IF out THEN [NoCookie EXCEPT !.optout = "out"] ELSE [cookie EXCEPT !.optout = "in"]

Live(cookie) == {b \in SyncBidders : has_valid_uid(cookie, b)}

\* from_request: a browser that has dropped the cookie sends none.
EmptyJar == [cookie |-> NoCookie, left |-> 0]

Sent == jar.cookie

Keep(cookie) == jar' = [cookie |-> cookie, left |-> CookieTtl]

-----------------------------------------------------------------------------
\* The refusals of cookie_sync_handler: 400, 451, 400.
SyncRefused(body) ==
  \/ account_required /\ body.account \notin DOMAIN SyncAccounts
  \/ gdpr_enabled /\ body.unconsented
  \/ body.filter = "malformed"

\* compute_effective_limit; an unknown account sets no limits.
compute_effective_limit(body) ==
  LET limits == IF body.account \in DOMAIN SyncAccounts
                THEN SyncAccounts[body.account] ELSE [default |-> {}, max |-> {}]
      asked  == IF body.limit # {} THEN body.limit ELSE limits.default
  IN Min(((asked \cup limits.max) \ {0}) \cup {UsizeMax})

\* The limit the handler goes by is another one.
Limit(body) == IF body.limit = {} THEN 10 ELSE Max(body.limit \cup {1})

\* The orders in which the map of known bidders may happen to be walked.
Orders == SetToSeqs(SyncBidders)

\* The candidates of a body; `all` is one of these orders.
Candidates(body, all) ==
  LET known == SelectSeq(body.bidders, LAMBDA b : b \in SyncBidders)
      rest  == SelectSeq(all, LAMBDA b : ~ Contains(known, b))
  IN IF body.bidders = <<>> THEN all
     ELSE IF body.coop THEN known \o rest ELSE known

\* What may be walked for a body: its candidates without those the activity is denied to.
Walks == [body \in SyncBodies |->
  {SelectSeq(Candidates(body, all), LAMBDA b : b \notin Denied) : all \in Orders}]

\* The walk over the allowed candidates: a bidder with a live id is reported, one
\* without is listed for a sync if it has a URL, and the walk ends at the first bidder
\* without an id that is met once the limit is used up.
NewBefore(walk, cookie, i) ==
  Cardinality({j \in 1 .. i - 1 : ~ has_valid_uid(cookie, walk[j]) /\ walk[j] \notin NoUrl})

\* Bugs: one sync more than the limit; bidders with an id count against the limit.
WalkEndLate(walk, cookie, limit) ==
  Min({i \in 1 .. Len(walk) : /\ ~ has_valid_uid(cookie, walk[i])
                              /\ NewBefore(walk, cookie, i) > limit} \cup {Len(walk) + 1})
WalkEndEarly(walk, cookie, limit) ==
  Min({i \in 1 .. Len(walk) : ~ has_valid_uid(cookie, walk[i]) /\ i > limit} \cup {Len(walk) + 1})

WalkEnd(walk, cookie, limit) ==
  Min({i \in 1 .. Len(walk) : /\ ~ has_valid_uid(cookie, walk[i])
                              /\ NewBefore(walk, cookie, i) >= limit} \cup {Len(walk) + 1})

Rows(walk, cookie, limit) ==
  LET reached == SubSeq(walk, 1, WalkEnd(walk, cookie, limit) - 1)
  IN SelectSeq(reached, LAMBDA b : has_valid_uid(cookie, b) \/ b \notin NoUrl)

-----------------------------------------------------------------------------
\* "none": no answer is on its way.  The others say what was walked, with which live
\* ids, and which rows came of it.
Listing(status, walk, rows, live, limit, effective) ==
  [status |-> status, walk |-> walk, rows |-> rows, live |-> live, limit |-> limit,
   effective |-> effective]

NoListing == Listing("none", <<>>, <<>>, {}, 0, 0)

New(a) == SelectSeq(a.rows, LAMBDA b : b \notin a.live)

\* The page's own doing: it asks again only when a round is over.
RoundOver == listing = NoListing /\ pixels = {}

\* cookie_sync_handler.
CookieSync(body) == \E walk \in Walks[body] :
  /\ open /\ RoundOver
  /\ listing' = IF SyncRefused(body) THEN [NoListing EXCEPT !.status = "refused"]
               ELSE Listing("ok", walk, Rows(walk, Sent, Limit(body)), Live(Sent), Limit(body),
                           compute_effective_limit(body))
  /\ round' = [before |-> Sent.uids, left |-> UidTtl, clean |-> TRUE, asked |-> {}, landed |-> FALSE]
  /\ UNCHANGED <<open, jar, pixels, outside>>

\* The page loads a pixel for each sync that was listed, twice for a bidder that was
\* named twice.
LoadPixels ==
  /\ listing # NoListing
  /\ LET new == New(listing)
     IN /\ pixels' = {[bidder |-> new[p], nth |-> Cardinality({q \in 1 .. p : new[q] = new[p]}),
                       at |-> "listed", cookie |-> NoCookie] : p \in DOMAIN new}
        /\ round' = [round EXCEPT !.asked = ToSet(new)]
  /\ listing' = NoListing
  /\ UNCHANGED <<open, jar, outside>>

\* set_uid_handler for a pixel: it does not look at the opt-out flag.
SetUid(p) ==
  /\ p.at = "listed"
  /\ pixels' = (pixels \ {p}) \cup {[p EXCEPT !.at = "answered", !.cookie = set_uid(Sent, p.bidder)]}
  /\ UNCHANGED <<open, jar, listing, round, outside>>

\* The browser receives the answer's Set-Cookie.
Land(p) ==
  /\ p.at = "answered"
  /\ Keep(p.cookie)
  /\ pixels' = pixels \ {p}
  /\ round' = [round EXCEPT !.landed = TRUE]
  /\ UNCHANGED <<open, listing, outside>>

\* A pixel never loads, or set_uid_handler refuses it for want of an account or of
\* consent, or its answer never arrives.
Lose(p) ==
  /\ outside < MaxOutside
  /\ pixels' = pixels \ {p}
  /\ outside' = outside + 1
  /\ UNCHANGED <<open, jar, listing, round>>

\* The user leaves the page for good, in the middle of whatever was under way.
Leave ==
  /\ open
  /\ open' = FALSE /\ listing' = NoListing /\ pixels' = {}
  /\ UNCHANGED <<jar, round, outside>>

\* A whole call from elsewhere, whose answer lands before any other call is made.
Elsewhere(cookie) ==
  /\ outside < MaxOutside
  /\ Keep(cookie)
  /\ outside' = outside + 1
  /\ round' = [round EXCEPT !.clean = FALSE]
  /\ UNCHANGED <<open, pixels, listing>>

\* set_uid_handler with an empty uid, and without one.
Unsync == \E b \in SyncBidders : Elsewhere(Forget(Sent, b)) \/ Elsewhere(Sent)

optout_handler == \E out \in BOOLEAN : Elsewhere(OptOut(Sent, out))

\* A day less, for every id and for the cookie itself.
Less(n) == IF n = 0 THEN 0 ELSE n - 1

Older(uids) == [b \in SyncBidders |-> Less(uids[b])]

NextDay ==
  /\ jar' = IF jar.left <= 1 THEN EmptyJar
            ELSE [cookie |-> [jar.cookie EXCEPT !.uids = Older(@)], left |-> jar.left - 1]
  /\ pixels' = {[p EXCEPT !.cookie.uids = Older(@)] : p \in pixels}
  /\ round' = [round EXCEPT !.before = Older(@), !.left = Less(@)]
  /\ UNCHANGED <<open, listing, outside>>

SyncInit ==
  /\ open \in BOOLEAN
  /\ jar = EmptyJar /\ outside = 0
  /\ listing = NoListing /\ pixels = {}
  /\ round = [before |-> NoCookie.uids, left |-> 0, clean |-> TRUE, asked |-> {}, landed |-> FALSE]

SyncNext ==
  \/ \E body \in SyncBodies : CookieSync(body)
  \/ LoadPixels
  \/ \E p \in pixels : SetUid(p) \/ Land(p) \/ Lose(p)
  \/ Leave
  \/ Unsync
  \/ optout_handler
  \/ NextDay

\* A page that stays comes back: whatever else is asked in between, again and again it asks for
\* every bidder, in a way that is not refused (strong fairness, for it can only ask when
\* the last round is over); it loads what it was told to, and each pixel that is not
\* lost is called and answered.
SyncFairness ==
  /\ SF_syncVars(\E body \in SyncBodies : body.bidders = <<>> /\ ~ SyncRefused(body) /\ CookieSync(body))
  /\ WF_syncVars(LoadPixels)
  /\ WF_syncVars(\E p \in pixels : SetUid(p))
  /\ WF_syncVars(\E p \in pixels : Land(p))

SyncSpec == SyncInit /\ [][SyncNext]_syncVars /\ SyncFairness
-----------------------------------------------------------------------------
\* The type invariant.
SyncTypeOK ==
  /\ outside \in 0 .. MaxOutside /\ jar.left \in 0 .. CookieTtl
  /\ jar.cookie.optout \in {"unset", "in", "out"}
  /\ \A b \in SyncBidders : jar.cookie.uids[b] \in 0 .. UidTtl
  /\ \A p \in pixels : p.at \in {"listed", "answered"} /\ p.bidder \in SyncBidders

\* A round never goes backwards although its pixels overwrite each other's cookies:
\* once all are in, and nobody else touched the cookie of a user who has not opted out,
\* every id that was live at the start is still there until its own expiry, and the id
\* of one of the pixels is there too, for as long as an id lives (the last Set-Cookie to
\* land was built on a cookie that held the former and added the latter).
RoundGains ==
  RoundOver /\ round.clean /\ round.landed /\ Sent.optout # "out" =>
    /\ \A b \in SyncBidders : round.before[b] > 0 => has_valid_uid(Sent, b)
    /\ round.left > 0 => \E b \in round.asked : has_valid_uid(Sent, b)

\* "Cap returned *new* syncs at `limit`; already-synced bidders do NOT count against
\* it": wherever the bidders with an id, and those nobody can sync, stand in the walk,
\* /cookie_sync asks for the first `limit` of the missing ids in the order of the walk,
\* for all of them when there are fewer, and then leaves no bidder with an id out.
AsksForWhatIsMissing ==
  LET missing == SelectSeq(listing.walk, LAMBDA b : b \notin listing.live \cup NoUrl)
  IN listing.status = "ok" =>
       /\ New(listing) = SubSeq(missing, 1, Min({listing.limit, Len(missing)}))
       /\ Len(New(listing)) < listing.limit => listing.live \cap ToSet(listing.walk) \subseteq ToSet(listing.rows)

\* For a page that stays and keeps asking, overlapping pixels and lost calls delay the ids but do
\* not prevent them: unless the user has opted out, or days pass faster than rounds do,
\* in the end every bidder that may be synced has a live id.
EventuallySynced ==
  \/ []<>~open
  \/ []<><<NextDay>>_syncVars
  \/ []<>(Sent.optout = "out")
  \/ <>[](SyncBidders \ (NoUrl \cup Denied) \subseteq Live(Sent))

\* optout_handler's comment: "If opting out, clear all stored UIDs so no further
\* syncing occurs".  A /setuid that follows an opt-out stores an id all the same.
OptOutStopsSyncing == Sent.optout = "out" => Live(Sent) = {}

\* "Compute the effective limit for cookie sync, applying account-level default_limit and
\* max_limit": cookie_sync_handler computes it, and lists more syncs than it allows.
LimitIsTheAccounts == listing.status = "ok" => Len(New(listing)) <= listing.effective
=============================================================================
