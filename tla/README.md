# Formal models of Prebid Server

TLA+ models of this Prebid Server repository, model-checked with TLC on small instances
and, for ten components, proved with TLAPS for instances of any size. Most modules model
the Rust workspace (`src/rust/crates`); three model concurrent parts of the Go server.
Paths below are relative to `src/`, those of Rust crates to `src/rust/crates/`.

## The system and its parts

| Part | Where | Model |
|---|---|---|
| Bidder adapters | `adapters/src/adapters*/` | `AdapterRequests`, `AdapterReplies`, `Adapters1to5`, `Adapters6to13`, `Adapters14` |
| A bidder's task: `request_bid`, `execute_request` | `exchange/src/lib.rs` | `AdaptedBidder`, abstractly `BidderTask` |
| The auction: `hold_auction_with_timeouts` | `exchange/src/lib.rs` | `HoldAuction`, `BidProcessing`, abstractly `AuctionPromise` |
| Hook engines | `hooks/src/executor.rs`, `exchange/src/hooks.rs`, `exchange/src/hooks_exec.rs` | `HookEngines` |
| Analytics workers | `exchange/src/analytics.rs` | `AnalyticsWorkers` |
| Analytics runner, pubstack backend | `analytics/src/runner.rs`, `analytics/src/backends/pubstack.rs` | `BatchingBackend` |
| Refreshed caches | `floors/src/fetcher.rs`, `exchange/src/floors.rs`, `currency/src/lib.rs`, `config/src/sources/remote.rs` | `RefreshedCaches` |
| User sync endpoints | `endpoints/src/lib.rs` | `UserSync` |
| Stored requests | `stored_requests/src/`, `endpoints/src/stored_requests.rs` | `StoredData` |
| Privacy decisions | `exchange/src/privacy.rs`, `exchange/src/gdpr.rs`, `privacy/src/` | `Consent` |
| Go: auction fan-out | `exchange/exchange.go`, `exchange/bidder.go` | `BidderFanOut` |
| Go: hook stage executor | `hooks/hookexecution` | `HookStage`, abstractly `HookStagePromise` |
| Go: price floor fetcher | `floors/fetcher.go` | `PriceFloorFetcher` |

`PROJECT.json` lists every part of the system, the unmodelled ones with the reason, the
source lines of every definition, and the hazards at the lines where they bite.

The parts meet as follows. The auction runs one task per bidder. `HoldAuction` describes
such a task by its calls and what they may give; `BidderTask` states the same shape on its
own, and `AdaptedBidder` is shown to implement it for every adapter. (That the task actions
of `HoldAuction` have that shape is a matter of reading the two modules, not of a run.) Hook stages appear in `HoldAuction` as what the
auction sees of them (pass or reject), and in full in `HookEngines`. The services
(analytics, caches, stored data, privacy decisions) share no state with the auctions or with each
other; they are checked by one run that picks one of them, and another run picks between the adapters
and the user-sync endpoints in the same way. `HoldAuction` takes the outcome of
`CheckPrivacy` for each bidder as given. The enforcers and permissions of `gdpr.rs`
(`get_gdpr_signal` among them), the CCPA and LMT libraries and the caching fetchers are libraries:
no endpoint calls them yet.

## Modules

Definitions marked *A bug* or *Fault* are wrong variants of the definition after them.
They show that some property notices that mistake, and no specification uses them.

### Adapters

Every adapter turns a request into HTTP calls (`make_requests`) and an answer into typed
bids (`make_bids`). They differ in a limited number of decisions, and a *policy* is a record
of these. `AdapterRequests` gives the meaning of the asking half as the operator
`MakeRequests`: how imps are split into calls, what is done with an imp that is broken or
unsuited (leave it out with or without an error, send it anyway, abort, stop), which request
fields are required, and what happens when nothing is left. `AdapterReplies` gives
`MakeBids`: how each status is treated, empty bodies and seats, where the currency comes
from, the chain of rules by which the type of a bid is found, and what a bid without one
does to the others. `Adapters1to5`, `Adapters6to13` and `Adapters14` hold the policies, one for
each adapter, named after the Rust type and following the numbered directories of the crate.

Left out: URLs, headers of requests, rewritten request fields, creatives and prices. An
imp's formats, one defect, and a key for what groups it with others are kept. The
"unsized", "video" and "native" defects occur only on imps of a single format. A reply
without bids is taken to carry the currency USD, and a reply's own id is never an imp's.

### AdaptedBidder and BidderTask

| Code | Model |
|---|---|
| `make_requests` and the early return without calls | `AskAdapter` |
| one round of the loop over the calls | `Answered`, `TimedOut`, `SendFails`, `BodyBreaksOff`, each ending in `EndCall` |
| `ResponseData` with an empty header map | `ResponseData` |
| the currency of `all_bids` | `Label` |
| errors after the loop: one `BadInput` discards all bids | `Succeeds` |

### HoldAuction, BidProcessing and AuctionPromise

`pc` follows the function from validation through the hooks, the stored response and the
checks to the fan-out, the collecting loop and the response.

| Code | Model |
|---|---|
| the loop over active bidders, in `HashMap` order | `SkipForPrivacy`, `UseStoredBids`, `PassOver`, `Spawn` on any bidder of `todo` |
| a task of the `JoinSet` | `task[b]`; `MakeRequests`, `ExecuteRequest`, `Panic` |
| `join_next` in order of completion | `JoinOk`, `JoinErr`, `JoinPanicked` |
| conversion, factor, floor, validation, dedupe, multi-bid | `KeptBids`: `Priced`, `Accepted`, `Dedupe`, `EnforceMultiBid`, `Sorted` of `BidProcessing` |
| targeting, deal tiers, extended adjustments, cache, seats | `BuildResponse` |

A bid carries the fields the code branches on; its `adid` is its `id`. Prices are small
integers: the rounding of `f64` is not modelled. A filter is the set of places it keeps, and a
sort gives each place its rank, the number of places before it: of equal prices the one seen first.

`AuctionPromise` is what a caller relies on: each seat is collected once, then one highest
bid per imp is announced, and nothing changes afterwards. `KeepsPromise` states that the
auction implements it.

With bids to cache, `BuildResponse` includes blocking calls to Prebid Cache by a client without a
timeout (`AwaitsCache`).

### HookEngines

The workspace has three executors. `"library"` folds the results of a group after all hooks
are done and counts them; `"exchange"` and `"metered"` await the handles in order, keep
module contexts and record outcomes. A stage of a plan is one call of an executor, with a payload
and counters of its own. `HoldAuctionCalls` lists the calls the auction makes for a bidder and where
it goes on after a rejection: nowhere at the stages of the request, past the bidder at
`bidder_request`, and on, with a warning, at `raw_bidder_response` (`Resume`). The other two
executors have no caller but their tests. `at[q]` is the position of a request in its plan;
`Spawn`, `SpawnDone`, `Finish` (answer, failure, panic or timeout of a hook), `Fold`,
`GroupDone` and `SkipStage` are the steps. Two requests share one executor, hence `store`
and `outcomes` are not per request. The payload is the sequence of mutations applied.

### AnalyticsWorkers

The file, HTTP, pubstack and agma modules hand events through a channel to one worker.
`LogEvent`, `CallShutdown`, `RefreshConfig` and `DropModule` are the callers; `OpenFile`,
`ReceiveEvent`, `ReceiveShutdown`, `FlushTimer` and `ChannelClosed` the arms of the
worker's `select`; `HttpPost` is an attempt of the posting loop, on the worker itself, and
`DetachedPost` the end of a task spawned by `do_flush!`. An intake may have taken a payload
whose answer is lost. `MatchAccount` is agma's filter, with its fallbacks among ids. `dropped` holds
the events given up, and `silent` those of which no log line tells; `asked` is how many were logged
when `shutdown` was called. The HTTP module clears its batches while its `endpoint` is empty, the
default.

### BatchingBackend

The other analytics stack: each event is pushed by a task of its own onto a shared buffer.
`Push` and `TakeBatch` are the two critical sections; between them the lock is free.
`TimeOut` is the runner dropping the call at an await, with the batch it may hold, and
`Shutdown` aborts the flusher wherever it is.

### RefreshedCaches

Five caches of one key behind one set of actions: `"floorFetcher"`, `"cachedFloors"`,
`"cell"`, `"rates"` and `"remoteConfig"`. A document is known by the time the origin wrote
it, and changes every second, so the age of what is served is `now - served.doc`. The clock
counts whole seconds and only runs forward. `SendFetch`, `OriginAnswers`, `StoreFetched` and
`FailFetch` are one fetch, any number of which overlap; `LoopTick` is the background loop;
`Expired` is moka's time to live, and `PeekCached` is `FloorFetcher::cached`, which hands out
entries that `fetch` would call stale. The client of `RemoteConfigSource` has no timeout
(`HasTimeout`).

### UserSync

The server keeps no state: each handler answers with a whole new cookie. `CookieSync` is
`/cookie_sync`: it refuses, or walks the candidates and lists new syncs up to a limit. The page then
loads one pixel per listed sync at once, each a `/setuid` (`SetUid`) that carries the cookie of that
moment and whose `Set-Cookie` lands later (`Land`) or never (`Lose`). `Unsync` and `optout_handler`
are whole calls from elsewhere, `NextDay` ages ids and cookie, and `Leave` ends the page at any
moment. An id is the number of days it has left. `has_valid_uid` ignores the second cookie type the
handler consults, because that type cannot parse what this server writes.

### StoredData

Tasks call `fetch_requests` again and again, and their calls overlap, in front of an origin whose
documents come and go. `layer` picks one of two arrangements: `CachedFetcher` over `HttpFetcher`, and
`ComposedFetcher`. A document is known by the time at which the origin produced it.

| Code | Model |
|---|---|
| `drain_cache`; a call whose ids are all cached returns | `Ask`, `Begin`, `Fresh` |
| `ComposedFetcher::fetch_request` with `fetch_cached` | `AskComposed` |
| the origin answers, with more or fewer documents than were asked for | `OriginReads` |
| errors, bad status, unreadable body, timeout | `OriginFails` |
| the body is complete; `insert` entry by entry | `Receive`, `SaveOne` |
| moka's lifetime and capacity, `invalidate`, `clear` | `Fresh`, `Forgotten` |

`FetchTimeout` is the timeout of the HTTP client: five seconds where this code builds the client,
the embedder's where `HttpFetcher` is handed one. Between the answer and the saves no time passes.
`DatabaseFetcher`, whose queries have no timeout, and `FetcherWithCache`, whose cache is a trait its
embedder implements, are left out: no bound on the age of an answer follows from their code.

### Consent

A decision is an operator of the configuration `c` and of the statements `s` a request carries:
`CheckPrivacy` (the auction's own check), `CheckBidder` and `BidderAllowed` (the enforcer, and
`ConsentPermissions`), the permissions of `PermissionsImpl` (`HostCookiesAllowed`,
`BidderSyncAllowed`, `AllowBidRequest`, `PassGeo`, `PassId`), `LegalBasis`, `EnforceGdpr`, the two
CCPA policies and `ModifyLmtForIos`. Strings are the few the code tells apart; a GDPR flag other than
0 and 1 makes `GetGdprSignal` return an error, and then there is no signal for an enforcer to act on.
The actions are what users and publishers do between requests: withdraw a purpose, a vendor
or the string, opt out of sale, limit or deny tracking, hide the device id, declare a child-directed
site or that GDPR applies. The GPP text and its section list take all values but are not withdrawn:
of two GPP texts neither need be the stricter one.

### BidderFanOut (Go)

`getAllBids` starts a goroutine per bidder, which runs `requestBid`, which starts a
goroutine per HTTP request and stored response. Their results come back on the buffered
channels `responseChannel` (one per bidder) and `chBids`.

| Code | Model |
|---|---|
| a bidder's goroutine | `pc[b]`: `start`, `inline` (its only request runs on its own goroutine), `collect`, `bids`, then `returned`, `refused` or `panicked` |
| `responseChannel`, `dataLen` | a sequence of calls with a capacity, per bidder |
| goroutines of calls | `running[b]`; `DoRequest`, or `DoRequestInline` for a single request |
| the receive loop | `RejectCall`, `NoBidResponse`, `MakeBids`, then `HandleBid` per bid and `NextResponse` |
| return and validation | `Return`, with `removeInvalidBids` as `ValidBids` |
| `recoverSafely` | `PanicInRequest`, `PanicInMakeBids`; calls on their own goroutines go on |
| the merging loop | `Merge`, one wrapper per step |
| the deadline | `Expire` |

A bid is its bidder, call and position; of its price only the currency is kept, of its
content whether `validateBid` accepts it. Throttling, too little time left and failures
while reading the body all end as `ErrorGeneral`, as in `httpInfoToNonBidReason`. A panic on
a call's own goroutine is not recovered in the code and ends the process; it is not
modelled. The two hook stages inside a bidder's goroutine appear as what the bidder sees of
them (`ReturnEarly`, `NoBidResponse`).

### HookStage and HookStagePromise (Go)

`executeStage` runs the groups of a plan in order and the hooks of a group in parallel.
A hook has two goroutines: the module's handler (`Answer`, `HandlerPanics`, or nothing for
ever) and `executeHook`, whose `select` has one action per case. `Collect` and
`CollectEnd` are the range over `resp`, `HandleResponse` is `handleHookResponse`. The
payload is the sequence of hooks whose mutations it contains, which is exact for the stages
whose payload is a value. `HookStagePromise` is what a caller sees: groups take effect whole
and in order, and a rejection, where the stage allows one, returns the payload from before
its group. `KeepsPromise` states that `HookStage` implements it; the refinement mapping
hides a rejection until the stage returns.

### PriceFloorFetcher (Go)

`Fetch` on a cache miss sends to `configReceiver`, and blocks when that is full. The
Fetcher goroutine is either in its `select` (`Receive`, `Tick`) or in the loop over due
entries (`Drain`, `DrainEnd`). Workers download (`FetchSucceeds`, `FetchFails`) and send
the job back (`RefetchSend`). The pool (pond) and the cache (freecache) are libraries,
modelled from how the fetcher uses them: `TrySubmit` never blocks, accepts while there is
room and may refuse while its queue is full; the cache may evict at any time. Time is
kept as countdowns in ticks, so no clock grows.

## Runs

| Run | States | What it shows |
|---|---|---|
| `Bidders` | 372,026 | 251 distinct adapter policies on 8 requests and 9 answers: a sound imp is asked for or an error is reported (`HealthyImpIsAskedOrBlamed`), nothing is asked twice (`AskedOnce`), bids keep the currency of the answers whichever calls fail (`LabelIsTheAnswers`), and every adapter implements `BidderTask` (`ImplementsTask`); user sync: a round of overlapping pixels never loses an id that was live and gains one (`RoundGains`), `/cookie_sync` asks for the missing ids up to its limit, in order (`AsksForWhatIsMissing`), a page that stays and keeps asking is synced (`EventuallySynced`) |
| `HoldAuction` | 5,790 | in every order of arrival: seats belong to bidders that answered and were not blocked, and are collected in one go (`SeatsAreAnswers`); multi-bid drops no better bid than it keeps; the cached bid is the announced winner; the keys of a seat describe its bids; the auction implements `AuctionPromise`, and it ends, or gets as far as its calls to Prebid Cache, whatever its bidders do |
| `HookEngines` | 178,751 | results are folded in declaration order whatever the order of completion; the library's summary counts every hook, panics included (`EveryHookIsCounted`); what detached hooks return after a rejection changes nothing (`RejectionIsFinal`); every request ends |
| `Services` | 434,812 | analytics: no event is delivered twice but by a retry, a stopped worker leaves nothing behind, only events logged after the shutdown vanish without a word (`OnlyLateEventsVanish`), `shutdown` returns, every event leaves; batching: racing flushes take each event once, the buffer outgrows its limit only by what is owed; caches: bounds on the age of served floors and rates; stored data: a bound on the age of an answer (`StoredDataIsRecent`); privacy: no withdrawal makes a check more permissive (`WithdrawalOpensNoGate`) |
| `FanOut` | 222,148 | no blocked send, no starving receiver, no acceptable bid lost, every failure reported; the auction completes |
| `HookStage` | 45,500 | the payload holds the mutations of the successful hooks, the stage implements its promise and returns although handlers hang or panic |
| `FloorFetcher` | 798,500 | one job per URL, and a job is lost neither to a full pool nor to a full channel or a late tick (`JobsEndOnlyByRetries`), with more URLs than pool and channel hold |

Five runs expect a violation: the code does something else than a comment beside it says.
`PROJECT.json` quotes both sides under `findings`.

| Run | What TLC finds |
|---|---|
| `HookRejectionRecorded` | the metered engine returns a rejection without pushing the stage's outcome |
| `AdapterHeaders` | the header that is to determine a smaato bid's type never reaches the adapter |
| `UserSyncOptOut` | a `/setuid` after an opt-out stores an id in the opted-out cookie |
| `CookieSyncLimit` | `/cookie_sync` computes the account's limit and lists more syncs than it allows |
| `FloorFetcherStuck` | with one job more than pool and channel hold, the Fetcher goroutine spins on a job the pool refuses, the worker waits for it to read the channel, and auctions that miss the cache block |

Every module states its type invariant (`TypeOK`, `CachesTypeOK` and so on). Those of the modules
with proofs are theorems; any of them can be added to a configuration.

Some properties exempt what the code openly does otherwise. `HealthyImpIsAskedOrBlamed` exempts
the adapters that ask only for the first imp or the last of a placement, and asks for an error, not
for one that names the imp; `AskedOnce` exempts bluesea, which repeats the whole request;
`DeliveredAtMostOnce` the HTTP module, whose retry may repeat a payload that was taken;
`OnlyLateEventsVanish` that module without an endpoint, or dropped without a shutdown; and
`SeatKeysDescribeSeat` does not compare the keys of a winning seat that may send several bids with
the winner's.

### Met while modelling

Places where code and comments differ, and which no run is about:

* `exchange/src/gdpr.rs` looks for the vendors of a v2 string at bit 260, `gdpr/src/consent.rs` at
  bit 213, so the two find the same vendors only in strings written for each.
* `stored_requests/src/fetcher.rs:59` promises one error for each missing id; `HttpFetcher` reports an
  id that comes back as null and says nothing of one that is left out of the answer. Nulls are
  "treated as not-found errors" according to `exchange/src/stored_requests_http.rs:26`, whose
  `fetch_requests_async` returns `Ok` without them.
* `check_privacy_for_bidder` says that it blocks without a *valid* consent string
  (`exchange/src/privacy.rs:197`) and takes any non-empty one; `should_block_bidder_gdpr` wants one that
  parses. The auction's check lets the GDPR flag decide before the GPP sections, `get_gdpr_signal` the
  sections before the flag.
* An adpone error that its adapter calls non-fatal makes the exchange discard the bids
  (`AdapterNotes`, below).

### Further configurations

The directory has more configurations for the same modules, kept for reference.
`FanOutMore` and `HookStageMore` check additional properties on the instances of `FanOut` and
`HookStage`, and `StoredDataBatches` checks `StoredDataIsRecent` for calls of two ids of which one may
be cached (735,075 states); they pass. Six others show by a counterexample where a natural
expectation ends:

| Configuration | Counterexample |
|---|---|
| `HoldAuctionAdjusted` | an extended adjustment, applied after the floor check, delivers a bid below the floor |
| `FanOutSeatCurrency` | two bidders fill one seat in different currencies |
| `FanOutExtra` | a panicking bidder has no `adapterExtra` entry |
| `HookStageContext` | two hooks of one module in a group: one context is lost |
| `AdapterNotes` | an error that adpone calls non-fatal makes the exchange discard the bids |
| `FloorFetcherMaxAge` | an out-of-range max-age header is used |

## Bounds

* Adapters: requests of one to three imps in which every defect, every format and every
  missing request field occurs, so each reaction of a policy is met beside a sound imp; answers
  with every status class, currency form and type signal the policies tell apart. Chunks hold
  two imps instead of ten. Each call of a bidder is answered independently.
* Auctions: two imps, an adapter called twice, one called once under an alias, and a name
  without an adapter. Two calls suffice for a late one beside an answered one, two bidders
  for both orders of arrival, two bids on an imp for multi-bid and for equal prices.
* Hook engines: two requests through an auction of one bidder whose hooks may reject the request, the
  bidder or its response, and through single calls of the other engines, at a stage that may reject
  and one that may not; the library's call has two groups. Two modules: one returns a mutation and a
  context, rejects or times out, the other returns a bad mutation beside a good one, fails or panics.
  More requests add no new pair of racing steps.
* Services: four events, one large enough to fill a batch of two by its bytes, two that agma's
  filter refuses; one configuration refresh. Three logging tasks and a batch of two, so that a task fills the
  buffer while another flushes. Two overlapping fetches beside the loop, and five seconds:
  enough for an entry to expire, be refreshed late and expire again.
* Stored data: two ids, one of them on disk, two tasks, and three seconds with a lifetime of two and a
  timeout of one: enough for a late save to overwrite a newer entry, for a later call to be handed it
  and for the entry to expire.
* Privacy: two bidders with two vendors, three purposes, five configurations and seven requests, chosen
  so that every branch of every decision is taken both ways; from each, all withdrawals in all orders.
* User sync: three bidders to sync, so that an id which is live while two pixels overlap is one of
  three, one bidder without a URL and one denied; ids that live for two days in a cookie of three, and
  one disturbance from outside.
* Fan-out: two bidders, two requests, one stored response each. That gives the single inline
  request, parallel requests, stored responses with and without requests, and two bidders
  filling one seat (`b1` may use code `b2`). Responses contain an invalid and a nil bid, a
  static adjustment into a forbidden currency and a currency without a rate.
* Go hooks: groups of two and one. Two hooks are enough for a late answer to meet a rejection,
  two groups for an answer of an old group to meet the next.
* Go floors: one worker, a channel and a pool queue of one, and three URLs: one more than pool and
  channel hold, so both fill up and jobs wait in the refetch queue. Two retries allow one failure
  between successes.

`MaxOutside`, `MaxTime`, `LastTick` and `MaxRefreshes` are the bounds that the code does not have.

## Fairness

* `HoldAuction`, `HookEngines`: weak fairness of the auction or engine and of each task. The
  runtime polls every task, and tokio's and the HTTP client's timeouts end a call or a hook
  that does not answer. Panics and rejections are never forced, and nothing is assumed of the calls
  to Prebid Cache: `AuctionEnds` is satisfied by an auction that waits for them.
* `AnalyticsWorkers`: weak fairness of the worker's arms, its timer and its posts. Nobody is
  obliged to log, shut down, refresh or drop the module.
* `UserSync`: a page that stays asks again and again for every bidder, loads what it was told to, and its
  pixels are called and answered (strong fairness of asking, since it waits for the last round). This is
  an assumption about the page, not about the server; `Lose` and `Leave` are still possible, and days may
  pass at any pace.
* `AdaptedBidder`, `BatchingBackend`, `RefreshedCaches`, `StoredData`, `Consent`: none, their properties are safety.
* `BidderFanOut`: weak fairness of each bidder's goroutine and of the merging loop, of the
  deadline, and of a call once the deadline has passed, because HTTP requests carry the
  auction's context. Before the deadline a call may take any time.
* `HookStage`: weak fairness of the stage, of each `select` (its timer fires) and of closing
  `resp`. None of the handlers: a module may hang.
* `PriceFloorFetcher`: strong fairness of the sends and of the `select` cases, since Go serves
  blocked senders in order and picks ready cases at random; weak fairness of the pool, the
  download (its context has a timeout) and the clock.

Deadlock is not checked where the modelled activity ends: an auction, a bidder's task, the
services with their bounded clock and events.

## Proofs

| Theorem | States |
|---|---|
| `BidderFanOutProofs!TypeCorrect` | `Spec => []TypeOK` |
| `BidderFanOutProofs!SendsNeverBlock` | `Spec => []SendNeverBlocks` |
| `BidderFanOutProofs!ReceiversNeverStarve` | `Spec => []ReceiverNeverStarves` |
| `BidderFanOutProofs!WrapperIsFinal` | `Spec => SentIsFinal` |
| `BidderFanOutProofs!FailuresReported` | `Spec => []EveryFailureReported` |
| `BidderFanOutProofs!FledgeReachesAuction` | `Spec => []FledgePassedThrough` |
| `BidderDeliveryProofs!AcceptableBidsArrive` | `Spec => []NoBidLost` |
| `HookStageProofs!StageTypeCorrect` | `Spec => [](TypeOK /\ Places)` |
| `HookStageProofs!PayloadAlwaysMatches` | `Spec => []PayloadMatchesOutcomes` |
| `HookStageProofs!StageKeepsPromise` | `Spec => KeepsPromise`, the refinement of `HookStagePromise` |
| `ServicesProofs!CachesTypeCorrect` | `CachesSpec => []CachesTypeOK` |
| `ServicesProofs!StampsAreHonest` | `CachesSpec => []StampIsHonest` |
| `ServicesProofs!FloorsAreRecent` | `CachesSpec => []ServedFloorsAreRecent` |
| `ServicesProofs!RatesExpire` | `CachesSpec => []RatesExpireWithinOneUpdate` |
| `AnalyticsProofs!BatchingTypeCorrect` | `BatchingSpec => []BatchingTypeOK` |
| `AnalyticsProofs!EventsTakenOnce` | `BatchingSpec => []TakenOnce` |
| `AnalyticsProofs!BufferIsBounded` | `BatchingSpec => []OverflowIsOwed` |
| `HookEnginesProofs!TypeCorrect` | `Spec => []TypeOK` |
| `HookEnginesProofs!HooksAreCounted` | `Spec => []EveryHookIsCounted` |
| `HookEnginesProofs!RejectionsAreFinal` | `Spec => RejectionIsFinal` |
| `HookEnginesProofs!FoldsInOrder` | `Spec => []FoldIsInDeclarationOrder` |
| `HoldAuctionProofs!AuctionTyped` | `Spec => []TypeOK` |
| `HoldAuctionProofs!AnswersOnly` | `Spec => []SeatsAreAnswers` |
| `HoldAuctionProofs!DropsNothingBetter` | `Spec => []NoBetterBidDropped` |
| `HoldAuctionProofs!CacheHoldsWinner` | `Spec => []CachedBidIsWinner` |
| `HoldAuctionProofs!SeatKeysAreTheSeats` | `Spec => []SeatKeysDescribeSeat` |
| `HoldAuctionProofs!AuctionKeepsPromise` | `Spec => KeepsPromise`, the refinement of `AuctionPromise` |
| `AnalyticsProofs!BatchesAreBounded` | `AnalyticsSpec => []AnalyticsTypeOK` |
| `AnalyticsProofs!NothingIsDeliveredTwice` | `AnalyticsSpec => []DeliveredAtMostOnce` |
| `AnalyticsProofs!NothingIsLeftBehind` | `AnalyticsSpec => []StopsEmptyHanded` |
| `AnalyticsProofs!LossesAreTold` | `AnalyticsSpec => []OnlyLateEventsVanish` |
| `ServicesProofs!StoreTypeCorrect` | `StoreSpec => []StoreTypeOK` |
| `ServicesProofs!AnswersAreRecent` | `StoreSpec => []StoredDataIsRecent` |
| `ServicesProofs!ConsentTypeCorrect` | `ConsentSpec => []ConsentTypeOK` |
| `ServicesProofs!WithdrawalsOpenNoGate` | `ConsentSpec => WithdrawalOpensNoGate` |
| `PriceFloorFetcherProofs!FetcherTypeCorrect` | `Spec => []TypeOK` |
| `PriceFloorFetcherProofs!OneJobAlways` | `Spec => []OneJobPerURL` |
| `PriceFloorFetcherProofs!OnlyRetriesEndJobs` | `Spec => JobsEndOnlyByRetries` |

**BidderFanOut**, from `FanOutAssumption` (finite sets of bidders, requests and stored imps,
every bidder with imps or a stored response, constants of the right types). The invariant has
five layers: `TypeOK`; `CallInv(b)`, which accounts for every message `responseChannel` was made
for (in flight, queued, in hand or handled, adding up to `dataLen`, so there is room for each
call still running and no receive waits in vain); `WrapperInv`, the same for `chBids`;
`KeptInv`, which follows a failure or a FLEDGE reply from the call to the auction's result; and
`Delivers(b)`, for `NoBidLost`, which follows a bid: while its bidder works, an acceptable bid of a
reply is still pending or in its seat, and once the bidder has returned it is in the seat, whatever
the other bids of the seat did to the seat's currency.

**HookStage**, from `StageAssumption` (finitely many hooks, each in at most one group of a plan of any
length). Payload and outcomes are written at the end of a long way through goroutines and channels,
so neither property is inductive. `Places` says where a hook can be: not started, in its `select`, in
the channel of its group, among the collected responses, handled, or given up, and in one of them
only, so no response is handled twice and none in another group's turn. `Built` then relates
`newPayload` to the outcomes and to the payload of the last complete group: it holds each updated
hook once, and what it adds are hooks of the group at hand. For the refinement every step of
`executeStage` is shown to be a step of `HookStagePromise` or to change nothing a caller sees:
`NextGroup`, `ReturnReject` and `Return` are its three steps, and what `NextGroup` adds to the
payload is an order of some of the group's hooks.

**RefreshedCaches**, from `CachesAssumption` (ages and intervals are positive: zero means
"default" or "no check" in the code, and tokio refuses a zero interval; the loop is not one of
the callers). `ServedFloorsAreRecent` is not inductive, since it says nothing of calls under way.
`CachesInv` adds that an open call with a timeout is younger than that timeout (`OpenCalls`) and
its document younger than the call, that the stamp of a stored or served entry is at most a
timeout ahead of its document (`Honest`), and that what is served at this tick was fresh enough
when read (`ServedInTime`), or still held by moka where `cached` handed it out (`PeekedInTime`). For the rates, which only a failed update drops, it adds that the
loop's next tick is never overdue beyond a running call (`LoopIsDue`) and that rates past their
age are being looked at: an update is open or due (`RatesAreWatched`).

**BatchingBackend**, from `BatchingAssumption` (finitely many log tasks, none named like the
flusher or the closer, a batch of at least one). `BatchingInv` adds to `TakenOnce` where an event
can be (`Accounted`): a task that has yet to push is nowhere, and only a task that is posting
holds a batch. `OverflowIsOwed` is then preserved step by step: a push that makes the buffer
longer than the limit adds its own task to those that owe a flush.

**HookEngines**, from `HookAssumption` (a plan is a non-empty sequence of stages, each with a
name, groups of known modules and a stage to resume at; a hook that has returned is no longer running,
and its mutations are a sequence).
`EnginesInv` says where a request can be (`Placed`): at a stage of the plan, in one of its groups,
with no more tasks than the group has hooks, and with none where the stage has no hooks.
`RejectionIsFinal` then follows from the guards of the steps: only a task of the rejected group may
still end, which changes the entry of that task and nothing else, or the caller goes on with a new
call. For `FoldIsInDeclarationOrder` the invariant adds (`Ordered`) that nothing of a group is folded
while its hooks are spawned, that only hooks that are over have been folded, so no late result changes
a part already applied, and the places at which the payload is cut into the hooks' parts; a fold adds
one cut at the end. For `EveryHookIsCounted` it adds (`Counted`) the counters' types and the sum itself,
over the groups before and the folded part of this one: a fold adds one to the folded hooks and, unless
it rejects, at least one to the sum (`CountGrows`), and the end of a group moves the line between the
two parts without changing the set.

**HoldAuction**, from `AuctionAssumption` (bids are records of the fields the code reads; rates,
factors, limits and the number of requests are integers; a reply is a timeout, an error, bids or no
bid) and `BidderAssumption`. Any sets of bidders and requests, any bids, prices, rates, factors,
floors and limits. The first half is about the bids of one bidder, as sets of places in its answer:
`Before` orders them strictly and totally once each id is there once, so the k-th bid is the one with
k - 1 before it (`Enumerates`, `SortedFacts`); a bid that multi-bid cuts off has a full quota ahead of
it (`QuotaIsFull`), hence `DroppedWasBeaten`. No step of this argument needs induction over
sequences: positions are counted with cardinalities. The second half is the auction. No property is
inductive, since seats, keys and cache are read off `results` when it is complete. The invariant
`Inv` says who can have a task in which phase and where a non-bid comes from (`Phases`); that the kept
bids of each joined bidder stand in `results` as one block, in the order in which `KeptBids` returns
them, and a bidder that has not joined has none there (`Blocks`); and that the response is a function of `results`
(`Built`). `CachedBidIsWinner` follows because within a block a bid on an impression comes after the
better ones, so the first bid of the winning seat is the winner, and the extended adjustments, which
come in between, keep ids and places. For the refinement, `JoinOk` is the promise's `Collect`, since
a block is new to `results`; `BuildResponse` is `Announce`; the ways to refuse or answer early are
`Refuse`, and every other step changes nothing the promise sees.

**AnalyticsWorkers**, from `AnalyticsAssumption` (a sequence of events, a batch limit of at least
one). `StopsEmptyHanded` speaks only of stopped workers and `DeliveredAtMostOnce` only of the
intake. `AnalyticsInv` follows an event through the places it can be: every event that was taken
is queued, batched, posted or given up (`Covered`), and where nothing is retried it is in just one
of the queue, the batch, the posts and the intake, and there once (`Once`). `LateInv` is about losses
nobody is told of: behind a shutdown message, and while a worker flushes for one, the channel holds
only events logged after the call, since messages keep their order (`LateBox`, `LateCloser`), so what
a stopping worker throws away is late. `WorkerInv` says that
only a running worker has a queue or a batch, and that whoever receives has room for one more.
The `http` worker satisfies `Covered` and not `Once`: it repeats a payload the intake may have
taken.

**StoredData**, from `StoredDataAssumption` (types of the constants; any sets of ids and calls).
`StoredDataIsRecent` speaks of finished calls. `InTime` adds that a call under way is within its
timeout and that what it got was produced after it began, so that an entry was saved at most a timeout
after it was produced (`CacheInTime`), which is the only way in which a late answer can replace a newer
one, and a hit is that much older at most (`HitsAreInTime`). In `ComposedFetcher` only files are
cached (`OnlyFilesAreCached`).

**Consent**, from `ConsentAssumption` (purposes 1 and 2 exist, configurations and statements are well
formed). Every action makes the statements stricter in one order (`Stricter`), and each gate is
monotone in it, with one lemma per gate; the configuration stays.

**PriceFloorFetcher**, from `FetcherAssumption` (finitely many URLs; any pool, channel, period and
number of retries). A job passes through five places: the refetches in `configReceiver`, the
priority queue, the pool's queue, the running workers and those waiting to send. `Placed` sees each
place as a set of URLs and says that the five are disjoint, that each holds a URL once, that all of
them are within `fetchInProgress`, and that a worker sends only refetches, which is why a returning
job is not taken for a new one. Every step but a worker's last failure moves a URL from one place to
another (`Kept`), which is `JobsEndOnlyByRetries`.

Only model-checked, and why:

* all liveness properties (`AuctionCompletes`, `StageCompletes`, `FetchReturns`, `AuctionEnds`,
  `StagesEnd`, `ShutdownReturns`, `EveryEventLeaves`, `EventuallySynced`): fairness is beyond the
  prover;
* the properties of adapters, of `AdaptedBidder` (with its refinement of `BidderTask`) and of user
  sync: they rest on what folding and filtering of sequences compute, which would need induction
  over data;
* of the auction, that `KeptBids` is what the loops over `HashMap`s compute: the operators of
  `BidProcessing` say which bids stay and in which order, and the proofs are about these operators.

## Not modelled

* Stored data: `DatabaseFetcher`, `FetcherWithCache`, the errors of an answer, the cascade of
  `MultiFetcher`, the polling updater, accounts, categories and stored responses; the auction takes a
  stored response as given.
* Floor rules: matching by string keys. The auction takes each imp's floor as given. In
  `RefreshedCaches` a document has no content.
* Privacy: the decoders of TCF and GPP strings, which are functions of a text without state and whose
  counterpart, an encoder, the workspace does not have; the activity rules, of which the server has
  none when it starts; scrubbing of a request, writers of consent, `policy_enforcer.rs`, and the
  fetching of vendor lists.
* Endpoints other than user sync, configuration, metrics, OpenRTB types, utilities: parsing,
  static data and wiring without shared state. The choosers of the `usersync` crate, which no
  endpoint calls.
* Inside the auction: first-party data, supply chains, macros, debug output and analytics of the
  response.
* Two adapters registered under one name: each has its policy, which of them the registry keeps
  is not modelled.
* A clock that is set back; a cache at its capacity.
* Go: bidder health and throttling, the timeout notification, prices as numbers; bidder stages
  of several goroutines sharing a module's contexts, payloads mutated through pointers; the
  fetcher's `Stop`, a negative max-age, the content of floor files; and the components that
  `PROJECT.json` lists as not modelled.
