-------------------------- MODULE RefreshedCaches --------------------------
(***************************************************************************)
(* The caches of data fetched over HTTP, and how old what they serve can   *)
(* be: floors/src/fetcher.rs (FloorFetcher: fetch, cached, refresh(_all)), *)
(* exchange/src/floors.rs (FloorFetcher's cell, CachedFloorFetcher),       *)
(* currency/src/lib.rs (RateConverter) and config/src/sources/remote.rs    *)
(* (RemoteConfigSource).  One key; the clock counts whole seconds.         *)
(* The origin's document changes at every tick and is its time of writing. *)
(***************************************************************************)
EXTENDS Naturals, FiniteSets

CONSTANTS Fetchers,  \* concurrent calls that may fetch from the origin
          MaxAge,    \* max_age, time_to_live or stale_rates_threshold
          Timeout,   \* the HTTP client's timeout
          Interval,  \* fetch_interval / refresh_every of a background loop
          MaxTime    \* bound on the clock

VARIABLES cacheKind,  \* which of the caches
          now,        \* the clock
          entry,      \* the cached document: [doc, at], or Absent
          call,       \* fetcher -> [state, since, doc]
          served,     \* the document handed to a reader at this tick, or Absent
          peeked,     \* the document FloorFetcher::cached handed out at this tick, or Absent
          due         \* when the background loop's interval fires next

(* Zero means the default, for the floors fetcher, or no staleness check, for
   the rate converter, and tokio's interval refuses it. *)
ASSUME CachesAssumption ==
  /\ MaxAge \in Nat \ {0} /\ Interval \in Nat \ {0}
  /\ Timeout \in Nat /\ MaxTime \in Nat
  /\ "loop" \notin Fetchers

cacheVars == <<cacheKind, now, entry, call, served, peeked, due>>

Absent == [doc |-> MaxTime + 1, at |-> MaxTime + 1]
CacheKinds == {"floorFetcher", "cachedFloors", "cell", "rates", "remoteConfig"}
Loop == "loop"
Callers == Fetchers \cup {Loop}
Looping == cacheKind \in {"rates", "remoteConfig"}
(* RemoteConfigSource::new takes reqwest's default client, which has none. *)
HasTimeout == cacheKind # "remoteConfig"
Idle == [state |-> "idle", since |-> 0, doc |-> 0]
(* A request just sent; its start matters only to a timeout. *)
Sent == [state |-> "sent", since |-> IF HasTimeout THEN now ELSE 0, doc |-> 0]

CachesInit ==
  /\ cacheKind \in CacheKinds
  /\ now = 0
  /\ entry = IF cacheKind = "remoteConfig" THEN [doc |-> 0, at |-> 0] ELSE Absent
  /\ call = [f \in Callers |-> Idle]
  /\ served = Absent /\ peeked = Absent
  /\ due = IF cacheKind = "remoteConfig" THEN Interval ELSE 0

Age == now - entry.at

(* moka's time_to_live: the entry is not there any more.  FloorFetcher keeps it
   for twice max_age, CachedFloorFetcher for max_age. *)
Expired ==
  \/ cacheKind = "floorFetcher" /\ Age >= 2 * MaxAge
  \/ cacheKind = "cachedFloors" /\ Age >= MaxAge
Present == entry # Absent /\ ~Expired

(* A bug: the time to live is compared instead. *)
IsExpired == Age > 2 * MaxAge

(* is_stale: strictly older than max_age. *)
IsStale == Age > MaxAge

(* What answers a reader without going to the origin. *)
FreshHit ==
  /\ Present
  /\ cacheKind \in {"floorFetcher", "cell"} => ~IsStale

(* fetch, fetch_floor_data, get_rate, current: a read that the cache answers. *)
ReadCached ==
  /\ FreshHit /\ served' = entry
  /\ UNCHANGED <<cacheKind, now, entry, call, peeked, due>>

(* FloorFetcher::cached: the entry that moka still has, stale or not. *)
PeekCached ==
  /\ cacheKind = "floorFetcher" /\ Present /\ peeked' = entry
  /\ UNCHANGED <<cacheKind, now, entry, call, served, due>>

(* A fetch that misses, a refresh, a step of refresh_all, or an update or
   refresh_once that somebody calls sends its request. *)
SendFetch(f) ==
  /\ f \in Fetchers /\ call[f].state = "idle"
  /\ cacheKind = "cachedFloors" => ~FreshHit
  /\ call' = [call EXCEPT ![f] = Sent]
  /\ UNCHANGED <<cacheKind, now, entry, served, peeked, due>>

(* RateConverter::start and RemoteConfigSource::start: the interval fires when
   due, the rate converter's first tick at once, the remote source's skipped.
   Ticks missed during a slow fetch fire as soon as it ends. *)
LoopTick ==
  /\ Looping /\ call[Loop].state = "idle" /\ now >= due
  /\ due' = due + Interval
  /\ call' = [call EXCEPT ![Loop] = Sent]
  /\ UNCHANGED <<cacheKind, now, entry, served, peeked>>

(* The origin reads its document at some moment while the request is open. *)
OriginAnswers(f) ==
  /\ call[f].state = "sent"
  /\ call' = [call EXCEPT ![f] = [state |-> "answered", since |-> @.since, doc |-> now]]
  /\ UNCHANGED <<cacheKind, now, entry, served, peeked, due>>

(* The answer is parsed and stored; it is stamped when it is stored, not when
   the origin read it.  fetch returns what it stored. *)
StoreFetched(f) ==
  /\ call[f].state = "answered"
  /\ entry' = [doc |-> call[f].doc, at |-> now]
  /\ served' = IF cacheKind \in {"floorFetcher", "cachedFloors"} THEN entry' ELSE served
  /\ call' = [call EXCEPT ![f] = Idle]
  /\ UNCHANGED <<cacheKind, now, peeked, due>>

(* A bug: what is held is never looked at. *)
FailAndKeep(f) ==
  /\ call[f].state \in {"sent", "answered"}
  /\ call' = [call EXCEPT ![f] = Idle]
  /\ UNCHANGED <<cacheKind, now, entry, served, peeked, due>>

(* The fetch fails (transport, status, parse, timeout).  Only the rate converter
   then looks at the age of what it holds and drops stale rates; a reader of a
   stale floors entry gets the error. *)
FailFetch(f) ==
  /\ call[f].state \in {"sent", "answered"}
  /\ call' = [call EXCEPT ![f] = Idle]
  /\ entry' = IF cacheKind = "rates" /\ entry # Absent /\ IsStale THEN Absent ELSE entry
  /\ UNCHANGED <<cacheKind, now, served, peeked, due>>

(* CachedFloorFetcher::invalidate. *)
Invalidate ==
  /\ cacheKind = "cachedFloors" /\ entry' = Absent
  /\ UNCHANGED <<cacheKind, now, call, served, peeked, due>>

(* RemoteConfigSource::stop, or its drop: the loop is aborted where it waits. *)
StopLoop ==
  /\ cacheKind = "remoteConfig"
  /\ due' = MaxTime + 1 /\ call' = [call EXCEPT ![Loop] = Idle]
  /\ UNCHANGED <<cacheKind, now, entry, served, peeked>>

(* Time passes, but no request stays open past the client's timeout. *)
Tick ==
  /\ now < MaxTime /\ now' = now + 1
  /\ HasTimeout => \A f \in Callers : call[f].state # "idle" => now < call[f].since + Timeout
  /\ Looping /\ now >= due => call[Loop].state # "idle"
  /\ served' = Absent /\ peeked' = Absent
  /\ UNCHANGED <<cacheKind, entry, call, due>>

CachesNext ==
  \/ ReadCached \/ PeekCached \/ Tick \/ LoopTick \/ Invalidate \/ StopLoop
  \/ \E f \in Callers : SendFetch(f) \/ OriginAnswers(f) \/ StoreFetched(f) \/ FailFetch(f)

CachesSpec == CachesInit /\ [][CachesNext]_cacheVars

-----------------------------------------------------------------------------

(* Types: neither a document nor its stamp is from the future. *)
CachesTypeOK ==
  /\ cacheKind \in CacheKinds /\ now \in 0..MaxTime
  /\ entry = Absent \/ (entry.doc \in 0..now /\ entry.at \in 0..now)
  /\ \A f \in Callers : call[f].state \in {"idle", "sent", "answered"}

(* However concurrent fetches overtake each other, floors handed to a reader
   were current at the origin no longer ago than the maximum age plus one
   request timeout: an older answer stored late is stamped late, but cannot be
   older than its own request.  A reader of FloorFetcher::cached, which looks at
   no age, is bounded by the time to live instead, twice the maximum age. *)
ServedFloorsAreRecent ==
  cacheKind \in {"floorFetcher", "cachedFloors", "cell"} =>
    /\ served # Absent => now - served.doc <= MaxAge + Timeout
    /\ peeked # Absent => now - peeked.doc < 2 * MaxAge + Timeout

(* The stamp of an entry is never ahead of its document by more than a timeout,
   in any of the caches whose client has one. *)
StampIsHonest == HasTimeout /\ entry # Absent => entry.at - entry.doc <= Timeout

(* Rates are dropped only by a failed update, so stale ones may be served, but
   no longer than it takes the loop to fail once: one interval, one timeout. *)
RatesExpireWithinOneUpdate ==
  cacheKind = "rates" /\ served # Absent => now - served.at <= MaxAge + Interval + Timeout
=============================================================================
