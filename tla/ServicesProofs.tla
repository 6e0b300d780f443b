--------------------------- MODULE ServicesProofs ---------------------------
(***************************************************************************)
(* What the auction is handed by the services beside it: how old the data  *)
(* of the caches (RefreshedCaches) and of the stored requests (StoredData) *)
(* can be, and that no withdrawal of consent opens a gate (Consent).       *)
(***************************************************************************)
EXTENDS RefreshedCaches, StoredData, Consent, TLAPS

-----------------------------------------------------------------------------
(***************************************************************************)
(* RefreshedCaches: how old what the caches serve can be, for every number *)
(* of concurrent fetches and every age, timeout and interval.              *)
(***************************************************************************)

Docs == [doc : Nat, at : Nat]
FloorKinds == {"floorFetcher", "cachedFloors", "cell"}

(* The types the steps preserve. *)
Types ==
  /\ cacheKind \in CacheKinds
  /\ now \in Nat /\ now <= MaxTime
  /\ entry \in Docs /\ served \in Docs /\ due \in Nat
  /\ call \in [Callers -> [state : {"idle", "sent", "answered"}, since : Nat, doc : Nat]]

(* A document is stamped after it was read, and within a timeout of it. *)
Honest(d) ==
  d # Absent =>
    /\ d.doc <= d.at /\ d.at <= now
    /\ HasTimeout => d.at <= d.doc + Timeout

(* An open request is younger than the timeout, and its answer than it. *)
OpenCalls ==
  \A f \in Callers : call[f].state # "idle" =>
    /\ HasTimeout => call[f].since <= now /\ now <= call[f].since + Timeout
    /\ call[f].state = "answered" =>
         call[f].doc <= now /\ (HasTimeout => call[f].since <= call[f].doc)

(* The rate converter's loop is never more than one interval behind, and rates
   that outlive their age have an update due, or under way, that ends them. *)
LoopIsDue ==
  IF call[Loop].state = "idle" THEN due <= now + Interval ELSE due <= call[Loop].since + Interval

RatesAreWatched ==
  entry # Absent =>
    IF call[Loop].state = "idle"
    THEN /\ due <= entry.at + MaxAge + Interval
         /\ now <= due \/ now <= entry.at + MaxAge
    ELSE call[Loop].since <= entry.at + MaxAge + Interval

ServedInTime ==
  served # Absent =>
    /\ cacheKind \in FloorKinds => now <= served.at + MaxAge
    /\ cacheKind = "rates" => now <= served.at + MaxAge + Interval + Timeout

CachesInv ==
  /\ Types /\ Honest(entry) /\ Honest(served) /\ OpenCalls /\ ServedInTime
  /\ cacheKind = "rates" => LoopIsDue /\ RatesAreWatched

-----------------------------------------------------------------------------
(* The invariant's parts about documents, calls and the loop hold at the start. *)
LEMMA InitInv == CachesInit => CachesInv
  BY CachesAssumption
  DEF CachesInit, CachesInv, Types, Honest, OpenCalls, ServedInTime, LoopIsDue, RatesAreWatched, Docs, CacheKinds, FloorKinds, Callers, Loop, HasTimeout, Idle, Absent

(* A read hands out what the cache holds, which FreshHit found young enough. *)
LEMMA ReadStep == CachesInv /\ ReadCached => CachesInv'
<1> SUFFICES ASSUME CachesInv, ReadCached PROVE CachesInv'
  OBVIOUS
<1>1. UNCHANGED <<cacheKind, now, entry, call, due>> /\ served' = entry /\ entry # Absent
  BY DEF ReadCached, FreshHit, Present
<1>2. Types'
  BY <1>1 DEF CachesInv, Types, Docs
<1>3. Honest(entry)' /\ Honest(served)'
  BY <1>1 DEF CachesInv, Honest, HasTimeout, Absent
<1>4. OpenCalls'
  BY <1>1 DEF CachesInv, OpenCalls, HasTimeout
<1>5. ServedInTime'
  <2>1. cacheKind \in FloorKinds => now <= entry.at + MaxAge
    BY CachesAssumption DEF CachesInv, Types, Docs, ReadCached, FreshHit, Present, Expired, IsStale, Age, FloorKinds
  <2>2. cacheKind = "rates" => now <= entry.at + MaxAge + Interval + Timeout
    BY <1>1, CachesAssumption
    DEF CachesInv, Types, Docs, RatesAreWatched, OpenCalls, HasTimeout, Callers, Loop
  <2> QED
    BY <1>1, <2>1, <2>2 DEF ServedInTime
<1>6. (cacheKind = "rates" => LoopIsDue /\ RatesAreWatched)'
  BY <1>1 DEF CachesInv, LoopIsDue, RatesAreWatched, Absent
<1> QED
  BY <1>2, <1>3, <1>4, <1>5, <1>6 DEF CachesInv

(* Time passes only while the invariant's bounds leave room for it. *)
LEMMA TickStep == CachesInv /\ Tick => CachesInv'
<1> SUFFICES ASSUME CachesInv, Tick PROVE CachesInv'
  OBVIOUS
<1>1. /\ UNCHANGED <<cacheKind, entry, call, due>> /\ served' = Absent
      /\ now < MaxTime /\ now' = now + 1
  BY DEF Tick
<1>2. Types'
  BY <1>1, CachesAssumption DEF CachesInv, Types, Docs, Absent
<1>3. Honest(entry)' /\ Honest(served)'
  BY <1>1 DEF CachesInv, Types, Docs, Honest, HasTimeout, Absent
<1>4. OpenCalls'
  BY <1>1, CachesAssumption DEF CachesInv, Types, OpenCalls, HasTimeout, Tick
<1>5. ServedInTime'
  BY <1>1 DEF ServedInTime, Absent
<1>6. (cacheKind = "rates" => LoopIsDue /\ RatesAreWatched)'
  <2> SUFFICES ASSUME cacheKind = "rates" PROVE LoopIsDue' /\ RatesAreWatched'
    BY <1>1
  <2>1. call[Loop].state = "idle" => now < due
    BY DEF Tick, Looping, CachesInv, Types
  <2>2. call[Loop] \in [state : {"idle", "sent", "answered"}, since : Nat, doc : Nat]
    BY DEF CachesInv, Types, Callers
  <2> QED
    BY <1>1, <2>1, <2>2, CachesAssumption DEF CachesInv, Types, Docs, LoopIsDue, RatesAreWatched, Absent
<1> QED
  BY <1>2, <1>3, <1>4, <1>5, <1>6 DEF CachesInv

(* Whoever sends a request does so now. *)
LEMMA SendStep == ASSUME CachesInv, NEW f \in Callers, SendFetch(f) PROVE CachesInv'
<1>1. /\ UNCHANGED <<cacheKind, now, entry, served, due>> /\ call' = [call EXCEPT ![f] = Sent]
      /\ f # Loop
  BY CachesAssumption DEF SendFetch, Loop
<1>2. call'[Loop] = call[Loop]
  BY <1>1 DEF CachesInv, Types, Callers
<1>3. Types'
  BY <1>1 DEF CachesInv, Types, Sent
<1>4. Honest(entry)' /\ Honest(served)' /\ ServedInTime'
  BY <1>1 DEF CachesInv, Honest, ServedInTime, HasTimeout, Absent
<1>5. OpenCalls'
  BY <1>1, CachesAssumption DEF CachesInv, Types, OpenCalls, HasTimeout, Sent
<1>6. (cacheKind = "rates" => LoopIsDue /\ RatesAreWatched)'
  BY <1>1, <1>2 DEF CachesInv, LoopIsDue, RatesAreWatched, Absent
<1> QED
  BY <1>3, <1>4, <1>5, <1>6 DEF CachesInv

(* The loop sends when it is due, which was before the rates' time was up. *)
LEMMA LoopStep == ASSUME CachesInv, LoopTick PROVE CachesInv'
<1>1. /\ UNCHANGED <<cacheKind, now, entry, served>> /\ call' = [call EXCEPT ![Loop] = Sent]
      /\ call[Loop].state = "idle" /\ now >= due /\ due' = due + Interval
  BY DEF LoopTick
<1>2. call'[Loop] = Sent
  BY <1>1 DEF CachesInv, Types, Callers
<1>3. Types'
  <2>1. due' \in Nat
    BY <1>1, CachesAssumption DEF CachesInv, Types
  <2> QED
    BY <1>1, <2>1 DEF CachesInv, Types, Sent
<1>4. Honest(entry)' /\ Honest(served)' /\ ServedInTime'
  BY <1>1 DEF CachesInv, Honest, ServedInTime, HasTimeout, Absent
<1>5. OpenCalls'
  BY <1>1, CachesAssumption DEF CachesInv, Types, OpenCalls, HasTimeout, Sent
<1>6. (cacheKind = "rates" => LoopIsDue /\ RatesAreWatched)'
  <2> SUFFICES ASSUME cacheKind = "rates" PROVE LoopIsDue' /\ RatesAreWatched'
    BY <1>1
  <2>1. call'[Loop].state = "sent" /\ call'[Loop].since = now
    BY <1>2 DEF Sent, HasTimeout
  <2> QED
    BY <1>1, <2>1, CachesAssumption DEF CachesInv, Types, Docs, LoopIsDue, RatesAreWatched, Absent
<1> QED
  BY <1>3, <1>4, <1>5, <1>6 DEF CachesInv

(* The origin's answer is as recent as the request allows. *)
LEMMA AnswerStep == ASSUME CachesInv, NEW f \in Callers, OriginAnswers(f) PROVE CachesInv'
<1>1. /\ UNCHANGED <<cacheKind, now, entry, served, due>> /\ call[f].state = "sent"
      /\ call' = [call EXCEPT ![f] = [state |-> "answered", since |-> @.since, doc |-> now]]
  BY DEF OriginAnswers
<1>2. call'[Loop].since = call[Loop].since /\ (call'[Loop].state = "idle" <=> call[Loop].state = "idle")
  BY <1>1 DEF CachesInv, Types, Callers
<1>3. Types'
  BY <1>1 DEF CachesInv, Types
<1>4. Honest(entry)' /\ Honest(served)' /\ ServedInTime'
  BY <1>1 DEF CachesInv, Honest, ServedInTime, HasTimeout, Absent
<1>5. OpenCalls'
  BY <1>1, CachesAssumption DEF CachesInv, Types, OpenCalls, HasTimeout
<1>6. (cacheKind = "rates" => LoopIsDue /\ RatesAreWatched)'
  BY <1>1, <1>2 DEF CachesInv, LoopIsDue, RatesAreWatched, Absent
<1> QED
  BY <1>3, <1>4, <1>5, <1>6 DEF CachesInv

(* What is stored is stamped now, and was read while its request was open. *)
LEMMA StoreStep == ASSUME CachesInv, NEW f \in Callers, StoreFetched(f) PROVE CachesInv'
<1>1. /\ UNCHANGED <<cacheKind, now, due>> /\ call[f].state = "answered"
      /\ entry' = [doc |-> call[f].doc, at |-> now] /\ call' = [call EXCEPT ![f] = Idle]
      /\ served' = entry' \/ served' = served
  BY DEF StoreFetched
<1>2. Types'
  BY <1>1 DEF CachesInv, Types, Docs, Idle
<1>3. Honest(entry)'
  BY <1>1, CachesAssumption DEF CachesInv, Types, OpenCalls, Honest, HasTimeout, Absent
<1>4. Honest(served)' /\ ServedInTime'
  <2>1. CASE served' = served
    BY <1>1, <2>1 DEF CachesInv, Honest, ServedInTime, HasTimeout, Absent
  <2>2. CASE served' = entry'
    <3>1. Honest(served)'
      BY <1>1, <1>3, <2>2 DEF Honest, HasTimeout, Absent
    <3>2. ServedInTime'
      BY <1>1, <2>2, CachesAssumption DEF CachesInv, Types, ServedInTime, Absent
    <3> QED
      BY <3>1, <3>2
  <2> QED
    BY <1>1, <2>1, <2>2
<1>5. OpenCalls'
  BY <1>1 DEF CachesInv, Types, OpenCalls, HasTimeout, Idle
<1>6. (cacheKind = "rates" => LoopIsDue /\ RatesAreWatched)'
  <2> SUFFICES ASSUME cacheKind = "rates" PROVE LoopIsDue' /\ RatesAreWatched'
    BY <1>1
  <2>1. Loop \in Callers /\ call'[Loop] = IF f = Loop THEN Idle ELSE call[Loop]
    BY <1>1 DEF CachesInv, Types, Callers
  <2>2. call[Loop].state # "idle" => call[Loop].since <= now
    BY <2>1 DEF CachesInv, OpenCalls, HasTimeout
  <2>3. due <= now + Interval
    BY <2>1, <2>2, CachesAssumption DEF CachesInv, Types, LoopIsDue
  <2>4. LoopIsDue'
    BY <1>1, <2>1, <2>3 DEF CachesInv, LoopIsDue, Idle
  <2>5. RatesAreWatched'
    BY <1>1, <2>1, <2>2, <2>3, CachesAssumption DEF CachesInv, Types, RatesAreWatched, Idle, Absent
  <2> QED
    BY <2>4, <2>5
<1> QED
  BY <1>2, <1>3, <1>4, <1>5, <1>6 DEF CachesInv

(* A failed fetch leaves the entry or drops it; the loop's leaves no rates that
   are too old for the next one. *)
LEMMA FailStep == ASSUME CachesInv, NEW f \in Callers, FailFetch(f) PROVE CachesInv'
<1>1. /\ UNCHANGED <<cacheKind, now, served, due>> /\ call[f].state # "idle"
      /\ call' = [call EXCEPT ![f] = Idle]
      /\ entry' = IF cacheKind = "rates" /\ entry # Absent /\ IsStale THEN Absent ELSE entry
  BY DEF FailFetch
<1>2. Types'
  BY <1>1, CachesAssumption DEF CachesInv, Types, Docs, Idle, Absent
<1>3. Honest(entry)' /\ Honest(served)' /\ ServedInTime'
  BY <1>1 DEF CachesInv, Honest, ServedInTime, HasTimeout, Absent
<1>4. OpenCalls'
  BY <1>1 DEF CachesInv, Types, OpenCalls, HasTimeout, Idle
<1>5. (cacheKind = "rates" => LoopIsDue /\ RatesAreWatched)'
  <2> SUFFICES ASSUME cacheKind = "rates" PROVE LoopIsDue' /\ RatesAreWatched'
    BY <1>1
  <2>1. Loop \in Callers /\ call'[Loop] = IF f = Loop THEN Idle ELSE call[Loop]
    BY <1>1 DEF CachesInv, Types, Callers
  <2>2. call[Loop].state # "idle" => call[Loop].since <= now
    BY <2>1 DEF CachesInv, OpenCalls, HasTimeout
  <2>3. due <= now + Interval
    BY <2>1, <2>2, CachesAssumption DEF CachesInv, Types, LoopIsDue
  <2>4. LoopIsDue'
    BY <1>1, <2>1, <2>3 DEF CachesInv, LoopIsDue, Idle
  <2>5. RatesAreWatched'
    <3>1. CASE entry' = Absent
      BY <3>1 DEF RatesAreWatched, Absent
    <3>2. CASE entry' # Absent
      <4>1. entry' = entry /\ entry # Absent /\ now <= entry.at + MaxAge
        BY <1>1, <3>2, CachesAssumption DEF CachesInv, Types, Docs, IsStale, Age
      <4> QED
        BY <1>1, <2>1, <2>3, <4>1, CachesAssumption DEF CachesInv, Types, Docs, RatesAreWatched, Idle, Absent
    <3> QED
      BY <3>1, <3>2
  <2> QED
    BY <2>4, <2>5
<1> QED
  BY <1>2, <1>3, <1>4, <1>5 DEF CachesInv

(* An invalidation empties the cache; stopping the remote configuration's loop
   touches no cache with a bound. *)
LEMMA InvalidateStep == ASSUME CachesInv, Invalidate PROVE CachesInv'
<1>1. /\ UNCHANGED <<cacheKind, now, call, served, due>> /\ entry' = Absent
      /\ cacheKind = "cachedFloors"
  BY DEF Invalidate
<1>2. Types'
  BY <1>1, CachesAssumption DEF CachesInv, Types, Docs, Absent
<1>3. Honest(entry)' /\ Honest(served)' /\ ServedInTime' /\ OpenCalls'
  BY <1>1 DEF CachesInv, Honest, ServedInTime, OpenCalls, HasTimeout, Absent
<1> QED
  BY <1>1, <1>2, <1>3 DEF CachesInv

LEMMA StopStep == ASSUME CachesInv, StopLoop PROVE CachesInv'
<1>1. /\ UNCHANGED <<cacheKind, now, entry, served>> /\ cacheKind = "remoteConfig"
      /\ due' = MaxTime + 1 /\ call' = [call EXCEPT ![Loop] = Idle]
  BY DEF StopLoop
<1>2. Types'
  <2>1. due' \in Nat
    BY <1>1, CachesAssumption
  <2> QED
    BY Zenon, <1>1, <2>1 DEF CachesInv, Types, Idle
<1>3. Honest(entry)' /\ Honest(served)' /\ ServedInTime'
  BY <1>1 DEF CachesInv, Honest, ServedInTime, HasTimeout, Absent
<1>4. OpenCalls'
  BY <1>1 DEF CachesInv, Types, OpenCalls, HasTimeout, Idle
<1> QED
  BY <1>1, <1>2, <1>3, <1>4 DEF CachesInv

(* FloorFetcher::cached touches nothing that the invariant speaks of. *)
LEMMA StutterStep == CachesInv /\ UNCHANGED <<cacheKind, now, entry, call, served, due>> => CachesInv'
  BY DEF CachesInv, Types, Honest, OpenCalls, ServedInTime, LoopIsDue,
         RatesAreWatched, HasTimeout, Absent

(* The invariant is inductive. *)
LEMMA CachesInvariant == CachesSpec => []CachesInv
<1>0. PeekCached \/ UNCHANGED cacheVars => UNCHANGED <<cacheKind, now, entry, call, served, due>>
  BY DEF PeekCached, cacheVars
<1>1. CachesInv /\ [CachesNext]_cacheVars => CachesInv'
  BY <1>0, ReadStep, TickStep, LoopStep, InvalidateStep, StopStep, SendStep, AnswerStep, StoreStep,
     FailStep, StutterStep
  DEF CachesNext
<1> QED
  BY InitInv, <1>1, PTL DEF CachesSpec

-----------------------------------------------------------------------------
(* No document and no stamp in any of the caches is from the future. *)
THEOREM CachesTypeCorrect == CachesSpec => []CachesTypeOK
<1>1. CachesInv => CachesTypeOK
  BY CachesAssumption DEF CachesInv, CachesTypeOK, Types, Docs, Honest, Absent
<1> QED
  BY CachesInvariant, <1>1, PTL

(* store and insert stamp an entry no later than a timeout after its document
   was read, however many fetches overtake each other. *)
THEOREM StampsAreHonest == CachesSpec => []StampIsHonest
<1>1. CachesInv => StampIsHonest
  BY CachesAssumption DEF CachesInv, StampIsHonest, Types, Docs, Honest
<1> QED
  BY CachesInvariant, <1>1, PTL

(* What FloorFetcher::cached hands out is within the time to live. *)
PeekedInTime ==
  peeked # Absent =>
    /\ cacheKind = "floorFetcher" /\ peeked \in Docs
    /\ peeked.at <= peeked.doc + Timeout /\ now < peeked.at + 2 * MaxAge

LEMMA PeekStep == CachesInv /\ PeekedInTime /\ [CachesNext]_cacheVars => PeekedInTime'
<1> SUFFICES ASSUME CachesInv, PeekedInTime, [CachesNext]_cacheVars PROVE PeekedInTime'
  OBVIOUS
<1>1. CASE PeekCached
  <2>1. /\ cacheKind = "floorFetcher" /\ entry # Absent /\ ~Expired
        /\ UNCHANGED <<cacheKind, now>> /\ peeked' = entry
    BY <1>1 DEF PeekCached, Present
  <2>2. entry \in Docs /\ now \in Nat /\ entry.at <= entry.doc + Timeout
    BY <2>1 DEF CachesInv, Types, Honest, HasTimeout
  <2>3. now < entry.at + 2 * MaxAge
    BY <2>1, <2>2, CachesAssumption DEF Expired, Age, Docs
  <2> QED
    BY <2>1, <2>2, <2>3 DEF PeekedInTime
<1>2. CASE Tick
  BY <1>2 DEF Tick, PeekedInTime, Absent
<1>3. CASE UNCHANGED <<cacheKind, now, peeked>>
  BY <1>3 DEF PeekedInTime, Absent
<1>4. PeekCached \/ Tick \/ UNCHANGED <<cacheKind, now, peeked>>
  BY DEF CachesNext, cacheVars, ReadCached, LoopTick, Invalidate, StopLoop, SendFetch, OriginAnswers,
         StoreFetched, FailFetch
<1> QED
  BY <1>1, <1>2, <1>3, <1>4

(* The floors fetchers never serve floors the origin replaced longer ago than
   the maximum age and a timeout, and FloorFetcher::cached none that it replaced
   longer ago than the time to live and a timeout. *)
THEOREM FloorsAreRecent == CachesSpec => []ServedFloorsAreRecent
<1>1. CachesInit => PeekedInTime
  BY DEF CachesInit, PeekedInTime
<1>2. CachesInv /\ PeekedInTime => ServedFloorsAreRecent
  <2> SUFFICES ASSUME CachesInv, PeekedInTime PROVE ServedFloorsAreRecent
    OBVIOUS
  <2>1. cacheKind \in FloorKinds /\ served # Absent => now - served.doc <= MaxAge + Timeout
    BY CachesAssumption
    DEF CachesInv, Types, Docs, Honest, HasTimeout, ServedInTime, FloorKinds
  <2>2. peeked # Absent => now - peeked.doc < 2 * MaxAge + Timeout
    BY CachesAssumption DEF CachesInv, Types, Docs, PeekedInTime
  <2> QED
    BY <2>1, <2>2 DEF ServedFloorsAreRecent, FloorKinds
<1> QED
  BY CachesInvariant, <1>1, PeekStep, <1>2, PTL DEF CachesSpec

(* The rate converter serves no rates older than their age, an interval of its
   loop and a timeout, although only a failed update ever drops them. *)
THEOREM RatesExpire == CachesSpec => []RatesExpireWithinOneUpdate
<1>1. CachesInv => RatesExpireWithinOneUpdate
  BY CachesAssumption DEF CachesInv, RatesExpireWithinOneUpdate, Types, Docs, ServedInTime
<1> QED
  BY CachesInvariant, <1>1, PTL

-----------------------------------------------------------------------------
(***************************************************************************)
(* StoredData, for any number of ids and concurrent calls, any lists of    *)
(* ids, any TTL and any timeout: how old the data of an answer can be.     *)
(***************************************************************************)

\* What makes StoredDataIsRecent inductive.  A call that is not over is within
\* its timeout and read its answer after it began, so that what it saves was
\* produced at most one timeout before.
CallInTime(a, t) ==
    /\ a.since <= t
    /\ a.phase \in {"asking", "reading", "saving"} => t <= a.since + FetchTimeout
    /\ a.phase \in {"reading", "saving", "done"} /\ a.got # {} => a.since <= a.readAt
    /\ a.todo \subseteq a.got /\ (a.phase # "saving" => a.todo = {})

CacheInTime == \A id \in stored : savedAt[id] <= madeAt[id] + FetchTimeout
HitsInTime(a) == \A id \in a.hits : a.since < a.made[id] + StoreTtl + FetchTimeout

InTime == \A c \in Askers : CallInTime(asker[c], clock)
HitsAreInTime == layer = "cached" => CacheInTime /\ \A c \in Askers : HitsInTime(asker[c])
OnlyFilesAreCached ==
    layer = "composed" => stored \subseteq Files /\ \A c \in Askers : asker[c].hits \subseteq Files /\ asker[c].todo = {}

-----------------------------------------------------------------------------
(* What one step does to the calls: it replaces the record of one of them. *)
LEMMA OnlyOneCall ==
    ASSUME StoreTypeOK, NEW c \in Askers, NEW r, asker' = [asker EXCEPT ![c] = r]
    PROVE  asker'[c] = r /\ \A d \in Askers \ {c} : asker'[d] = asker[d]
BY DEF StoreTypeOK

(* The record of a call that begins.                                       *)
LEMMA BeginTyped ==
    ASSUME clock \in Nat, NEW I \in SUBSET Ids, NEW hits \in SUBSET Ids, NEW made \in [Ids -> Nat]
    PROVE  Begin(I, hits, made) \in Asker
<1>1. [id \in Ids |-> IF id \in hits THEN made[id] ELSE 0] \in [Ids -> Nat] OBVIOUS
<1>. QED BY <1>1 DEF Begin, Asker

(* The steps of a call, and what each does to its record.                  *)
LEMMA ReadsFields ==
    ASSUME StoreTypeOK, NEW c \in Askers, OriginReads(c)
    PROVE  /\ asker' \in [Askers -> Asker]
           /\ \A d \in Askers \ {c} : asker'[d] = asker[d]
           /\ asker[c].phase = "asking" /\ asker'[c].phase = "reading"
           /\ asker'[c].since = asker[c].since /\ asker'[c].hits = asker[c].hits
           /\ asker'[c].made = asker[c].made /\ asker'[c].todo = asker[c].todo /\ asker'[c].readAt = clock
<1>1. PICK has \in SUBSET Ids :
        asker' = [asker EXCEPT ![c].phase = "reading", ![c].got = has, ![c].readAt = clock]
  BY DEF OriginReads
<1>2. asker \in [Askers -> Asker] /\ asker[c] \in Asker /\ clock \in Nat BY DEF StoreTypeOK
<1>3. asker' = [asker EXCEPT ![c] = [asker[c] EXCEPT !.phase = "reading", !.got = has, !.readAt = clock]]
  BY <1>1, <1>2
<1>4. PICK a : a = [asker[c] EXCEPT !.phase = "reading", !.got = has, !.readAt = clock] OBVIOUS
<1>5. a \in Asker BY <1>2, <1>4 DEF Asker
<1>6. /\ a.phase = "reading" /\ a.since = asker[c].since /\ a.hits = asker[c].hits
      /\ a.made = asker[c].made /\ a.todo = asker[c].todo /\ a.readAt = clock
  BY <1>2, <1>4 DEF Asker
<1>7. asker' = [asker EXCEPT ![c] = a] BY <1>3, <1>4
<1>. QED BY <1>2, <1>5, <1>6, <1>7 DEF OriginReads

LEMMA FailsFields ==
    ASSUME StoreTypeOK, NEW c \in Askers, OriginFails(c)
    PROVE  /\ asker' \in [Askers -> Asker]
           /\ \A d \in Askers \ {c} : asker'[d] = asker[d]
           /\ asker[c].phase \in {"asking", "reading"} /\ asker'[c].phase = "done"
           /\ asker'[c].since = asker[c].since /\ asker'[c].hits = asker[c].hits
           /\ asker'[c].made = asker[c].made /\ asker'[c].todo = asker[c].todo /\ asker'[c].got = {}
<1>1. asker \in [Askers -> Asker] /\ asker[c] \in Asker BY DEF StoreTypeOK
<1>2. PICK a : a = [asker[c] EXCEPT !.phase = "done", !.got = {}] OBVIOUS
<1>3. a \in Asker BY <1>1, <1>2 DEF Asker
<1>4. /\ a.phase = "done" /\ a.since = asker[c].since /\ a.hits = asker[c].hits
      /\ a.made = asker[c].made /\ a.todo = asker[c].todo /\ a.got = {}
  BY <1>1, <1>2 DEF Asker
<1>5. asker' = [asker EXCEPT ![c] = a] BY <1>1, <1>2 DEF OriginFails
<1>. QED BY <1>1, <1>3, <1>4, <1>5 DEF OriginFails

LEMMA SavingFields ==
    ASSUME StoreTypeOK, NEW c \in Askers, NEW todo \in SUBSET Ids, asker' = Saving(c, todo)
    PROVE  /\ asker' \in [Askers -> Asker]
           /\ \A d \in Askers \ {c} : asker'[d] = asker[d]
           /\ asker'[c].phase \in {"saving", "done"} /\ asker'[c].todo = todo /\ (asker'[c].phase = "done" => todo = {})
           /\ asker'[c].since = asker[c].since /\ asker'[c].hits = asker[c].hits /\ asker'[c].made = asker[c].made
           /\ asker'[c].got = asker[c].got /\ asker'[c].readAt = asker[c].readAt
<1>1. asker \in [Askers -> Asker] /\ asker[c] \in Asker BY DEF StoreTypeOK
<1>2. PICK phase \in {"saving", "done"} : phase = IF todo = {} THEN "done" ELSE "saving" OBVIOUS
<1>3. PICK a : a = [asker[c] EXCEPT !.phase = phase, !.todo = todo] OBVIOUS
<1>4. a \in Asker BY <1>1, <1>2, <1>3 DEF Asker
<1>5. /\ a.phase = phase /\ a.todo = todo /\ a.since = asker[c].since /\ a.hits = asker[c].hits
      /\ a.made = asker[c].made /\ a.got = asker[c].got /\ a.readAt = asker[c].readAt
  BY <1>1, <1>3 DEF Asker
<1>6. asker' = [asker EXCEPT ![c] = a] BY <1>1, <1>2, <1>3 DEF Saving
<1>. QED BY <1>1, <1>2, <1>4, <1>5, <1>6

\* What Receive and SaveOne leave to be saved, and what SaveOne saves.
LEMMA ReceiveSaves ==
    ASSUME StoreTypeOK, NEW c \in Askers, Receive(c)
    PROVE  \E todo \in SUBSET Ids :
             /\ asker' = Saving(c, todo) /\ todo \subseteq asker[c].got /\ (layer = "composed" => todo = {})
             /\ asker[c].phase = "reading"
<1>1. asker[c] \in Asker BY DEF StoreTypeOK
<1>2. asker[c].got \in SUBSET Ids BY <1>1 DEF Asker
<1>3. CASE layer = "cached" BY <1>2, <1>3 DEF Receive
<1>4. CASE layer # "cached" BY <1>4 DEF Receive
<1>. QED BY <1>3, <1>4

LEMMA SaveOneSaves ==
    ASSUME StoreTypeOK, NEW c \in Askers, SaveOne(c)
    PROVE  \E id \in asker[c].todo :
             /\ id \in Ids /\ asker[c].todo \ {id} \in SUBSET Ids /\ asker[c].readAt \in Nat
             /\ stored' = stored \cup {id}
             /\ savedAt' = [savedAt EXCEPT ![id] = clock]
             /\ madeAt' = [madeAt EXCEPT ![id] = asker[c].readAt]
             /\ asker' = Saving(c, asker[c].todo \ {id})
<1>1. asker[c] \in Asker BY DEF StoreTypeOK
<1>2. asker[c].todo \in SUBSET Ids /\ asker[c].readAt \in Nat BY <1>1 DEF Asker
<1>. QED BY <1>2 DEF SaveOne

\* A call that begins through ComposedFetcher.
LEMMA ComposedBegins ==
    ASSUME StoreTypeOK, NEW c \in Askers, NEW id \in Ids, AskComposed(c, id)
    PROVE  /\ savedAt' \in [Ids -> Nat] /\ madeAt' \in [Ids -> Nat]
           /\ stored' = stored \/ (stored' = stored \cup {id} /\ id \in Files)
           /\ \E hits \in SUBSET {id} :
                /\ asker' = [asker EXCEPT ![c] = Begin({id}, hits, madeAt')]
                /\ hits \subseteq stored \cup Files
<1>. DEFINE filed == ~Fresh(id) /\ id \in Files
<1>1. /\ stored' = IF filed THEN stored \cup {id} ELSE stored
      /\ savedAt' = [savedAt EXCEPT ![id] = IF filed THEN clock ELSE @]
      /\ madeAt' = [madeAt EXCEPT ![id] = IF filed THEN 0 ELSE @]
      /\ asker' = [asker EXCEPT ![c] = Begin({id}, IF Fresh(id) \/ filed THEN {id} ELSE {}, madeAt')]
  BY DEF AskComposed
<1>2. Fresh(id) => id \in stored BY DEF Fresh
<1>3. savedAt' \in [Ids -> Nat] /\ madeAt' \in [Ids -> Nat] BY <1>1 DEF StoreTypeOK
<1>4. CASE Fresh(id) \/ filed
  <2>1. asker' = [asker EXCEPT ![c] = Begin({id}, {id}, madeAt')] BY <1>1, <1>4
  <2>2. {id} \subseteq stored \cup Files BY <1>2, <1>4
  <2>. QED BY Zenon, <1>1, <1>3, <2>1, <2>2
<1>5. CASE ~(Fresh(id) \/ filed)
  <2>1. asker' = [asker EXCEPT ![c] = Begin({id}, {}, madeAt')] BY <1>1, <1>5
  <2>2. stored' = stored BY <1>1, <1>5
  <2>3. {} \in SUBSET {id} /\ {} \subseteq stored \cup Files OBVIOUS
  <2>. QED BY Zenon, <1>3, <2>1, <2>2, <2>3
<1>. QED BY <1>4, <1>5

(* Every value stays in its set. *)
THEOREM StoreTypeCorrect == StoreSpec => []StoreTypeOK
<1>0. NoCall \in Asker
  <2>1. [id \in Ids |-> 0] \in [Ids -> Nat] OBVIOUS
  <2>. QED BY <2>1 DEF NoCall, Asker
<1>1. StoreInit => StoreTypeOK BY <1>0 DEF StoreInit, StoreTypeOK
<1>2. StoreTypeOK /\ [StoreNext]_storeVars => StoreTypeOK'
  <2>. SUFFICES ASSUME StoreTypeOK, [StoreNext]_storeVars PROVE StoreTypeOK' OBVIOUS
  <2>0. clock \in Nat /\ savedAt \in [Ids -> Nat] /\ madeAt \in [Ids -> Nat] BY DEF StoreTypeOK
  <2>1. ASSUME NEW c \in Askers, NEW I \in Batches, Ask(c, I) PROVE StoreTypeOK'
    <3>1. I \in SUBSET Ids /\ {id \in I : Fresh(id)} \in SUBSET Ids BY StoredDataAssumption
    <3>2. Begin(I, {id \in I : Fresh(id)}, madeAt) \in Asker BY <2>0, <3>1, BeginTyped
    <3>. QED BY <2>1, <3>2 DEF Ask, StoreTypeOK
  <2>2. ASSUME NEW c \in Askers, NEW id \in Ids, AskComposed(c, id) PROVE StoreTypeOK'
    <3>1. PICK hits \in SUBSET {id} : asker' = [asker EXCEPT ![c] = Begin({id}, hits, madeAt')]
      BY <2>2, ComposedBegins
    <3>2. /\ savedAt' \in [Ids -> Nat] /\ madeAt' \in [Ids -> Nat]
          /\ stored' = stored \/ stored' = stored \cup {id}
      BY Zenon, <2>2, ComposedBegins
    <3>3. {id} \in SUBSET Ids /\ hits \in SUBSET Ids /\ stored' \subseteq Ids BY <3>2 DEF StoreTypeOK
    <3>4. Begin({id}, hits, madeAt') \in Asker BY <2>0, <3>2, <3>3, BeginTyped
    <3>. QED BY <2>2, <3>1, <3>2, <3>3, <3>4 DEF AskComposed, StoreTypeOK
  <2>3. ASSUME NEW c \in Askers, OriginReads(c) PROVE StoreTypeOK'
    BY <2>3, ReadsFields DEF OriginReads, StoreTypeOK
  <2>4. ASSUME NEW c \in Askers, OriginFails(c) PROVE StoreTypeOK'
    BY <2>4, FailsFields DEF OriginFails, StoreTypeOK
  <2>5. ASSUME NEW c \in Askers, Receive(c) PROVE StoreTypeOK'
    <3>1. asker' \in [Askers -> Asker] BY <2>5, ReceiveSaves, SavingFields
    <3>. QED BY <2>5, <3>1 DEF Receive, StoreTypeOK
  <2>6. ASSUME NEW c \in Askers, SaveOne(c) PROVE StoreTypeOK'
    <3>1. asker' \in [Askers -> Asker] BY <2>6, SaveOneSaves, SavingFields
    <3>2. stored' \subseteq Ids /\ savedAt' \in [Ids -> Nat] /\ madeAt' \in [Ids -> Nat]
      BY <2>0, <2>6, SaveOneSaves DEF StoreTypeOK
    <3>. QED BY <2>6, <3>1, <3>2 DEF SaveOne, StoreTypeOK
  <2>7. ASSUME NEW id \in Ids, Forgotten(id) PROVE StoreTypeOK' BY <2>7 DEF Forgotten, StoreTypeOK
  <2>8. CASE ClockTicks BY <1>0, <2>8 DEF ClockTicks, StoreTypeOK
  <2>9. CASE UNCHANGED storeVars BY <2>9 DEF storeVars, StoreTypeOK
  <2>. QED BY <2>1, <2>2, <2>3, <2>4, <2>5, <2>6, <2>7, <2>8, <2>9 DEF StoreNext
<1>. QED BY <1>1, <1>2, PTL DEF StoreSpec

-----------------------------------------------------------------------------
(* How old an answer can be                                                *)

(* A call is within its timeout while it lasts. *)
LEMMA InTimeStep ==
    ASSUME StoreTypeOK, InTime, [StoreNext]_storeVars
    PROVE  InTime'
<1>0. /\ clock \in Nat /\ FetchTimeout \in Nat
      /\ \A d \in Askers : asker[d] \in Asker /\ CallInTime(asker[d], clock)
  BY StoredDataAssumption DEF StoreTypeOK, InTime
<1>1. ASSUME NEW c \in Askers, clock' = clock, \A d \in Askers \ {c} : asker'[d] = asker[d],
             CallInTime(asker'[c], clock)
      PROVE  InTime'
  BY <1>0, <1>1 DEF InTime
<1>2. ASSUME NEW c \in Askers, NEW I \in Batches, Ask(c, I) PROVE InTime'
  <2>1. I \in SUBSET Ids /\ {id \in I : Fresh(id)} \in SUBSET Ids /\ madeAt \in [Ids -> Nat]
    BY StoredDataAssumption DEF StoreTypeOK
  <2>2. PICK a : a = Begin(I, {id \in I : Fresh(id)}, madeAt) OBVIOUS
  <2>3. a.phase \in {"asking", "done"} /\ a.since = clock /\ a.got = {} /\ a.todo = {}
    BY <2>2 DEF Begin
  <2>4. CallInTime(a, clock) BY <1>0, <2>3 DEF CallInTime
  <2>5. asker' = [asker EXCEPT ![c] = a] /\ clock' = clock BY <1>2, <2>2 DEF Ask
  <2>. QED BY <1>1, <2>4, <2>5, OnlyOneCall
<1>3. ASSUME NEW c \in Askers, NEW id \in Ids, AskComposed(c, id) PROVE InTime'
  <2>1. madeAt' \in [Ids -> Nat] /\ {id} \in SUBSET Ids BY <1>3, ComposedBegins
  <2>2. PICK hits \in SUBSET {id} : asker' = [asker EXCEPT ![c] = Begin({id}, hits, madeAt')]
    BY <1>3, ComposedBegins
  <2>3. PICK a : a = Begin({id}, hits, madeAt') OBVIOUS
  <2>4. a.phase \in {"asking", "done"} /\ a.since = clock /\ a.got = {} /\ a.todo = {}
    BY <2>3 DEF Begin
  <2>5. CallInTime(a, clock) BY <1>0, <2>4 DEF CallInTime
  <2>6. asker' = [asker EXCEPT ![c] = a] /\ clock' = clock BY <1>3, <2>2, <2>3 DEF AskComposed
  <2>. QED BY <1>1, <2>5, <2>6, OnlyOneCall
<1>4. ASSUME NEW c \in Askers, OriginReads(c) PROVE InTime'
  <2>1. CallInTime(asker'[c], clock) BY <1>0, <1>4, ReadsFields DEF CallInTime
  <2>. QED BY <1>1, <1>4, <2>1, ReadsFields DEF OriginReads
<1>5. ASSUME NEW c \in Askers, OriginFails(c) PROVE InTime'
  <2>1. asker[c].todo = {} BY <1>0, <1>5, FailsFields DEF CallInTime
  <2>2. CallInTime(asker'[c], clock) BY <1>0, <1>5, <2>1, FailsFields DEF CallInTime
  <2>. QED BY <1>1, <1>5, <2>2, FailsFields DEF OriginFails
<1>6. ASSUME NEW c \in Askers, Receive(c) PROVE InTime'
  <2>1. PICK todo \in SUBSET Ids :
          asker' = Saving(c, todo) /\ todo \subseteq asker[c].got /\ asker[c].phase = "reading"
    BY <1>6, ReceiveSaves
  <2>2. CallInTime(asker'[c], clock) BY <1>0, <2>1, SavingFields DEF CallInTime
  <2>. QED BY <1>1, <1>6, <2>1, <2>2, SavingFields DEF Receive
<1>7. ASSUME NEW c \in Askers, SaveOne(c) PROVE InTime'
  <2>1. PICK id \in asker[c].todo : asker[c].todo \ {id} \in SUBSET Ids /\ asker' = Saving(c, asker[c].todo \ {id})
    BY <1>7, SaveOneSaves
  <2>2. /\ \A d \in Askers \ {c} : asker'[d] = asker[d]
        /\ asker'[c].phase \in {"saving", "done"} /\ asker'[c].todo = asker[c].todo \ {id}
        /\ asker'[c].phase = "done" => asker[c].todo \ {id} = {}
        /\ asker'[c].since = asker[c].since /\ asker'[c].got = asker[c].got /\ asker'[c].readAt = asker[c].readAt
    BY <2>1, SavingFields
  <2>3. asker[c].phase = "saving" /\ clock' = clock BY <1>7 DEF SaveOne
  <2>4. CallInTime(asker[c], clock) BY <1>0
  <2>5. CallInTime(asker'[c], clock) BY <2>2, <2>3, <2>4 DEF CallInTime
  <2>. QED BY <1>1, <2>2, <2>3, <2>5
<1>8. ASSUME NEW id \in Ids, Forgotten(id) PROVE InTime' BY <1>0, <1>8 DEF Forgotten, InTime
<1>9. CASE ClockTicks
  <2>1. ASSUME NEW d \in Askers PROVE CallInTime(asker'[d], clock')
    <3>1. /\ asker'[d] = (IF asker[d].phase = "done" THEN NoCall ELSE asker[d]) /\ clock' = clock + 1
          /\ asker[d].phase # "saving"
          /\ asker[d].phase \in {"asking", "reading"} => clock < asker[d].since + FetchTimeout
      BY <1>9 DEF ClockTicks
    <3>2. CallInTime(NoCall, clock + 1)
      <4>1. NoCall.phase = "idle" /\ NoCall.since = 0 /\ NoCall.got = {} /\ NoCall.todo = {} BY DEF NoCall
      <4>. QED BY <1>0, <4>1 DEF CallInTime
    <3>3. asker[d].since \in Nat BY <1>0 DEF Asker
    <3>4. asker[d].phase # "done" => CallInTime(asker[d], clock + 1) BY <1>0, <3>1, <3>3 DEF CallInTime
    <3>. QED BY <3>1, <3>2, <3>4
  <2>. QED BY <2>1 DEF InTime
<1>10. CASE UNCHANGED storeVars BY <1>0, <1>10 DEF storeVars, InTime
<1>. QED BY <1>2, <1>3, <1>4, <1>5, <1>6, <1>7, <1>8, <1>9, <1>10 DEF StoreNext

(* What is cached was produced at most a timeout before it was saved, and  *)
(* a hit, besides, was saved less than the TTL before.                     *)
LEMMA HitsInTimeStep ==
    ASSUME StoreTypeOK, InTime, HitsAreInTime, [StoreNext]_storeVars
    PROVE  HitsAreInTime'
<1>. SUFFICES ASSUME layer' = "cached"
              PROVE  CacheInTime' /\ \A d \in Askers : HitsInTime(asker'[d])
  BY DEF HitsAreInTime, HitsInTime
<1>0. layer' = layer
  BY Zenon DEF StoreNext, storeVars, Ask, AskComposed, OriginReads, OriginFails, Receive, SaveOne, Forgotten, ClockTicks
<1>1. layer = "cached" /\ CacheInTime /\ \A d \in Askers : HitsInTime(asker[d]) BY <1>0 DEF HitsAreInTime
<1>2. clock \in Nat /\ savedAt \in [Ids -> Nat] /\ madeAt \in [Ids -> Nat] /\ stored \subseteq Ids
  BY DEF StoreTypeOK
<1>3. ASSUME NEW c \in Askers, UNCHANGED <<stored, savedAt, madeAt>>, \A d \in Askers \ {c} : asker'[d] = asker[d],
             HitsInTime(asker'[c])
      PROVE  CacheInTime' /\ \A d \in Askers : HitsInTime(asker'[d])
  <2>1. CacheInTime' BY <1>1, <1>3 DEF CacheInTime
  <2>. QED BY <1>1, <1>3, <2>1
<1>4. ASSUME NEW c \in Askers, asker'[c].since = asker[c].since, asker'[c].hits = asker[c].hits, asker'[c].made = asker[c].made
      PROVE  HitsInTime(asker'[c])
  BY <1>1, <1>4 DEF HitsInTime
<1>5. ASSUME NEW c \in Askers, NEW I \in Batches, Ask(c, I)
      PROVE  CacheInTime' /\ \A d \in Askers : HitsInTime(asker'[d])
  <2>1. PICK hits \in SUBSET Ids : hits = {id \in I : Fresh(id)} BY StoredDataAssumption
  <2>2. PICK a : a = Begin(I, hits, madeAt) OBVIOUS
  <2>3. a.since = clock /\ a.hits = hits /\ \A id \in hits : a.made[id] = madeAt[id]
    BY <2>2 DEF Begin
  <2>4. ASSUME NEW id \in hits PROVE clock < madeAt[id] + StoreTtl + FetchTimeout
    <3>1. id \in stored /\ clock < savedAt[id] + StoreTtl BY <2>1 DEF Fresh
    <3>2. savedAt[id] <= madeAt[id] + FetchTimeout BY <1>1, <3>1 DEF CacheInTime
    <3>3. savedAt[id] \in Nat /\ madeAt[id] \in Nat BY <1>2
    <3>. QED BY <1>2, <3>1, <3>2, <3>3, StoredDataAssumption
  <2>5. HitsInTime(a) BY <2>3, <2>4 DEF HitsInTime
  <2>6. asker' = [asker EXCEPT ![c] = a] /\ UNCHANGED <<stored, savedAt, madeAt>> BY <1>5, <2>1, <2>2 DEF Ask
  <2>. QED BY <1>3, <2>5, <2>6, OnlyOneCall
<1>6. ASSUME NEW c \in Askers, OriginReads(c)
      PROVE  CacheInTime' /\ \A d \in Askers : HitsInTime(asker'[d])
  <2>1. HitsInTime(asker'[c]) BY <1>4, <1>6, ReadsFields
  <2>2. UNCHANGED <<stored, savedAt, madeAt>> BY <1>6 DEF OriginReads
  <2>. QED BY <1>3, <1>6, <2>1, <2>2, ReadsFields
<1>7. ASSUME NEW c \in Askers, OriginFails(c)
      PROVE  CacheInTime' /\ \A d \in Askers : HitsInTime(asker'[d])
  <2>1. HitsInTime(asker'[c]) BY <1>4, <1>7, FailsFields
  <2>2. UNCHANGED <<stored, savedAt, madeAt>> BY <1>7 DEF OriginFails
  <2>. QED BY <1>3, <1>7, <2>1, <2>2, FailsFields
<1>8. ASSUME NEW c \in Askers, Receive(c)
      PROVE  CacheInTime' /\ \A d \in Askers : HitsInTime(asker'[d])
  <2>1. PICK todo \in SUBSET Ids : asker' = Saving(c, todo) BY <1>8, ReceiveSaves
  <2>2. HitsInTime(asker'[c]) BY <1>4, <2>1, SavingFields
  <2>3. UNCHANGED <<stored, savedAt, madeAt>> BY <1>8 DEF Receive
  <2>. QED BY <1>3, <2>1, <2>2, <2>3, SavingFields
<1>9. ASSUME NEW c \in Askers, SaveOne(c)
      PROVE  CacheInTime' /\ \A d \in Askers : HitsInTime(asker'[d])
  <2>1. PICK new \in asker[c].todo :
          /\ new \in Ids /\ asker[c].todo \ {new} \in SUBSET Ids /\ asker[c].readAt \in Nat
          /\ stored' = stored \cup {new}
          /\ savedAt' = [savedAt EXCEPT ![new] = clock]
          /\ madeAt' = [madeAt EXCEPT ![new] = asker[c].readAt]
          /\ asker' = Saving(c, asker[c].todo \ {new})
    BY <1>9, SaveOneSaves
  <2>2. HitsInTime(asker'[c]) BY <1>4, <2>1, SavingFields
  <2>3. CallInTime(asker[c], clock) /\ asker[c].phase = "saving" BY <1>9 DEF InTime, SaveOne
  <2>4. asker[c].since \in Nat BY DEF StoreTypeOK, Asker
  <2>5. clock <= asker[c].readAt + FetchTimeout
    <3>1. clock <= asker[c].since + FetchTimeout /\ asker[c].since <= asker[c].readAt BY <2>1, <2>3 DEF CallInTime
    <3>. QED BY <1>2, <2>1, <2>4, <3>1, StoredDataAssumption
  <2>6. CacheInTime' BY <1>1, <1>2, <2>1, <2>5 DEF CacheInTime
  <2>7. \A d \in Askers \ {c} : HitsInTime(asker'[d]) BY <1>1, <2>1, SavingFields
  <2>. QED BY <2>2, <2>6, <2>7
<1>10. ASSUME NEW id \in Ids, Forgotten(id)
       PROVE  CacheInTime' /\ \A d \in Askers : HitsInTime(asker'[d])
  <2>1. CacheInTime' BY <1>1, <1>2, <1>10 DEF Forgotten, CacheInTime
  <2>. QED BY <1>1, <1>10, <2>1 DEF Forgotten
<1>11. CASE ClockTicks
  <2>1. CacheInTime' BY <1>1, <1>11 DEF ClockTicks, CacheInTime
  <2>2. HitsInTime(NoCall) BY DEF NoCall, HitsInTime
  <2>3. \A d \in Askers : asker'[d] \in {NoCall, asker[d]} BY <1>11 DEF ClockTicks
  <2>. QED BY <1>1, <2>1, <2>2, <2>3
<1>12. CASE UNCHANGED storeVars BY <1>1, <1>12 DEF storeVars, CacheInTime
<1>13. ASSUME NEW c \in Askers, NEW id \in Ids PROVE ~AskComposed(c, id) BY <1>1 DEF AskComposed
<1>. QED BY <1>5, <1>6, <1>7, <1>8, <1>9, <1>10, <1>11, <1>12, <1>13 DEF StoreNext

(* ComposedFetcher caches files only. *)
LEMMA OnlyFilesStep ==
    ASSUME StoreTypeOK, InTime, OnlyFilesAreCached, [StoreNext]_storeVars
    PROVE  OnlyFilesAreCached'
<1>. DEFINE Fine(d) == asker'[d].hits \subseteq Files /\ asker'[d].todo = {}
<1>. SUFFICES ASSUME layer' = "composed"
              PROVE  stored' \subseteq Files /\ \A d \in Askers : Fine(d)
  BY DEF OnlyFilesAreCached
<1>0. layer' = layer
  BY Zenon DEF StoreNext, storeVars, Ask, AskComposed, OriginReads, OriginFails, Receive, SaveOne, Forgotten, ClockTicks
<1>1. /\ layer = "composed" /\ stored \subseteq Files
      /\ \A d \in Askers : asker[d].hits \subseteq Files /\ asker[d].todo = {}
  BY <1>0 DEF OnlyFilesAreCached
<1>2. ASSUME NEW c \in Askers, NEW id \in Ids, AskComposed(c, id)
      PROVE  stored' \subseteq Files /\ \A d \in Askers : Fine(d)
  <2>1. /\ madeAt' \in [Ids -> Nat] /\ clock \in Nat
        /\ stored' = stored \/ (stored' = stored \cup {id} /\ id \in Files)
    BY <1>2, ComposedBegins DEF StoreTypeOK
  <2>2. PICK hits \in SUBSET {id} :
          asker' = [asker EXCEPT ![c] = Begin({id}, hits, madeAt')] /\ hits \subseteq stored \cup Files
    BY <1>2, ComposedBegins
  <2>3. asker'[c] = Begin({id}, hits, madeAt') /\ \A d \in Askers \ {c} : asker'[d] = asker[d]
    BY <2>2, OnlyOneCall
  <2>4. asker'[c].hits = hits /\ asker'[c].todo = {} BY <2>3 DEF Begin
  <2>. QED BY <1>1, <2>1, <2>2, <2>3, <2>4
<1>3. ASSUME NEW c \in Askers, OriginReads(c) PROVE stored' \subseteq Files /\ \A d \in Askers : Fine(d)
  BY <1>1, <1>3, ReadsFields DEF OriginReads
<1>4. ASSUME NEW c \in Askers, OriginFails(c) PROVE stored' \subseteq Files /\ \A d \in Askers : Fine(d)
  BY <1>1, <1>4, FailsFields DEF OriginFails
<1>5. ASSUME NEW c \in Askers, Receive(c) PROVE stored' \subseteq Files /\ \A d \in Askers : Fine(d)
  <2>1. asker' = Saving(c, {}) BY <1>1, <1>5, ReceiveSaves
  <2>. QED BY <1>1, <1>5, <2>1, SavingFields DEF Receive
<1>6. ASSUME NEW c \in Askers PROVE ~SaveOne(c) BY <1>1 DEF SaveOne
<1>7. ASSUME NEW id \in Ids, Forgotten(id) PROVE stored' \subseteq Files /\ \A d \in Askers : Fine(d)
  BY <1>1, <1>7 DEF Forgotten
<1>8. CASE ClockTicks
  <2>1. \A d \in Askers : asker'[d] \in {NoCall, asker[d]} BY <1>8 DEF ClockTicks
  <2>2. NoCall.hits = {} /\ NoCall.todo = {} BY DEF NoCall
  <2>. QED BY <1>1, <1>8, <2>1, <2>2 DEF ClockTicks
<1>9. CASE UNCHANGED storeVars BY <1>1, <1>9 DEF storeVars
<1>10. ASSUME NEW c \in Askers, NEW I \in Batches PROVE ~Ask(c, I) BY <1>1 DEF Ask
<1>. QED BY <1>2, <1>3, <1>4, <1>5, <1>6, <1>7, <1>8, <1>9, <1>10 DEF StoreNext

(* Whatever fetches, saves and evictions overlap, a call through the cache *)
(* with a TTL is answered with documents that the origin produced less     *)
(* than the TTL and one timeout before the call, and ComposedFetcher       *)
(* answers with a file or with what it has just read.                      *)
THEOREM AnswersAreRecent == StoreSpec => []StoredDataIsRecent
<1>1. StoreInit => InTime /\ HitsAreInTime /\ OnlyFilesAreCached
  <2>. SUFFICES ASSUME StoreInit PROVE InTime /\ HitsAreInTime /\ OnlyFilesAreCached OBVIOUS
  <2>1. \A c \in Askers : asker[c] = NoCall BY DEF StoreInit
  <2>2. CallInTime(NoCall, 0) /\ HitsInTime(NoCall) /\ NoCall.hits = {} /\ NoCall.todo = {}
    BY StoredDataAssumption DEF NoCall, CallInTime, HitsInTime
  <2>3. clock = 0 /\ stored = {} BY DEF StoreInit
  <2>. QED BY <2>1, <2>2, <2>3 DEF InTime, HitsAreInTime, CacheInTime, OnlyFilesAreCached
<1>2. /\ StoreTypeOK /\ InTime /\ [StoreNext]_storeVars => InTime'
      /\ StoreTypeOK /\ InTime /\ HitsAreInTime /\ [StoreNext]_storeVars => HitsAreInTime'
      /\ StoreTypeOK /\ InTime /\ OnlyFilesAreCached /\ [StoreNext]_storeVars => OnlyFilesAreCached'
  BY InTimeStep, HitsInTimeStep, OnlyFilesStep
<1>3. StoreTypeOK /\ InTime /\ HitsAreInTime /\ OnlyFilesAreCached => StoredDataIsRecent
  <2>. SUFFICES ASSUME StoreTypeOK, InTime, HitsAreInTime, OnlyFilesAreCached, NEW c \in Askers,
                       asker[c].phase = "done", NEW id \in asker[c].hits \cup asker[c].got
                PROVE  /\ layer = "cached" => asker[c].since < AgeOf(asker[c], id) + StoreTtl + FetchTimeout
                       /\ layer = "composed" => id \in Files \/ asker[c].since <= AgeOf(asker[c], id)
    BY DEF StoredDataIsRecent
  <2>1. asker[c] \in Asker BY DEF StoreTypeOK
  <2>2. CASE id \in asker[c].got
    <3>1. AgeOf(asker[c], id) = asker[c].readAt BY <2>2 DEF AgeOf
    <3>2. asker[c].since <= asker[c].readAt BY <2>2 DEF InTime, CallInTime
    <3>3. asker[c].since \in Nat /\ asker[c].readAt \in Nat BY <2>1 DEF Asker
    <3>. QED BY <3>1, <3>2, <3>3, StoredDataAssumption
  <2>3. CASE id \notin asker[c].got
    <3>1. AgeOf(asker[c], id) = asker[c].made[id] /\ id \in asker[c].hits BY <2>3 DEF AgeOf
    <3>. QED BY <3>1 DEF HitsAreInTime, HitsInTime, OnlyFilesAreCached
  <2>. QED BY <2>2, <2>3
<1>. QED BY <1>1, <1>2, <1>3, StoreTypeCorrect, PTL DEF StoreSpec

-----------------------------------------------------------------------------
(***************************************************************************)
(* Consent: for every set of bidders, vendors, purposes, configurations    *)
(* and statements, no withdrawal opens a gate.                             *)
(*                                                                         *)
(* A withdrawal makes the statements stricter, in the sense of Stricter;   *)
(* each gate is monotone in that order, whatever the configuration.        *)
(***************************************************************************)

\* t says what s says, or something a gate may only read as a refusal.
Stricter(s, t) ==
    /\ t.purposes \subseteq s.purposes /\ t.vendors \subseteq s.vendors
    /\ t.consent \in {s.consent, "unset"} /\ t.extConsent \in {s.extConsent, "unset"}
    /\ t.us_privacy \in {s.us_privacy, "1YYN"}
    /\ t.lmt \in {s.lmt, "1"} /\ t.coppa \in {s.coppa, "1"}
    /\ t.gdpr \in {s.gdpr, "1"} /\ t.extGdpr \in {s.extGdpr, "1"}
    /\ t.atts \in {s.atts, "denied"} /\ t.ifa \in {s.ifa, "zero"}
    /\ t.gpp_sid = s.gpp_sid /\ t.gpp = s.gpp /\ t.ios = s.ios /\ t.country = s.country

(* A step of the user or the publisher keeps the configuration, and the    *)
(* statements stay well formed and become stricter.                        *)
LEMMA StepIsStricter ==
    ASSUME ConsentTypeOK, ConsentNext
    PROVE  config' = config /\ said' \in Statement /\ Stricter(said, said')
<1>. USE DEF ConsentTypeOK, Statement, Stricter
<1>1. config' = config BY Zenon DEF ConsentNext
<1>2. CASE WithdrawPurpose
  <2>1. PICK P : P \subseteq said.purposes /\ said' = [said EXCEPT !.purposes = P]
    BY <1>2 DEF WithdrawPurpose
  <2>2. P \in SUBSET PurposeIds BY <2>1
  <2>. QED BY <1>1, <2>1, <2>2
<1>3. CASE WithdrawVendor
  <2>1. PICK V : V \subseteq said.vendors /\ said' = [said EXCEPT !.vendors = V]
    BY <1>3 DEF WithdrawVendor
  <2>2. V \in SUBSET Vendors BY <2>1
  <2>. QED BY <1>1, <2>1, <2>2
<1>4. CASE WithdrawString BY <1>1, <1>4 DEF WithdrawString, ConsentText
<1>5. CASE OptOutOfSale BY <1>1, <1>5 DEF OptOutOfSale, UsPrivacy
<1>6. CASE LimitTracking BY <1>1, <1>6 DEF LimitTracking, Flag
<1>7. CASE DenyTracking BY <1>1, <1>7 DEF DenyTracking, Tracking
<1>8. CASE HideDeviceId BY <1>1, <1>8 DEF HideDeviceId
<1>9. CASE DeclareChild BY <1>1, <1>9 DEF DeclareChild, Flag
<1>10. CASE DeclareGdpr BY <1>1, <1>10 DEF DeclareGdpr, Flag
<1>. QED BY Zenon, <1>2, <1>3, <1>4, <1>5, <1>6, <1>7, <1>8, <1>9, <1>10 DEF ConsentNext

-----------------------------------------------------------------------------
(* The gates are monotone                                                  *)

(* The auction's check lets nothing through that it blocked. *)
LEMMA CheckNarrows ==
    ASSUME NEW s, NEW t, Stricter(s, t), CheckPrivacy(t) = "Allow"
    PROVE  CheckPrivacy(s) = "Allow"
<1>1. t.coppa # "1" /\ t.lmt # "1" BY DEF CheckPrivacy
<1>2. ~ThirdIsY(UspString(t)) BY <1>1 DEF CheckPrivacy
<1>3. GdprApplies(t) => HasConsentString(t) BY <1>1, <1>2 DEF CheckPrivacy
<1>4. s.coppa # "1" /\ s.lmt # "1" BY <1>1 DEF Stricter
<1>5. ~ThirdIsY(UspString(s))
  <2>1. CASE t.us_privacy = s.us_privacy BY <1>2, <2>1 DEF Stricter, UspString
  <2>2. CASE t.us_privacy = "1YYN" BY <1>2, <2>2 DEF UspString, ThirdIsY
  <2>. QED BY <2>1, <2>2 DEF Stricter
<1>6. GdprApplies(s) => GdprApplies(t) BY DEF Stricter, GdprApplies
<1>7. HasConsentString(t) => HasConsentString(s) BY Zenon DEF Stricter, HasConsentString
<1>. QED BY <1>3, <1>4, <1>5, <1>6, <1>7 DEF CheckPrivacy

(* GDPR keeps applying, under the configured default as well, and a string *)
(* that can be read could be read before.                                  *)
LEMMA SignalHardens ==
    ASSUME NEW c, NEW s, NEW t, Stricter(s, t)
    PROVE  /\ GetGdprSignal(s) = "Yes" => GetGdprSignal(t) = "Yes"
           /\ GetGdprSignal(t) \in {GetGdprSignal(s), "Yes"}
           /\ GdprYes(c, s) => GdprYes(c, t)
           /\ Parsed(t) => Parsed(s)
<1>1. GetGdprSignal(t) \in {GetGdprSignal(s), "Yes"} BY DEF Stricter, GetGdprSignal
<1>2. GdprYes(c, s) => GdprYes(c, t) BY <1>1 DEF GdprYes, EffectiveSignal
<1>3. Parsed(t) => Parsed(s) BY DEF Stricter, Parsed, GetConsent
<1>. QED BY <1>1, <1>2, <1>3

(* What PurposeEnforcer and FullEnforcement allow, they allowed before.    *)
LEMMA EnforcersNarrow ==
    ASSUME NEW c, NEW s, NEW t, Stricter(s, t), NEW p, NEW v
    PROVE  /\ IsAllowed(c, t, p, v) => IsAllowed(c, s, p, v)
           /\ AllowSync(c, t, v) => AllowSync(c, s, v)
           /\ LegalBasis(c, t, p, v) => LegalBasis(c, s, p, v)
<1>1. t.purposes \subseteq s.purposes /\ t.vendors \subseteq s.vendors BY DEF Stricter
<1>2. ASSUME NEW q PROVE IsAllowed(c, t, q, v) => IsAllowed(c, s, q, v) BY <1>1 DEF IsAllowed
<1>3. AllowSync(c, t, v) => AllowSync(c, s, v) BY <1>2, SignalHardens DEF AllowSync
<1>4. LegalBasis(c, t, p, v) => LegalBasis(c, s, p, v) BY <1>1 DEF LegalBasis
<1>. QED BY <1>2, <1>3, <1>4

(* GdprEnforcer::check_bidder *)
LEMMA CheckBidderNarrows ==
    ASSUME NEW c, NEW s, NEW t, Stricter(s, t), NEW b, CheckBidder(c, t, b)
    PROVE  CheckBidder(c, s, b)
<1>1. CASE ~c.enabled \/ b \in c.bidder_exceptions BY <1>1 DEF CheckBidder
<1>2. CASE EffectiveSignal(c, GetGdprSignal(s)) # "Yes" BY <1>2 DEF CheckBidder
<1>3. CASE c.enabled /\ b \notin c.bidder_exceptions /\ EffectiveSignal(c, GetGdprSignal(s)) = "Yes"
  <2>1. EffectiveSignal(c, GetGdprSignal(t)) = "Yes" BY <1>3, SignalHardens DEF GdprYes
  <2>2. /\ Parsed(t)
        /\ {p \in c.enforce_purposes : p \notin t.purposes} = {}
        /\ ~c.require_vendor_consent \/ c.vendor_ids[b] = NoVendor \/ c.vendor_ids[b] \in t.vendors
    BY <1>3, <2>1 DEF CheckBidder
  <2>3. Parsed(s) BY <2>2, SignalHardens
  <2>4. {p \in c.enforce_purposes : p \notin s.purposes} = {} BY <2>2 DEF Stricter
  <2>5. ~c.require_vendor_consent \/ c.vendor_ids[b] = NoVendor \/ c.vendor_ids[b] \in s.vendors
    BY <2>2 DEF Stricter
  <2>. QED BY <2>3, <2>4, <2>5 DEF CheckBidder
<1>. QED BY <1>1, <1>2, <1>3

(* ConsentPermissions::bidder_allowed decides as check_bidder does. *)
LEMMA CheckIsBidderAllowed ==
    ASSUME NEW c, NEW s, NEW b
    PROVE  CheckBidder(c, s, b) <=> BidderAllowed(c, s, b)
<1>1. {p \in c.enforce_purposes : p \notin s.purposes} = {} <=> \A p \in c.enforce_purposes : p \in s.purposes
  OBVIOUS
<1>. QED BY <1>1 DEF CheckBidder, BidderAllowed, CanEnforce

(* PermissionsImpl *)
LEMMA PermissionsNarrow ==
    ASSUME NEW c, NEW s, NEW t, Stricter(s, t), NEW b
    PROVE  /\ HostCookiesAllowed(c, t) => HostCookiesAllowed(c, s)
           /\ BidderSyncAllowed(c, t, b) => BidderSyncAllowed(c, s, b)
           /\ AllowBidRequest(c, t, b) => AllowBidRequest(c, s, b)
           /\ PassGeo(c, t, b) => PassGeo(c, s, b)
           /\ PassId(c, t, b) => PassId(c, s, b)
<1>1. GdprYes(c, s) => GdprYes(c, t) BY SignalHardens
<1>2. Parsed(t) => Parsed(s) BY SignalHardens
<1>3. Unrestricted(c, t, b) => Unrestricted(c, s, b) BY <1>1 DEF Unrestricted
<1>4. HostCookiesAllowed(c, t) => HostCookiesAllowed(c, s)
  <2>1. AllowSync(c, t, c.host_vendor_id) => AllowSync(c, s, c.host_vendor_id) BY Zenon, EnforcersNarrow
  <2>. QED BY Zenon, <1>1, <2>1 DEF HostCookiesAllowed
<1>5. BidderSyncAllowed(c, t, b) => BidderSyncAllowed(c, s, b)
  <2>1. AllowSync(c, t, c.vendor_ids[b]) => AllowSync(c, s, c.vendor_ids[b]) BY Zenon, EnforcersNarrow
  <2>. QED BY Zenon, <1>1, <2>1 DEF BidderSyncAllowed
<1>6. AllowBidRequest(c, t, b) => AllowBidRequest(c, s, b)
  <2>1. IsAllowed(c, t, 2, ResolveVendorId(c, b)) => IsAllowed(c, s, 2, ResolveVendorId(c, b))
    BY Zenon, EnforcersNarrow
  <2>. QED BY Zenon, <1>2, <1>3, <2>1 DEF AllowBidRequest
<1>7. PassGeo(c, t, b) => PassGeo(c, s, b) BY <1>2, <1>3 DEF PassGeo, Stricter
<1>8. PassId(c, t, b) => PassId(c, s, b) BY Zenon, <1>2, <1>3, EnforcersNarrow DEF PassId
<1>. QED BY <1>4, <1>5, <1>6, <1>7, <1>8

(* CCPA, LMT, enforce_gdpr and should_block_bidder_gdpr go on refusing.    *)
LEMMA RefusalsPersist ==
    ASSUME NEW c, NEW s \in Statement, NEW t, Stricter(s, t), NEW b
    PROVE  /\ LmtShouldBlock(s) => LmtShouldBlock(t)
           /\ EnforceGdpr(c, s) => EnforceGdpr(c, t)
           /\ ShouldBlockBidderGdpr(s) => ShouldBlockBidderGdpr(t)
           /\ CcpaShouldEnforce(c, s, b) => CcpaShouldEnforce(c, t, b)
           /\ PolicyShouldEnforce(c, s, b) => PolicyShouldEnforce(c, t, b)
<1>1. LmtShouldBlock(s) => LmtShouldBlock(t) BY DEF LmtShouldBlock, ModifyLmtForIos, Stricter
<1>2. EnforceGdpr(c, s) => EnforceGdpr(c, t)
  BY ZenonT(40), SignalHardens DEF EnforceGdpr, ParseGdprDefaultValue, Stricter
<1>3. ShouldBlockBidderGdpr(s) => ShouldBlockBidderGdpr(t)
  BY DEF ShouldBlockBidderGdpr, GdprApplies, Stricter
<1>4. CcpaShouldEnforce(c, s, b) => CcpaShouldEnforce(c, t, b)
  BY DEF CcpaShouldEnforce, FourFromOne, ThirdIsY, Stricter
<1>5. PolicyShouldEnforce(c, s, b) => PolicyShouldEnforce(c, t, b) BY DEF PolicyShouldEnforce, Stricter
<1>. QED BY <1>1, <1>2, <1>3, <1>4, <1>5

(* Together: stricter statements open no gate.                             *)
LEMMA StricterIsNoWider ==
    ASSUME NEW c, NEW s \in Statement, NEW t, Stricter(s, t)
    PROVE  NoWider(c, s, t)
<1>1. CheckPrivacy(t) = "Allow" => CheckPrivacy(s) = "Allow" BY CheckNarrows
<1>2. /\ HostCookiesAllowed(c, t) => HostCookiesAllowed(c, s)
      /\ LmtShouldBlock(s) => LmtShouldBlock(t)
      /\ EnforceGdpr(c, s) => EnforceGdpr(c, t)
      /\ ShouldBlockBidderGdpr(s) => ShouldBlockBidderGdpr(t)
  BY PermissionsNarrow, RefusalsPersist
<1>3. ASSUME NEW b \in Bidders
      PROVE  /\ CheckBidder(c, t, b) => CheckBidder(c, s, b)
             /\ BidderAllowed(c, t, b) => BidderAllowed(c, s, b)
             /\ BidderSyncAllowed(c, t, b) => BidderSyncAllowed(c, s, b)
             /\ AllowBidRequest(c, t, b) => AllowBidRequest(c, s, b)
             /\ PassGeo(c, t, b) => PassGeo(c, s, b)
             /\ PassId(c, t, b) => PassId(c, s, b)
             /\ CcpaShouldEnforce(c, s, b) => CcpaShouldEnforce(c, t, b)
             /\ PolicyShouldEnforce(c, s, b) => PolicyShouldEnforce(c, t, b)
  <2>1. CheckBidder(c, t, b) => CheckBidder(c, s, b) BY CheckBidderNarrows
  <2>2. BidderAllowed(c, t, b) => BidderAllowed(c, s, b) BY <2>1, CheckIsBidderAllowed
  <2>. QED BY Zenon, <2>1, <2>2, PermissionsNarrow, RefusalsPersist
<1>4. \A p \in PurposeIds, v \in Vendors : LegalBasis(c, t, p, v) => LegalBasis(c, s, p, v)
  BY EnforcersNarrow
<1>. QED BY <1>1, <1>2, <1>3, <1>4 DEF NoWider

-----------------------------------------------------------------------------
(* The theorems                                                            *)

(* Whatever is withdrawn, the statements a request carries stay well       *)
(* formed.                                                                 *)
THEOREM ConsentTypeCorrect == ConsentSpec => []ConsentTypeOK
<1>1. ConsentInit => ConsentTypeOK BY ConsentAssumption DEF ConsentInit, ConsentTypeOK
<1>2. ConsentTypeOK /\ [ConsentNext]_consentVars => ConsentTypeOK'
  <2>. SUFFICES ASSUME ConsentTypeOK, [ConsentNext]_consentVars PROVE ConsentTypeOK'
    OBVIOUS
  <2>1. CASE ConsentNext BY <2>1, StepIsStricter DEF ConsentTypeOK
  <2>2. CASE UNCHANGED consentVars BY <2>2 DEF consentVars, ConsentTypeOK
  <2>. QED BY <2>1, <2>2
<1>. QED BY <1>1, <1>2, PTL DEF ConsentSpec

(* No withdrawal opens a gate of the auction's check, of the TCF           *)
(* enforcers and permissions, or of the CCPA and LMT policies.             *)
THEOREM WithdrawalsOpenNoGate == ConsentSpec => WithdrawalOpensNoGate
<1>1. ConsentTypeOK /\ [ConsentNext]_consentVars => [said' # said => NoWider(config, said, said')]_consentVars
  <2>. SUFFICES ASSUME ConsentTypeOK, ConsentNext PROVE NoWider(config, said, said')
    OBVIOUS
  <2>1. Stricter(said, said') BY StepIsStricter
  <2>2. said \in Statement BY DEF ConsentTypeOK
  <2>. QED BY <2>1, <2>2, StricterIsNoWider
<1>. QED BY <1>1, ConsentTypeCorrect, PTL DEF ConsentSpec, WithdrawalOpensNoGate
=============================================================================
