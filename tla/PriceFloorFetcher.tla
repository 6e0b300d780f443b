------------------------- MODULE PriceFloorFetcher -------------------------
(***************************************************************************)
(* The dynamic price-floor fetcher of floors/fetcher.go: auction requests  *)
(* that miss the floor cache push a fetchInfo on the configReceiver        *)
(* channel; the single Fetcher goroutine deduplicates them by URL and      *)
(* hands them to a bounded worker pool; a worker downloads the file, fills *)
(* the cache and posts the job back as a refetch, which waits in the       *)
(* priority queue until a ticker tick finds it due.                        *)
(*                                                                         *)
(* Time is counted in ticks of refetchCheckInterval.  Absolute times are   *)
(* kept as countdowns: due is how far fetchTime lies in the future, ttl    *)
(* how long a cache entry still lives.                                     *)
(***************************************************************************)
EXTENDS Naturals, Sequences, FiniteSets, SequencesExt

CONSTANTS
    URLs,        \* floor file locations named by the accounts' configurations
    Requests,    \* goroutines serving an auction, each inside at most one Fetch
    Workers,     \* price_floors.fetcher.worker: size of the pool
    Capacity,    \* price_floors.fetcher.capacity: pool queue and channel size
    MaxRetries,  \* price_floors.fetcher.max_retries
    Period,      \* fetch.period_sec of the account, in ticks
    MaxAge,      \* fetch.max_age_sec of the account, in ticks
    HeaderAges   \* values of the max-age response header; 0 when absent

ASSUME FetcherAssumption ==
    /\ IsFiniteSet(URLs)
    /\ Workers \in Nat \ {0}
    /\ Capacity \in Nat \ {0}
    /\ MaxRetries \in Nat
    /\ Period \in Nat \ {0}
    /\ MaxAge \in Nat \ {0}
    /\ Period <= MaxAge
    /\ HeaderAges \subseteq Nat

VARIABLES
    cache,            \* remaining life of the entry cached for a URL, 0: none
    configReceiver,   \* the channel: a sequence of fetchInfo
    fetchInProgress,  \* the URLs ever accepted by the Fetcher goroutine
    fetchQueue,       \* the priority queue, as an unordered sequence
    tasks,            \* fetchInfos accepted by the pool, not yet running
    running,          \* fetchInfos whose download is in progress
    finished,         \* fetchInfos a worker has yet to post as a refetch
    fetcher,          \* what the Fetcher goroutine is doing
    tick,             \* a tick waits in ticker.C
    request           \* what each auction request is doing

vars == <<cache, configReceiver, fetchInProgress, fetchQueue, tasks, running,
          finished, fetcher, tick, request>>

FetchInfo == [url: URLs, due: 0..Period, refetchRequest: BOOLEAN,
              retryCount: 0..MaxRetries]

\* The countdown of a time d away once one more tick has passed.
Elapse(d) == IF d = 0 THEN 0 ELSE d - 1

\* heap.Push: the order of the slice is left to heap.Pop.
Push(info) == fetchQueue' = Append(fetchQueue, info)

-----------------------------------------------------------------------------
Init ==
    /\ cache = [u \in URLs |-> 0]
    /\ configReceiver = <<>>
    /\ fetchInProgress = {}
    /\ fetchQueue = <<>>
    /\ tasks = <<>>
    /\ running = <<>>
    /\ finished = <<>>
    /\ fetcher = "select"
    /\ tick = FALSE
    /\ request = [r \in Requests |-> "idle"]

\* Fetch on a miss: builds the fetchInfo and reaches the channel send.  (On a
\* hit, or with a disabled or malformed configuration, Fetch changes nothing.)
Fetch(r, u) ==
    /\ request[r] = "idle"
    /\ cache[u] = 0
    /\ request' = [request EXCEPT ![r] = u]
    /\ UNCHANGED <<cache, configReceiver, fetchInProgress, fetchQueue, tasks,
                   running, finished, fetcher, tick>>

\* The send on configReceiver, which blocks while the channel is full.
FetchSend(r) ==
    /\ request[r] # "idle"
    /\ Len(configReceiver) < Capacity
    /\ configReceiver' = Append(configReceiver,
                                [url |-> request[r], due |-> 0,
                                 refetchRequest |-> FALSE, retryCount |-> 0])
    /\ request' = [request EXCEPT ![r] = "idle"]
    /\ UNCHANGED <<cache, fetchInProgress, fetchQueue, tasks, running,
                   finished, fetcher, tick>>

-----------------------------------------------------------------------------
\* pond: TrySubmit never blocks.  It accepts a task while the queue has room or
\* a worker is free; with a full queue it may also miss a worker that is just
\* becoming free.
InPool == Len(tasks) + Len(running) + Len(finished)
MayAccept == InPool < Capacity + Workers
MayRefuse == Len(tasks) >= Capacity

\* Fault: a job the pool refuses is dropped.
submitOrDrop(info, queue) ==
    /\ \/ MayAccept /\ tasks' = Append(tasks, info)
       \/ MayRefuse /\ UNCHANGED tasks
    /\ fetchQueue' = queue

\* submit: a job the pool refuses goes (back) to the priority queue.
submit(info, queue) ==
    \/ /\ MayAccept
       /\ tasks' = Append(tasks, info)
       /\ fetchQueue' = queue
    \/ /\ MayRefuse
       /\ fetchQueue' = Append(queue, info)
       /\ UNCHANGED tasks

\* Fault: fetchInProgress is not looked at.
ReceiveAlwaysSubmits ==
    /\ fetcher = "select"
    /\ configReceiver # <<>>
    /\ configReceiver' = Tail(configReceiver)
    /\ LET info == Head(configReceiver) IN
         \/ /\ info.refetchRequest
            /\ Push(info)
            /\ UNCHANGED <<fetchInProgress, tasks>>
         \/ /\ ~info.refetchRequest
            /\ fetchInProgress' = fetchInProgress \union {info.url}
            /\ submit(info, fetchQueue)
    /\ UNCHANGED <<cache, running, finished, fetcher, tick, request>>

\* case fetchConfig := <-f.configReceiver
Receive ==
    /\ fetcher = "select"
    /\ configReceiver # <<>>
    /\ configReceiver' = Tail(configReceiver)
    /\ LET info == Head(configReceiver) IN
         \/ /\ info.refetchRequest
            /\ Push(info)
            /\ UNCHANGED <<fetchInProgress, tasks>>
         \/ /\ ~info.refetchRequest
            /\ info.url \notin fetchInProgress
            /\ fetchInProgress' = fetchInProgress \union {info.url}
            /\ submit(info, fetchQueue)
         \/ /\ ~info.refetchRequest
            /\ info.url \in fetchInProgress
            /\ UNCHANGED <<fetchInProgress, fetchQueue, tasks>>
    /\ UNCHANGED <<cache, running, finished, fetcher, tick, request>>

\* case <-ticker.C: enters the loop over the due entries of the queue.
Tick ==
    /\ fetcher = "select"
    /\ tick
    /\ tick' = FALSE
    /\ fetcher' = "draining"
    /\ UNCHANGED <<cache, configReceiver, fetchInProgress, fetchQueue, tasks,
                   running, finished, request>>

\* The indices heap.Pop may return: those of the entries with the least time.
Tops == {i \in DOMAIN fetchQueue :
            \A j \in DOMAIN fetchQueue : fetchQueue[i].due <= fetchQueue[j].due}

\* One iteration of the loop: pop the top entry and submit it.
Drain ==
    /\ fetcher = "draining"
    /\ \E i \in Tops :
         /\ fetchQueue[i].due = 0
         /\ submit(fetchQueue[i], RemoveAt(fetchQueue, i))
    /\ UNCHANGED <<cache, configReceiver, fetchInProgress, running, finished,
                   fetcher, tick, request>>

\* The loop condition fails: nothing queued, or the top is not due yet.
DrainEnd ==
    /\ fetcher = "draining"
    /\ \A i \in Tops : fetchQueue[i].due > 0
    /\ fetcher' = "select"
    /\ UNCHANGED <<cache, configReceiver, fetchInProgress, fetchQueue, tasks,
                   running, finished, tick, request>>

-----------------------------------------------------------------------------
\* pond: an idle worker takes the oldest task and starts worker().
Start ==
    /\ tasks # <<>>
    /\ Len(running) + Len(finished) < Workers
    /\ tasks' = Tail(tasks)
    /\ running' = Append(running, Head(tasks))
    /\ UNCHANGED <<cache, configReceiver, fetchInProgress, fetchQueue,
                   finished, fetcher, tick, request>>

\* worker() goes on to the refetch send, unless the retries are used up.
Repost(info) ==
    IF info.retryCount < MaxRetries
    THEN finished' = Append(finished, [info EXCEPT !.due = Period,
                                                   !.refetchRequest = TRUE])
    ELSE UNCHANGED finished

\* worker(): fetchAndValidate returned floor data.  A max-age header replaces
\* the account's max age; a value outside (Period, MaxInt32) is only logged.
FetchSucceeds(i, age) ==
    /\ LET info == running[i]
           cacheExpiry == IF age # 0 THEN age ELSE MaxAge
       IN /\ cache' = [cache EXCEPT ![info.url] = cacheExpiry]
          /\ Repost([info EXCEPT !.retryCount = 0])
    /\ running' = RemoveAt(running, i)
    /\ UNCHANGED <<configReceiver, fetchInProgress, fetchQueue, tasks,
                   fetcher, tick, request>>

\* worker(): the download or its validation failed.
FetchFails(i) ==
    /\ Repost([running[i] EXCEPT !.retryCount = @ + 1])
    /\ running' = RemoveAt(running, i)
    /\ UNCHANGED <<cache, configReceiver, fetchInProgress, fetchQueue, tasks,
                   fetcher, tick, request>>

\* worker(): the refetch send, which blocks while the channel is full.
RefetchSend(i) ==
    /\ Len(configReceiver) < Capacity
    /\ configReceiver' = Append(configReceiver, finished[i])
    /\ finished' = RemoveAt(finished, i)
    /\ UNCHANGED <<cache, fetchInProgress, fetchQueue, tasks, running,
                   fetcher, tick, request>>

-----------------------------------------------------------------------------
\* One refetchCheckInterval passes: countdowns move and ticker.C, a channel of
\* capacity one, holds a tick.
Elapsed(q) == [i \in DOMAIN q |-> [q[i] EXCEPT !.due = Elapse(@)]]

AdvanceClock ==
    /\ cache' = [u \in URLs |-> Elapse(cache[u])]
    /\ configReceiver' = Elapsed(configReceiver)
    /\ fetchQueue' = Elapsed(fetchQueue)
    /\ tasks' = Elapsed(tasks)
    /\ running' = Elapsed(running)
    /\ finished' = Elapsed(finished)
    /\ tick' = TRUE
    /\ UNCHANGED <<fetchInProgress, fetcher, request>>

\* freecache evicts entries when it runs out of space.
Evict(u) ==
    /\ cache[u] > 0
    /\ cache' = [cache EXCEPT ![u] = 0]
    /\ UNCHANGED <<configReceiver, fetchInProgress, fetchQueue, tasks, running,
                   finished, fetcher, tick, request>>

Next ==
    \/ \E r \in Requests : FetchSend(r) \/ \E u \in URLs : Fetch(r, u)
    \/ Receive \/ Tick \/ Drain \/ DrainEnd
    \/ Start
    \/ \E i \in DOMAIN running : FetchFails(i) \/ \E age \in HeaderAges : FetchSucceeds(i, age)
    \/ \E i \in DOMAIN finished : RefetchSend(i)
    \/ AdvanceClock
    \/ \E u \in URLs : Evict(u)

Spec == Init /\ [][Next]_vars

\* Go's select picks a ready case at random and channels serve blocked senders
\* in order, hence strong fairness; the pool and the clock go on.
FairSpec ==
    /\ Spec
    /\ SF_vars(Receive) /\ SF_vars(Tick) /\ WF_vars(Drain) /\ WF_vars(DrainEnd)
    /\ WF_vars(Start)
    /\ WF_vars(\E i \in DOMAIN running : FetchFails(i) \/ \E age \in HeaderAges : FetchSucceeds(i, age))
    /\ SF_vars(\E i \in DOMAIN finished : RefetchSend(i))
    /\ \A r \in Requests : SF_vars(FetchSend(r))
    /\ WF_vars(AdvanceClock)

-----------------------------------------------------------------------------
\* Every variable of the fetcher has its type; the channel and the pool hold no
\* more than their capacities.
TypeOK ==
    /\ cache \in [URLs -> Nat]
    /\ configReceiver \in Seq(FetchInfo) /\ Len(configReceiver) <= Capacity
    /\ fetchInProgress \subseteq URLs
    /\ fetchQueue \in Seq(FetchInfo)
    /\ tasks \in Seq(FetchInfo)
    /\ running \in Seq(FetchInfo)
    /\ finished \in Seq(FetchInfo)
    /\ Len(running) + Len(finished) <= Workers
    /\ InPool <= Capacity + Workers
    /\ fetcher \in {"select", "draining"}
    /\ tick \in BOOLEAN
    /\ request \in [Requests -> URLs \cup {"idle"}]

\* The jobs of URL u: where one is queued, in the pool, or on its way back.
At(place, q, u) == {place} \X {i \in DOMAIN q : q[i].url = u}
Jobs(u) ==
    {<<"configReceiver", i>> : i \in {k \in DOMAIN configReceiver :
                                        configReceiver[k].refetchRequest /\ configReceiver[k].url = u}}
    \cup At("fetchQueue", fetchQueue, u) \cup At("tasks", tasks, u)
    \cup At("running", running, u) \cup At("finished", finished, u)

\* However many auctions miss the cache for a URL, at once or later, the URL
\* has at most one job, so its file is never downloaded twice at a time and
\* its period is kept.
OneJobPerURL == \A u \in URLs : Cardinality(Jobs(u)) <= 1 /\ (Jobs(u) # {} => u \in fetchInProgress)

\* A job ends only in a worker that used up the retries: neither a full pool,
\* nor a full channel, nor a late tick loses it.
JobsEndOnlyByRetries ==
    [][\A u \in URLs :
         (Jobs(u) # {} /\ Jobs(u)' = {}) =>
            \E i \in DOMAIN running : running[i].url = u /\ running[i].retryCount + 1 >= MaxRetries]_vars

\* The header "value should be ... within (Period, MaxInt32)": what is stored
\* in the cache outlives the period after which it is fetched again.
EntryOutlivesPeriod ==
    [][\A u \in URLs : cache'[u] > cache[u] => cache'[u] > Period]_vars

\* "miss: push to channel to fetch and return empty response": an auction that misses
\* the cache gets its empty response.  It does not when the pool is full, its workers
\* wait to post refetches on a full channel, and the goroutine that reads the channel
\* keeps popping a due job that the pool refuses.
FetchReturns == \A r \in Requests : request[r] # "idle" ~> request[r] = "idle"

=============================================================================
