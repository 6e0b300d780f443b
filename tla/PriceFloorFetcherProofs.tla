----------------------- MODULE PriceFloorFetcherProofs ----------------------
(***************************************************************************)
(* Proofs about PriceFloorFetcher, for any number of URLs and requests,    *)
(* any pool, channel and retries: the bounds of pool and channel, at most  *)
(* one job per URL, and that a job ends only when its retries are used up. *)
(*                                                                         *)
(* A job moves between five places: the refetches in the channel, the      *)
(* priority queue, the pool's queue, the running and the finished workers. *)
(* Each place is seen as the set of the URLs it holds.                     *)
(***************************************************************************)
EXTENDS PriceFloorFetcher, FiniteSetTheorems, TLAPS

Urls(q) == {q[i].url : i \in DOMAIN q}
Alone(q) == \A i, j \in DOMAIN q : q[i].url = q[j].url => i = j

\* The same of the refetches in a channel.
Back(q) == {q[i].url : i \in {k \in DOMAIN q : q[k].refetchRequest}}
BackAlone(q) ==
    \A i, j \in DOMAIN q : q[i].refetchRequest /\ q[j].refetchRequest /\ q[i].url = q[j].url => i = j

Separate(A, B, C, D, E) ==
    /\ A \cap B = {} /\ A \cap C = {} /\ A \cap D = {} /\ A \cap E = {}
    /\ B \cap C = {} /\ B \cap D = {} /\ B \cap E = {}
    /\ C \cap D = {} /\ C \cap E = {} /\ D \cap E = {}

\* What makes OneJobPerURL inductive: a URL is in one place, there once, and only
\* when the Fetcher goroutine has accepted it; a worker posts only refetches.
Placed ==
    /\ BackAlone(configReceiver) /\ Alone(fetchQueue) /\ Alone(tasks) /\ Alone(running) /\ Alone(finished)
    /\ Separate(Back(configReceiver), Urls(fetchQueue), Urls(tasks), Urls(running), Urls(finished))
    /\ Back(configReceiver) \cup Urls(fetchQueue) \cup Urls(tasks) \cup Urls(running) \cup Urls(finished)
         \subseteq fetchInProgress
    /\ \A i \in DOMAIN finished : finished[i].refetchRequest

-----------------------------------------------------------------------------
(* Sequences of jobs                                                       *)

\* The second part of a concatenation.
LEMMA SecondPart ==
    ASSUME NEW S, NEW a \in Seq(S), NEW b \in Seq(S), NEW n, n = Len(a),
           NEW k \in (n + 1)..(n + Len(b))
    PROVE  (a \o b)[k] = b[k - n]
OBVIOUS

\* What RemoveAt leaves.
LEMMA RemoveAtIs ==
    ASSUME NEW S, NEW q \in Seq(S), NEW i \in DOMAIN q
    PROVE  /\ RemoveAt(q, i) \in Seq(S) /\ Len(RemoveAt(q, i)) = Len(q) - 1
           /\ \A k \in 1..(Len(q) - 1) : RemoveAt(q, i)[k] = IF k < i THEN q[k] ELSE q[k + 1]
<1>1. i \in 1..Len(q) /\ Len(q) \in Nat OBVIOUS
<1>2. SubSeq(q, 1, i - 1) \in Seq(S) /\ Len(SubSeq(q, 1, i - 1)) = i - 1
      /\ \A k \in 1..(i - 1) : SubSeq(q, 1, i - 1)[k] = q[k]
  BY <1>1
<1>3. SubSeq(q, i + 1, Len(q)) \in Seq(S) /\ Len(SubSeq(q, i + 1, Len(q))) = Len(q) - i
      /\ \A k \in 1..(Len(q) - i) : SubSeq(q, i + 1, Len(q))[k] = q[k + i]
  BY <1>1
<1> DEFINE a == SubSeq(q, 1, i - 1)
           b == SubSeq(q, i + 1, Len(q))
<1>4. RemoveAt(q, i) = a \o b BY DEF RemoveAt
<1> HIDE DEF a, b
<1>5. a \in Seq(S) /\ b \in Seq(S) /\ Len(a) = i - 1 /\ Len(b) = Len(q) - i BY <1>2, <1>3 DEF a, b
<1>6. a \o b \in Seq(S) /\ Len(a \o b) = Len(q) - 1 BY <1>1, <1>5
<1>7. ASSUME NEW k \in 1..(Len(q) - 1) PROVE (a \o b)[k] = IF k < i THEN q[k] ELSE q[k + 1]
  <2>1. CASE k < i
    <3>1. (a \o b)[k] = a[k] BY <1>1, <1>5, <2>1
    <3> QED BY <1>1, <1>2, <2>1, <3>1 DEF a
  <2>2. CASE ~(k < i)
    <3>1. k - (i - 1) \in 1..(Len(q) - i) /\ k - (i - 1) + i = k + 1 BY <1>1, <2>2
    <3>0. k \in ((i - 1) + 1)..((i - 1) + Len(b)) BY <1>1, <1>5, <2>2
    <3>2. (a \o b)[k] = b[k - (i - 1)]
      <4> DEFINE n == i - 1
      <4>1. n = Len(a) /\ k \in (n + 1)..(n + Len(b)) BY Zenon, <1>5, <3>0
      <4> HIDE DEF n
      <4>2. a \in Seq(S) /\ b \in Seq(S) BY Zenon, <1>5
      <4>3. (a \o b)[k] = b[k - n] BY <4>1, <4>2
      <4> QED BY Zenon, <4>3 DEF n
    <3>3. b[k - (i - 1)] = q[k - (i - 1) + i] BY <1>3, <3>1 DEF b
    <3> QED BY <2>2, <3>1, <3>2, <3>3
  <2> QED BY <2>1, <2>2
<1> QED BY <1>4, <1>6, <1>7

\* Taking a job out of a place takes its URL out.
LEMMA RemoveAtUrls ==
    ASSUME NEW q \in Seq(FetchInfo), NEW i \in DOMAIN q, Alone(q)
    PROVE  Urls(RemoveAt(q, i)) = Urls(q) \ {q[i].url} /\ Alone(RemoveAt(q, i))
<1> DEFINE p == RemoveAt(q, i)
<1>1. p \in Seq(FetchInfo) /\ Len(p) = Len(q) - 1 /\ Len(q) \in Nat /\ i \in 1..Len(q)
      /\ \A k \in 1..(Len(q) - 1) : p[k] = IF k < i THEN q[k] ELSE q[k + 1]
  BY RemoveAtIs
<1>2. DOMAIN p = 1..(Len(q) - 1) /\ DOMAIN q = 1..Len(q) BY <1>1
<1> HIDE DEF p
<1>3. Alone(p)
  <2> SUFFICES ASSUME NEW j \in DOMAIN p, NEW k \in DOMAIN p, p[j].url = p[k].url PROVE j = k BY DEF Alone
  <2> DEFINE from(n) == IF n < i THEN n ELSE n + 1
  <2>1. from(j) \in DOMAIN q /\ from(k) \in DOMAIN q BY <1>1, <1>2
  <2>2. p[j] = q[from(j)] /\ p[k] = q[from(k)] BY <1>1, <1>2
  <2>3. from(j) = from(k) BY <2>1, <2>2 DEF Alone
  <2> QED BY <1>1, <1>2, <2>3
<1>4. ASSUME NEW k \in DOMAIN p PROVE p[k].url \in Urls(q) \ {q[i].url}
  <2>1. CASE k < i BY <1>1, <1>2, <2>1 DEF Urls, Alone
  <2>2. CASE ~(k < i)
    <3>1. k + 1 \in DOMAIN q /\ k + 1 # i /\ i \in DOMAIN q /\ p[k] = q[k + 1] BY <1>1, <1>2, <2>2
    <3> QED BY Zenon, <3>1 DEF Urls, Alone
  <2> QED BY <2>1, <2>2
<1>5. ASSUME NEW k \in DOMAIN q, q[k].url # q[i].url PROVE q[k].url \in Urls(p)
  <2>1. CASE k < i
    <3>1. k \in DOMAIN p /\ p[k] = q[k] BY <1>1, <1>2, <2>1
    <3> QED BY <3>1 DEF Urls
  <2>2. CASE k > i
    <3>1. k - 1 \in DOMAIN p /\ p[k - 1] = q[k] BY <1>1, <1>2, <2>2
    <3> QED BY <3>1 DEF Urls
  <2> QED BY <1>1, <1>2, <1>5, <2>1, <2>2
<1>6. Urls(p) = Urls(q) \ {q[i].url} BY <1>4, <1>5 DEF Urls
<1> QED BY <1>3, <1>6 DEF p

\* Putting a job in adds its URL.
LEMMA AppendUrls ==
    ASSUME NEW q \in Seq(FetchInfo), NEW x \in FetchInfo
    PROVE  /\ Urls(Append(q, x)) = Urls(q) \cup {x.url}
           /\ (Alone(q) /\ x.url \notin Urls(q)) => Alone(Append(q, x))
           /\ Append(q, x) \in Seq(FetchInfo) /\ Len(Append(q, x)) = Len(q) + 1
<1> DEFINE p == Append(q, x)
<1>1. /\ p \in Seq(FetchInfo) /\ Len(p) = Len(q) + 1 /\ Len(q) \in Nat
      /\ DOMAIN p = 1..(Len(q) + 1) /\ DOMAIN q = 1..Len(q)
      /\ p[Len(q) + 1] = x /\ \A k \in 1..Len(q) : p[k] = q[k]
  OBVIOUS
<1> HIDE DEF p
<1>2. \A k \in DOMAIN p : p[k].url \in Urls(q) \cup {x.url} BY <1>1 DEF Urls
<1>3. \A k \in DOMAIN q : q[k].url \in Urls(p) BY <1>1 DEF Urls
<1>4. x.url \in Urls(p) BY <1>1 DEF Urls
<1>5. Urls(p) = Urls(q) \cup {x.url} BY <1>2, <1>3, <1>4 DEF Urls
<1>6. (Alone(q) /\ x.url \notin Urls(q)) => Alone(p) BY <1>1 DEF Alone, Urls
<1> QED BY <1>1, <1>5, <1>6 DEF p

\* The pool and the channel serve the oldest.
LEMMA TailUrls ==
    ASSUME NEW q \in Seq(FetchInfo), q # <<>>
    PROVE  /\ Tail(q) \in Seq(FetchInfo) /\ Head(q) \in FetchInfo /\ Len(Tail(q)) = Len(q) - 1
           /\ Alone(q) => Urls(Tail(q)) = Urls(q) \ {Head(q).url} /\ Alone(Tail(q)) /\ Head(q).url \in Urls(q)
           /\ BackAlone(q) => /\ BackAlone(Tail(q))
                              /\ Head(q).refetchRequest =>
                                   Back(Tail(q)) = Back(q) \ {Head(q).url} /\ Head(q).url \in Back(q)
                              /\ ~Head(q).refetchRequest => Back(Tail(q)) = Back(q)
<1> DEFINE p == Tail(q)
<1>1. /\ p \in Seq(FetchInfo) /\ Len(p) = Len(q) - 1 /\ Len(q) \in Nat \ {0}
      /\ DOMAIN p = 1..(Len(q) - 1) /\ DOMAIN q = 1..Len(q)
      /\ Head(q) = q[1] /\ q[1] \in FetchInfo /\ \A k \in 1..(Len(q) - 1) : p[k] = q[k + 1]
  OBVIOUS
<1> HIDE DEF p
<1>2. \A k \in DOMAIN q : k = 1 \/ (k - 1 \in DOMAIN p /\ p[k - 1] = q[k]) BY <1>1
<1>3. \A k \in DOMAIN p : k + 1 \in DOMAIN q /\ k + 1 # 1 /\ p[k] = q[k + 1] BY <1>1
<1>4. 1 \in DOMAIN q BY <1>1
<1>5. ASSUME Alone(q) PROVE Urls(p) = Urls(q) \ {q[1].url} /\ Alone(p) /\ q[1].url \in Urls(q)
  <2>1. ASSUME NEW j \in DOMAIN p, NEW k \in DOMAIN p, p[j].url = p[k].url PROVE j = k
    <3>1. j + 1 = k + 1 BY <1>3, <1>5, <2>1 DEF Alone
    <3> QED BY <1>1, <3>1
  <2>2. \A k \in DOMAIN p : p[k].url \in Urls(q) \ {q[1].url} BY <1>3, <1>4, <1>5 DEF Alone, Urls
  <2>3. \A k \in DOMAIN q : q[k].url # q[1].url => q[k].url \in Urls(p) BY <1>2 DEF Urls
  <2>4. Urls(p) = Urls(q) \ {q[1].url} BY <2>2, <2>3 DEF Urls
  <2> QED BY Zenon, <1>4, <2>1, <2>4 DEF Urls, Alone
<1>6. ASSUME BackAlone(q)
      PROVE  /\ BackAlone(p)
             /\ q[1].refetchRequest => Back(p) = Back(q) \ {q[1].url} /\ q[1].url \in Back(q)
             /\ ~q[1].refetchRequest => Back(p) = Back(q)
  <2>1. BackAlone(p)
    <3> SUFFICES ASSUME NEW j \in DOMAIN p, NEW k \in DOMAIN p,
                        p[j].refetchRequest, p[k].refetchRequest, p[j].url = p[k].url
                 PROVE  j = k
      BY DEF BackAlone
    <3>1. j + 1 = k + 1 BY <1>3, <1>6 DEF BackAlone
    <3> QED BY <1>1, <3>1
  <2>2. \A k \in DOMAIN p : p[k].refetchRequest => p[k].url \in Back(q) BY <1>3 DEF Back
  <2>3. \A k \in DOMAIN q : q[k].refetchRequest => k = 1 \/ q[k].url \in Back(p) BY <1>2 DEF Back
  <2>4. ASSUME q[1].refetchRequest PROVE \A k \in DOMAIN p : p[k].refetchRequest => p[k].url # q[1].url
    BY <1>3, <1>4, <1>6, <2>4 DEF BackAlone
  <2>5. ASSUME q[1].refetchRequest PROVE Back(p) = Back(q) \ {q[1].url} /\ q[1].url \in Back(q)
    <3>1. Back(p) \subseteq Back(q) \ {q[1].url} BY <2>2, <2>4, <2>5 DEF Back
    <3>2. Back(q) \ {q[1].url} \subseteq Back(p) BY <2>3 DEF Back
    <3> QED BY Zenon, <1>4, <2>5, <3>1, <3>2 DEF Back
  <2>6. ASSUME ~q[1].refetchRequest PROVE Back(p) = Back(q)
    <3>1. Back(p) \subseteq Back(q) BY <2>2 DEF Back
    <3>2. Back(q) \subseteq Back(p) BY <2>3, <2>6 DEF Back
    <3> QED BY Zenon, <3>1, <3>2
  <2> QED BY <2>1, <2>5, <2>6
<1> QED BY <1>1, <1>5, <1>6 DEF p

\* A send on the channel.
LEMMA AppendBack ==
    ASSUME NEW q \in Seq(FetchInfo), NEW x \in FetchInfo, BackAlone(q)
    PROVE  /\ ~x.refetchRequest => Back(Append(q, x)) = Back(q) /\ BackAlone(Append(q, x))
           /\ x.refetchRequest =>
                /\ Back(Append(q, x)) = Back(q) \cup {x.url}
                /\ x.url \notin Back(q) => BackAlone(Append(q, x))
<1> DEFINE p == Append(q, x)
<1>1. /\ Len(q) \in Nat /\ DOMAIN p = 1..(Len(q) + 1) /\ DOMAIN q = 1..Len(q)
      /\ p[Len(q) + 1] = x /\ \A k \in 1..Len(q) : p[k] = q[k]
  OBVIOUS
<1> HIDE DEF p
<1>2. \A k \in DOMAIN p : p[k].refetchRequest => p[k].url \in Back(q) \/ (x.refetchRequest /\ p[k].url = x.url)
  BY <1>1 DEF Back
<1>3. \A k \in DOMAIN q : q[k].refetchRequest => q[k].url \in Back(p) BY <1>1 DEF Back
<1>4. x.refetchRequest => x.url \in Back(p) BY <1>1 DEF Back
<1>5. ~x.refetchRequest => Back(p) = Back(q) BY <1>2, <1>3 DEF Back
<1>6. x.refetchRequest => Back(p) = Back(q) \cup {x.url} BY <1>2, <1>3, <1>4 DEF Back
<1>7. (~x.refetchRequest \/ x.url \notin Back(q)) => BackAlone(p) BY <1>1 DEF BackAlone, Back
<1> QED BY <1>5, <1>6, <1>7 DEF p

\* The clock moves no job.
LEMMA ElapsedUrls ==
    ASSUME NEW q \in Seq(FetchInfo)
    PROVE  /\ Elapsed(q) \in Seq(FetchInfo) /\ Len(Elapsed(q)) = Len(q) /\ DOMAIN Elapsed(q) = DOMAIN q
           /\ \A i \in DOMAIN q : Elapsed(q)[i].refetchRequest = q[i].refetchRequest
           /\ Urls(Elapsed(q)) = Urls(q) /\ Back(Elapsed(q)) = Back(q)
           /\ Alone(q) => Alone(Elapsed(q))
           /\ BackAlone(q) => BackAlone(Elapsed(q))
<1> DEFINE p == Elapsed(q)
<1>1. ASSUME NEW i \in DOMAIN q
      PROVE  p[i] \in FetchInfo /\ p[i].url = q[i].url /\ p[i].refetchRequest = q[i].refetchRequest
  <2>1. q[i] \in FetchInfo OBVIOUS
  <2>2. Period \in Nat BY FetcherAssumption
  <2>3. Elapse(q[i].due) \in 0..Period BY <2>1, <2>2 DEF Elapse, FetchInfo
  <2>4. p[i] = [q[i] EXCEPT !.due = Elapse(q[i].due)] BY DEF Elapsed
  <2> QED BY Zenon, <2>1, <2>3, <2>4 DEF FetchInfo
<1>2. DOMAIN p = 1..Len(q) /\ DOMAIN q = 1..Len(q) /\ Len(q) \in Nat BY DEF Elapsed
<1>3. p \in [1..Len(q) -> FetchInfo] BY <1>1, <1>2 DEF Elapsed
<1> HIDE DEF p
<1>4. p \in Seq(FetchInfo) /\ Len(p) = Len(q) BY <1>2, <1>3
<1>5. Urls(p) = Urls(q) BY <1>1, <1>2 DEF Urls
<1>6. Back(p) = Back(q) BY <1>1, <1>2 DEF Back
<1>7. (Alone(q) => Alone(p)) /\ (BackAlone(q) => BackAlone(p)) BY <1>1, <1>2 DEF Alone, BackAlone
<1> QED BY <1>1, <1>2, <1>4, <1>5, <1>6, <1>7 DEF p

-----------------------------------------------------------------------------
(* The steps of a job                                                      *)

\* submit puts the job into the pool or into the priority queue.
LEMMA SubmitMoves ==
    ASSUME TypeOK, NEW info \in FetchInfo, NEW queue \in Seq(FetchInfo), submit(info, queue)
    PROVE  /\ tasks' \in Seq(FetchInfo) /\ fetchQueue' \in Seq(FetchInfo)
           /\ Len(tasks') + Len(running) + Len(finished) <= Capacity + Workers
           /\ \/ Urls(tasks') = Urls(tasks) \cup {info.url} /\ Urls(fetchQueue') = Urls(queue)
              \/ Urls(tasks') = Urls(tasks) /\ Urls(fetchQueue') = Urls(queue) \cup {info.url}
           /\ (Alone(tasks) /\ Alone(queue) /\ info.url \notin Urls(tasks) \cup Urls(queue)) =>
                Alone(tasks') /\ Alone(fetchQueue')
<1>0. /\ tasks \in Seq(FetchInfo) /\ running \in Seq(FetchInfo) /\ finished \in Seq(FetchInfo)
      /\ Len(tasks) + Len(running) + Len(finished) <= Capacity + Workers
  BY DEF TypeOK, InPool
<1>1. CASE MayAccept /\ tasks' = Append(tasks, info) /\ fetchQueue' = queue
  <2>1. Len(tasks) + Len(running) + Len(finished) < Capacity + Workers BY <1>1 DEF MayAccept, InPool
  <2>2. Len(tasks') = Len(tasks) + 1 BY <1>0, <1>1, AppendUrls
  <2>3. Len(tasks') + Len(running) + Len(finished) <= Capacity + Workers
    BY <1>0, <2>1, <2>2, FetcherAssumption
  <2> QED BY <1>0, <1>1, <2>3, AppendUrls
<1>2. CASE fetchQueue' = Append(queue, info) /\ tasks' = tasks
  BY <1>0, <1>2, AppendUrls
<1> QED BY <1>1, <1>2 DEF submit

\* worker() posts the job as a refetch or drops it.
LEMMA RepostMoves ==
    ASSUME TypeOK, NEW info \in [url: URLs, due: 0..Period, refetchRequest: BOOLEAN, retryCount: Nat],
           Repost(info)
    PROVE  \/ finished' = finished /\ info.retryCount >= MaxRetries
           \/ \E x \in FetchInfo : x.url = info.url /\ x.refetchRequest /\ finished' = Append(finished, x)
<1>1. MaxRetries \in Nat /\ Period \in Nat BY FetcherAssumption
<1>2. CASE info.retryCount < MaxRetries
  <2> DEFINE x == [info EXCEPT !.due = Period, !.refetchRequest = TRUE]
  <2>1. x.refetchRequest = TRUE /\ x.url = info.url OBVIOUS
  <2>2. x \in FetchInfo
    <3>1. info.retryCount \in 0..MaxRetries /\ Period \in 0..Period BY <1>1, <1>2
    <3> QED BY Zenon, <1>1, <3>1 DEF FetchInfo
  <2>3. finished' = Append(finished, x) BY <1>2 DEF Repost
  <2> HIDE DEF x
  <2> QED BY <2>1, <2>2, <2>3
<1>3. CASE ~(info.retryCount < MaxRetries) BY <1>1, <1>3 DEF Repost
<1> QED BY <1>2, <1>3

\* A worker ends: its job leaves the running ones and is posted or dropped.
LEMMA WorkerMoves ==
    ASSUME TypeOK, NEW i \in DOMAIN running,
           FetchFails(i) \/ \E age \in HeaderAges : FetchSucceeds(i, age)
    PROVE  /\ running' = RemoveAt(running, i)
           /\ UNCHANGED <<configReceiver, fetchInProgress, fetchQueue, tasks, fetcher, tick, request>>
           /\ cache' \in [URLs -> Nat]
           /\ \/ finished' = finished /\ running[i].retryCount + 1 >= MaxRetries
              \/ \E x \in FetchInfo : x.url = running[i].url /\ x.refetchRequest /\ finished' = Append(finished, x)
<1>0. running[i] \in FetchInfo BY DEF TypeOK
<1>1. MaxRetries \in Nat /\ MaxAge \in Nat /\ HeaderAges \subseteq Nat BY FetcherAssumption
<1>2. CASE FetchFails(i)
  <2> DEFINE info == [running[i] EXCEPT !.retryCount = @ + 1]
  <2>1. info \in [url: URLs, due: 0..Period, refetchRequest: BOOLEAN, retryCount: Nat]
        /\ info.url = running[i].url /\ info.retryCount = running[i].retryCount + 1
    BY <1>0, <1>1 DEF FetchInfo
  <2>2. Repost(info) /\ running' = RemoveAt(running, i) /\ cache' = cache
        /\ UNCHANGED <<configReceiver, fetchInProgress, fetchQueue, tasks, fetcher, tick, request>>
    BY <1>2 DEF FetchFails
  <2> HIDE DEF info
  <2> QED BY <2>1, <2>2, RepostMoves DEF TypeOK
<1>3. ASSUME NEW age \in HeaderAges, FetchSucceeds(i, age)
      PROVE  /\ running' = RemoveAt(running, i)
             /\ UNCHANGED <<configReceiver, fetchInProgress, fetchQueue, tasks, fetcher, tick, request>>
             /\ cache' \in [URLs -> Nat]
             /\ \/ finished' = finished /\ running[i].retryCount + 1 >= MaxRetries
                \/ \E x \in FetchInfo : x.url = running[i].url /\ x.refetchRequest /\ finished' = Append(finished, x)
  <2> DEFINE info == [running[i] EXCEPT !.retryCount = 0]
  <2>1. info \in [url: URLs, due: 0..Period, refetchRequest: BOOLEAN, retryCount: Nat]
        /\ info.url = running[i].url /\ info.retryCount = 0
    BY <1>0, <1>1 DEF FetchInfo
  <2>2. Repost(info) /\ running' = RemoveAt(running, i)
        /\ cache' = [cache EXCEPT ![running[i].url] = IF age # 0 THEN age ELSE MaxAge]
        /\ UNCHANGED <<configReceiver, fetchInProgress, fetchQueue, tasks, fetcher, tick, request>>
    BY <1>3 DEF FetchSucceeds
  <2>3. cache' \in [URLs -> Nat] BY <1>0, <1>1, <2>2 DEF TypeOK, FetchInfo
  <2>4. running[i].retryCount \in Nat BY <1>0, <1>1 DEF FetchInfo
  <2> HIDE DEF info
  <2>5. info.retryCount >= MaxRetries => running[i].retryCount + 1 >= MaxRetries BY <1>1, <2>1, <2>4
  <2> QED BY <2>1, <2>2, <2>3, <2>5, RepostMoves
<1> QED BY <1>2, <1>3

-----------------------------------------------------------------------------
(* Types                                                                   *)

\* Initially every variable has its type.
LEMMA TypeInit == Init => TypeOK
<1> SUFFICES ASSUME Init PROVE TypeOK OBVIOUS
<1>1. tick \in BOOLEAN BY Zenon DEF Init
<1>2. cache \in [URLs -> Nat] /\ request \in [Requests -> URLs \cup {"idle"}] BY DEF Init
<1>3. /\ configReceiver = <<>> /\ fetchQueue = <<>> /\ tasks = <<>> /\ running = <<>> /\ finished = <<>>
      /\ fetchInProgress = {} /\ fetcher = "select"
  BY DEF Init
<1>4. Len(configReceiver) <= Capacity /\ Len(running) + Len(finished) <= Workers /\ InPool <= Capacity + Workers
  BY <1>3, FetcherAssumption DEF InPool
<1> QED BY <1>1, <1>2, <1>3, <1>4 DEF TypeOK

\* Every step keeps the types, and pool and channel within their capacities.
LEMMA TypeNext == TypeOK /\ [Next]_vars => TypeOK'
<1> SUFFICES ASSUME TypeOK, [Next]_vars PROVE TypeOK' OBVIOUS
<1>0. /\ Workers \in Nat /\ Capacity \in Nat /\ Period \in Nat /\ MaxRetries \in Nat
      /\ configReceiver \in Seq(FetchInfo) /\ fetchQueue \in Seq(FetchInfo) /\ tasks \in Seq(FetchInfo)
      /\ running \in Seq(FetchInfo) /\ finished \in Seq(FetchInfo)
      /\ Len(running) + Len(finished) <= Workers /\ Len(configReceiver) <= Capacity
      /\ Len(tasks) + Len(running) + Len(finished) <= Capacity + Workers
  BY FetcherAssumption DEF TypeOK, InPool
<1>1. ASSUME NEW r \in Requests, NEW u \in URLs, Fetch(r, u) PROVE TypeOK'
  BY <1>1 DEF Fetch, TypeOK, InPool
<1>2. ASSUME NEW r \in Requests, FetchSend(r) PROVE TypeOK'
  <2> DEFINE x == [url |-> request[r], due |-> 0, refetchRequest |-> FALSE, retryCount |-> 0]
  <2>1. request[r] \in URLs BY <1>2 DEF FetchSend, TypeOK
  <2>2. x \in FetchInfo BY <1>0, <2>1 DEF FetchInfo
  <2>3. configReceiver' = Append(configReceiver, x) /\ Len(configReceiver) < Capacity BY <1>2 DEF FetchSend
  <2> HIDE DEF x
  <2>4. configReceiver' \in Seq(FetchInfo) /\ Len(configReceiver') <= Capacity BY <1>0, <2>2, <2>3, AppendUrls
  <2>5. request' \in [Requests -> URLs \cup {"idle"}] BY <1>2 DEF FetchSend, TypeOK
  <2> QED BY <1>2, <2>4, <2>5 DEF FetchSend, TypeOK, InPool
<1>3. CASE Receive
  <2> DEFINE info == Head(configReceiver)
  <2>1. configReceiver # <<>> /\ configReceiver' = Tail(configReceiver)
        /\ UNCHANGED <<cache, running, finished, fetcher, tick, request>>
    BY <1>3 DEF Receive
  <2>2. info \in FetchInfo /\ configReceiver' \in Seq(FetchInfo) /\ Len(configReceiver') <= Capacity
    BY <1>0, <2>1, TailUrls
  <2>3. info.url \in URLs BY <2>2 DEF FetchInfo
  <2>4. \/ Push(info) /\ UNCHANGED <<fetchInProgress, tasks>>
        \/ fetchInProgress' = fetchInProgress \cup {info.url} /\ submit(info, fetchQueue)
        \/ UNCHANGED <<fetchInProgress, fetchQueue, tasks>>
    BY <1>3 DEF Receive
  <2> HIDE DEF info
  <2>5. fetchInProgress' \subseteq URLs BY <2>3, <2>4 DEF TypeOK
  <2>6. /\ fetchQueue' \in Seq(FetchInfo) /\ tasks' \in Seq(FetchInfo)
        /\ Len(tasks') + Len(running) + Len(finished) <= Capacity + Workers
    <3>1. CASE Push(info) /\ UNCHANGED tasks BY <1>0, <2>2, <3>1, AppendUrls DEF Push
    <3>2. CASE submit(info, fetchQueue) BY <1>0, <2>2, <3>2, SubmitMoves
    <3>3. CASE UNCHANGED <<fetchQueue, tasks>> BY <1>0, <3>3
    <3> QED BY <2>4, <3>1, <3>2, <3>3
  <2> QED BY <2>1, <2>2, <2>5, <2>6 DEF TypeOK, InPool
<1>4. CASE Tick \/ DrainEnd BY <1>4 DEF Tick, DrainEnd, TypeOK, InPool
<1>5. CASE Drain
  <2>1. PICK i \in DOMAIN fetchQueue : submit(fetchQueue[i], RemoveAt(fetchQueue, i))
    BY <1>5 DEF Drain, Tops
  <2>2. fetchQueue[i] \in FetchInfo /\ RemoveAt(fetchQueue, i) \in Seq(FetchInfo) BY <1>0, RemoveAtIs
  <2>3. /\ fetchQueue' \in Seq(FetchInfo) /\ tasks' \in Seq(FetchInfo)
        /\ Len(tasks') + Len(running) + Len(finished) <= Capacity + Workers
    BY <2>1, <2>2, SubmitMoves
  <2> QED BY <1>5, <2>3 DEF Drain, TypeOK, InPool
<1>6. CASE Start
  <2>1. tasks # <<>> /\ tasks' = Tail(tasks) /\ running' = Append(running, Head(tasks))
        /\ Len(running) + Len(finished) < Workers
    BY <1>6 DEF Start
  <2>2. /\ tasks' \in Seq(FetchInfo) /\ Len(tasks') = Len(tasks) - 1
        /\ running' \in Seq(FetchInfo) /\ Len(running') = Len(running) + 1
    BY <1>0, <2>1, TailUrls, AppendUrls
  <2>3. Len(running') + Len(finished) <= Workers /\ Len(tasks') + Len(running') + Len(finished) <= Capacity + Workers
    BY <1>0, <2>1, <2>2
  <2> QED BY <1>6, <2>2, <2>3 DEF Start, TypeOK, InPool
<1>7. ASSUME NEW i \in DOMAIN running, FetchFails(i) \/ \E age \in HeaderAges : FetchSucceeds(i, age) PROVE TypeOK'
  <2>1. running' \in Seq(FetchInfo) /\ Len(running') = Len(running) - 1 BY <1>0, <1>7, WorkerMoves, RemoveAtIs
  <2>2. finished' \in Seq(FetchInfo) /\ Len(finished') \in {Len(finished), Len(finished) + 1}
    BY <1>0, <1>7, WorkerMoves, AppendUrls
  <2>3. Len(running') + Len(finished') <= Workers /\ Len(tasks) + Len(running') + Len(finished') <= Capacity + Workers
    BY <1>0, <2>1, <2>2
  <2>4. cache' \in [URLs -> Nat] /\ UNCHANGED <<configReceiver, fetchInProgress, fetchQueue, tasks, fetcher, tick, request>>
    BY <1>7, WorkerMoves
  <2> QED BY <2>1, <2>2, <2>3, <2>4 DEF TypeOK, InPool
<1>8. ASSUME NEW i \in DOMAIN finished, RefetchSend(i) PROVE TypeOK'
  <2>1. configReceiver' = Append(configReceiver, finished[i]) /\ finished' = RemoveAt(finished, i)
        /\ Len(configReceiver) < Capacity
    BY <1>8 DEF RefetchSend
  <2>2. finished' \in Seq(FetchInfo) /\ Len(finished') = Len(finished) - 1 BY <1>0, <2>1, RemoveAtIs
  <2>3. configReceiver' \in Seq(FetchInfo) /\ Len(configReceiver') <= Capacity BY <1>0, <2>1, AppendUrls
  <2>4. Len(running) + Len(finished') <= Workers /\ Len(tasks) + Len(running) + Len(finished') <= Capacity + Workers
    BY <1>0, <2>2
  <2> QED BY <1>8, <2>2, <2>3, <2>4 DEF RefetchSend, TypeOK, InPool
<1>9. CASE AdvanceClock
  <2>1. cache' \in [URLs -> Nat] BY <1>9 DEF AdvanceClock, TypeOK, Elapse
  <2>2. /\ configReceiver' \in Seq(FetchInfo) /\ Len(configReceiver') = Len(configReceiver)
        /\ fetchQueue' \in Seq(FetchInfo)
        /\ tasks' \in Seq(FetchInfo) /\ Len(tasks') = Len(tasks)
        /\ running' \in Seq(FetchInfo) /\ Len(running') = Len(running)
        /\ finished' \in Seq(FetchInfo) /\ Len(finished') = Len(finished)
    BY <1>0, <1>9, ElapsedUrls DEF AdvanceClock
  <2> QED BY <1>9, <2>1, <2>2 DEF AdvanceClock, TypeOK, InPool
<1>10. ASSUME NEW u \in URLs, Evict(u) PROVE TypeOK' BY <1>10 DEF Evict, TypeOK, InPool
<1>11. CASE UNCHANGED vars BY <1>11 DEF vars, TypeOK, InPool
<1> QED BY <1>1, <1>2, <1>3, <1>4, <1>5, <1>6, <1>7, <1>8, <1>9, <1>10, <1>11 DEF Next

\* The fetcher keeps its types: in particular neither the channel nor the pool ever
\* holds more than its capacity.
THEOREM FetcherTypeCorrect == Spec => []TypeOK
BY TypeInit, TypeNext, PTL DEF Spec

-----------------------------------------------------------------------------
(* One job per URL                                                         *)

\* The URLs with a job, and what a step may do to them: only a worker that used
\* up the retries ends a job.
Busy == Back(configReceiver) \cup Urls(fetchQueue) \cup Urls(tasks) \cup Urls(running) \cup Urls(finished)
Kept ==
    \A u \in Busy \ Busy' :
      \E i \in DOMAIN running : running[i].url = u /\ running[i].retryCount + 1 >= MaxRetries

\* Initially there is no job.
LEMMA PlacedInit == Init => Placed
BY DEF Init, Placed, Separate, Urls, Alone, Back, BackAlone

\* Every step keeps a URL's job in one place.
LEMMA PlacedNext == TypeOK /\ Placed /\ [Next]_vars => Placed' /\ Kept
<1> SUFFICES ASSUME TypeOK, Placed, [Next]_vars PROVE Placed' /\ Kept OBVIOUS
<1>0. /\ configReceiver \in Seq(FetchInfo) /\ fetchQueue \in Seq(FetchInfo) /\ tasks \in Seq(FetchInfo)
      /\ running \in Seq(FetchInfo) /\ finished \in Seq(FetchInfo)
  BY DEF TypeOK
<1> DEFINE B == Back(configReceiver)
           Q == Urls(fetchQueue)
           T == Urls(tasks)
           R == Urls(running)
           F == Urls(finished)
<1>p. /\ BackAlone(configReceiver) /\ Alone(fetchQueue) /\ Alone(tasks) /\ Alone(running) /\ Alone(finished)
      /\ Separate(B, Q, T, R, F) /\ B \cup Q \cup T \cup R \cup F \subseteq fetchInProgress
      /\ \A i \in DOMAIN finished : finished[i].refetchRequest
  BY DEF Placed
<1> HIDE DEF B, Q, T, R, F
<1>1. ASSUME NEW r \in Requests, NEW u \in URLs, Fetch(r, u) PROVE Placed' /\ Kept
  BY <1>1 DEF Fetch, Placed, Kept, Busy
<1>2. ASSUME NEW r \in Requests, FetchSend(r) PROVE Placed' /\ Kept
  <2> DEFINE x == [url |-> request[r], due |-> 0, refetchRequest |-> FALSE, retryCount |-> 0]
  <2>1. request[r] \in URLs BY <1>2 DEF FetchSend, TypeOK
  <2>2. x \in FetchInfo BY <2>1, FetcherAssumption DEF FetchInfo
  <2>3. x.refetchRequest = FALSE OBVIOUS
  <2>4. configReceiver' = Append(configReceiver, x) BY <1>2 DEF FetchSend
  <2> HIDE DEF x
  <2>5. ~x.refetchRequest BY <2>3
  <2>6. Back(configReceiver') = B /\ BackAlone(configReceiver') BY <1>0, <1>p, <2>2, <2>4, <2>5, AppendBack DEF B
  <2>7. UNCHANGED <<fetchQueue, tasks, running, finished, fetchInProgress>> BY <1>2 DEF FetchSend
  <2>k. Kept BY <2>6, <2>7 DEF Kept, Busy, B, Q, T, R, F
  <2> QED BY <2>6, <2>7, <2>k DEF Placed, B
<1>3. CASE Receive
  <2> DEFINE info == Head(configReceiver)
  <2>1. configReceiver # <<>> /\ configReceiver' = Tail(configReceiver)
        /\ UNCHANGED <<cache, running, finished, fetcher, tick, request>>
    BY <1>3 DEF Receive
  <2>2. /\ info \in FetchInfo /\ BackAlone(configReceiver')
        /\ info.refetchRequest => Back(configReceiver') = B \ {info.url} /\ info.url \in B
        /\ ~info.refetchRequest => Back(configReceiver') = B
    BY <1>0, <1>p, <2>1, TailUrls DEF B
  <2>3. CASE info.refetchRequest
    <3>1. fetchQueue' = Append(fetchQueue, info) /\ UNCHANGED <<fetchInProgress, tasks>>
      BY <1>3, <2>3 DEF Receive, Push
    <3>2. Back(configReceiver') = B \ {info.url} /\ info.url \in B BY <2>2, <2>3
    <3>3. info.url \notin Q BY <1>p, <3>2 DEF Separate
    <3>4. Urls(fetchQueue') = Q \cup {info.url} /\ Alone(fetchQueue') BY <1>0, <1>p, <2>2, <3>1, <3>3, AppendUrls DEF Q
    <3>5. Separate(B \ {info.url}, Q \cup {info.url}, T, R, F) BY <1>p, <3>2 DEF Separate
    <3>6. (B \ {info.url}) \cup (Q \cup {info.url}) \cup T \cup R \cup F \subseteq fetchInProgress BY <1>p, <3>2
    <3>k. Kept BY <1>p, <2>1, <2>2, <3>1, <3>2, <3>4, <3>5, <3>6 DEF Kept, Busy, B, Q, T, R, F
    <3> QED BY Zenon, <1>p, <2>1, <2>2, <3>1, <3>2, <3>4, <3>5, <3>6, <3>k DEF Placed, T, R, F
  <2>4. CASE ~info.refetchRequest /\ info.url \notin fetchInProgress
    <3>1. fetchInProgress' = fetchInProgress \cup {info.url} /\ submit(info, fetchQueue)
      BY <1>3, <2>4 DEF Receive
    <3>2. Back(configReceiver') = B BY <2>2, <2>4
    <3>3. info.url \notin B \cup Q \cup T \cup R \cup F BY <1>p, <2>4
    <3>4. \/ Urls(tasks') = T \cup {info.url} /\ Urls(fetchQueue') = Q
          \/ Urls(tasks') = T /\ Urls(fetchQueue') = Q \cup {info.url}
      BY <1>0, <2>2, <3>1, SubmitMoves DEF T, Q
    <3>5. Alone(tasks') /\ Alone(fetchQueue') BY <1>0, <1>p, <2>2, <3>1, <3>3, SubmitMoves DEF T, Q
    <3>6. Separate(B, Urls(fetchQueue'), Urls(tasks'), R, F) BY <1>p, <3>3, <3>4 DEF Separate
    <3>7. B \cup Urls(fetchQueue') \cup Urls(tasks') \cup R \cup F \subseteq fetchInProgress' BY <1>p, <3>1, <3>4
    <3>k. Kept BY <2>1, <3>2, <3>4 DEF Kept, Busy, B, Q, T
    <3> QED BY <1>p, <2>1, <2>2, <3>2, <3>5, <3>6, <3>7, <3>k DEF Placed, R, F
  <2>5. CASE ~info.refetchRequest /\ info.url \in fetchInProgress
    <3>1. UNCHANGED <<fetchInProgress, fetchQueue, tasks>> BY <1>3, <2>5 DEF Receive
    <3>2. Back(configReceiver') = B BY <2>2, <2>5
    <3>k. Kept BY <1>p, <2>1, <2>2, <3>1, <3>2 DEF Kept, Busy, B, Q, T, R, F
    <3> QED BY <1>p, <2>1, <2>2, <3>1, <3>2, <3>k DEF Placed, B
  <2> QED BY <2>3, <2>4, <2>5
<1>4. CASE Tick \/ DrainEnd BY <1>4 DEF Tick, DrainEnd, Placed, Kept, Busy
<1>5. CASE Drain
  <2>1. PICK i \in DOMAIN fetchQueue : submit(fetchQueue[i], RemoveAt(fetchQueue, i))
    BY <1>5 DEF Drain, Tops
  <2> DEFINE info == fetchQueue[i]
             rest == RemoveAt(fetchQueue, i)
  <2>2. info \in FetchInfo /\ rest \in Seq(FetchInfo)
    <3>1. fetchQueue \in Seq(FetchInfo) BY Zenon, <1>0
    <3>2. info \in FetchInfo BY <3>1
    <3> QED BY Zenon, <3>1, <3>2, RemoveAtIs
  <2>3. Urls(rest) = Q \ {info.url} /\ Alone(rest) BY <1>0, <1>p, RemoveAtUrls DEF Q
  <2>4. info.url \in Q BY DEF Q, Urls
  <2>5. submit(info, rest) BY <2>1
  <2> HIDE DEF info, rest
  <2>6. info.url \notin T \cup Urls(rest) BY <1>p, <2>3, <2>4 DEF Separate
  <2>7. \/ Urls(tasks') = T \cup {info.url} /\ Urls(fetchQueue') = Q \ {info.url}
        \/ Urls(tasks') = T /\ Urls(fetchQueue') = (Q \ {info.url}) \cup {info.url}
    BY <2>2, <2>3, <2>5, SubmitMoves DEF T
  <2>8. Alone(tasks') /\ Alone(fetchQueue') BY <1>p, <2>2, <2>3, <2>5, <2>6, SubmitMoves DEF T
  <2>9. Separate(B, Urls(fetchQueue'), Urls(tasks'), R, F) BY <1>p, <2>4, <2>7 DEF Separate
  <2>10. B \cup Urls(fetchQueue') \cup Urls(tasks') \cup R \cup F \subseteq fetchInProgress BY <1>p, <2>4, <2>7
  <2>11. UNCHANGED <<configReceiver, fetchInProgress, running, finished>> BY <1>5 DEF Drain
  <2>k. Kept BY <2>4, <2>7, <2>11 DEF Kept, Busy, Q, T
  <2> QED BY <1>p, <2>8, <2>9, <2>10, <2>11, <2>k DEF Placed, B, R, F
<1>6. CASE Start
  <2>1. tasks # <<>> /\ tasks' = Tail(tasks) /\ running' = Append(running, Head(tasks))
        /\ UNCHANGED <<configReceiver, fetchInProgress, fetchQueue, finished>>
    BY <1>6 DEF Start
  <2> DEFINE info == Head(tasks)
  <2>2. info \in FetchInfo /\ Urls(tasks') = T \ {info.url} /\ Alone(tasks') /\ info.url \in T
    BY <1>0, <1>p, <2>1, TailUrls DEF T
  <2>3. running' = Append(running, info) BY <2>1
  <2> HIDE DEF info
  <2>4. info.url \notin R BY <1>p, <2>2 DEF Separate
  <2>5. Urls(running') = R \cup {info.url} /\ Alone(running') BY <1>0, <1>p, <2>2, <2>3, <2>4, AppendUrls DEF R
  <2>6. Separate(B, Q, T \ {info.url}, R \cup {info.url}, F) BY <1>p, <2>2 DEF Separate
  <2>7. B \cup Q \cup (T \ {info.url}) \cup (R \cup {info.url}) \cup F \subseteq fetchInProgress BY <1>p, <2>2
  <2>k. Kept BY <1>p, <2>1, <2>2, <2>5, <2>6, <2>7 DEF Kept, Busy, B, Q, T, R, F
  <2> QED BY Zenon, <1>p, <2>1, <2>2, <2>5, <2>6, <2>7, <2>k DEF Placed, B, Q, F
<1>7. ASSUME NEW i \in DOMAIN running, FetchFails(i) \/ \E age \in HeaderAges : FetchSucceeds(i, age) PROVE Placed' /\ Kept
  <2> DEFINE url == running[i].url
  <2>1. /\ running' = RemoveAt(running, i)
        /\ UNCHANGED <<configReceiver, fetchInProgress, fetchQueue, tasks>>
        /\ \/ finished' = finished /\ running[i].retryCount + 1 >= MaxRetries
           \/ \E x \in FetchInfo : x.url = url /\ x.refetchRequest /\ finished' = Append(finished, x)
    BY <1>7, WorkerMoves
  <2>2. Urls(running') = R \ {url} /\ Alone(running') BY <1>0, <1>p, <2>1, RemoveAtUrls DEF R
  <2>3. url \in R BY DEF R, Urls
  <2> HIDE DEF url
  <2>4. url \notin F BY <1>p, <2>3 DEF Separate
  <2>5. /\ \/ Urls(finished') = F /\ running[i].retryCount + 1 >= MaxRetries
           \/ Urls(finished') = F \cup {url}
        /\ Alone(finished') /\ \A k \in DOMAIN finished' : finished'[k].refetchRequest
    <3>1. CASE finished' = finished /\ running[i].retryCount + 1 >= MaxRetries BY <1>p, <3>1 DEF F
    <3>2. ASSUME NEW x \in FetchInfo, x.url = url, x.refetchRequest, finished' = Append(finished, x)
          PROVE  /\ Urls(finished') = F \cup {url}
                 /\ Alone(finished') /\ \A k \in DOMAIN finished' : finished'[k].refetchRequest
      <4>1. Urls(finished') = F \cup {url} /\ Alone(finished') BY <1>0, <1>p, <2>4, <3>2, AppendUrls DEF F
      <4>2. \A k \in DOMAIN finished' : finished'[k] = x \/ (k \in DOMAIN finished /\ finished'[k] = finished[k])
        BY <1>0, <3>2
      <4> QED BY <1>p, <3>2, <4>1, <4>2
    <3> QED BY <2>1, <3>1, <3>2
  <2>6. Separate(B, Q, T, R \ {url}, Urls(finished')) BY <1>p, <2>3, <2>5 DEF Separate
  <2>7. B \cup Q \cup T \cup (R \ {url}) \cup Urls(finished') \subseteq fetchInProgress BY <1>p, <2>3, <2>5
  <2>k. Kept
    <3> SUFFICES ASSUME NEW u \in Busy \ Busy'
                 PROVE  \E j \in DOMAIN running : running[j].url = u /\ running[j].retryCount + 1 >= MaxRetries
      BY DEF Kept
    <3>1. u = url /\ u \notin Urls(finished') BY <2>1, <2>2, <2>5 DEF Busy, R, F
    <3>2. running[i].retryCount + 1 >= MaxRetries BY <2>5, <3>1
    <3> QED BY <3>1, <3>2 DEF url
  <2> QED BY <1>p, <2>1, <2>2, <2>5, <2>6, <2>7, <2>k DEF Placed, B, Q, T
<1>8. ASSUME NEW i \in DOMAIN finished, RefetchSend(i) PROVE Placed' /\ Kept
  <2> DEFINE info == finished[i]
  <2>1. configReceiver' = Append(configReceiver, info) /\ finished' = RemoveAt(finished, i)
        /\ UNCHANGED <<fetchInProgress, fetchQueue, tasks, running>>
    BY <1>8 DEF RefetchSend
  <2>2. info \in FetchInfo /\ info.refetchRequest BY <1>0, <1>p
  <2>3. Urls(finished') = F \ {info.url} /\ Alone(finished') BY <1>0, <1>p, <2>1, RemoveAtUrls DEF F
  <2>4. info.url \in F BY DEF F, Urls
  <2>5. \A k \in DOMAIN finished' : finished'[k].refetchRequest
    <3>1. ASSUME NEW k \in DOMAIN finished' PROVE \E j \in DOMAIN finished : finished'[k] = finished[j]
      <4>1. Len(finished) \in Nat /\ DOMAIN finished = 1..Len(finished) /\ i \in 1..Len(finished) BY <1>0
      <4> DEFINE rest == RemoveAt(finished, i)
      <4>2. /\ rest \in Seq(FetchInfo) /\ Len(rest) = Len(finished) - 1
            /\ \A m \in 1..(Len(finished) - 1) : rest[m] = IF m < i THEN finished[m] ELSE finished[m + 1]
        BY <1>0, RemoveAtIs
      <4>3. finished' = rest BY <2>1
      <4> HIDE DEF rest
      <4>5. DOMAIN rest = 1..(Len(finished) - 1) BY <4>2
      <4>4. k \in 1..(Len(finished) - 1) /\ finished'[k] = IF k < i THEN finished[k] ELSE finished[k + 1]
        BY <4>2, <4>3, <4>5
      <4> QED BY <4>1, <4>4
    <3> QED BY <1>p, <3>1
  <2> HIDE DEF info
  <2>6. info.url \notin B BY <1>p, <2>4 DEF Separate
  <2>7. Back(configReceiver') = B \cup {info.url} /\ BackAlone(configReceiver')
    BY <1>0, <1>p, <2>1, <2>2, <2>6, AppendBack DEF B
  <2>8. Separate(B \cup {info.url}, Q, T, R, F \ {info.url}) BY <1>p, <2>4 DEF Separate
  <2>9. (B \cup {info.url}) \cup Q \cup T \cup R \cup (F \ {info.url}) \subseteq fetchInProgress BY <1>p, <2>4
  <2>k. Kept BY <1>p, <2>1, <2>3, <2>5, <2>7, <2>8, <2>9 DEF Kept, Busy, B, Q, T, R, F
  <2> QED BY <1>p, <2>1, <2>3, <2>5, <2>7, <2>8, <2>9, <2>k DEF Placed, Q, T, R
<1>9. CASE AdvanceClock
  <2>1. /\ configReceiver' = Elapsed(configReceiver) /\ fetchQueue' = Elapsed(fetchQueue)
        /\ tasks' = Elapsed(tasks) /\ running' = Elapsed(running) /\ finished' = Elapsed(finished)
        /\ UNCHANGED fetchInProgress
    BY <1>9 DEF AdvanceClock
  <2>2. /\ Back(configReceiver') = B /\ Urls(fetchQueue') = Q /\ Urls(tasks') = T /\ Urls(running') = R
        /\ Urls(finished') = F
    BY <1>0, <2>1, ElapsedUrls DEF B, Q, T, R, F
  <2>3. BackAlone(configReceiver') /\ Alone(fetchQueue') /\ Alone(tasks') /\ Alone(running') /\ Alone(finished')
    BY <1>0, <1>p, <2>1, ElapsedUrls
  <2>4. \A i \in DOMAIN finished' : finished'[i].refetchRequest BY ZenonT(40), <1>0, <1>p, <2>1, ElapsedUrls
  <2>k. Kept BY <1>p, <2>1, <2>2, <2>3, <2>4 DEF Kept, Busy, B, Q, T, R, F
  <2> QED BY <1>p, <2>1, <2>2, <2>3, <2>4, <2>k DEF Placed
<1>10. ASSUME NEW u \in URLs, Evict(u) PROVE Placed' /\ Kept BY <1>10 DEF Evict, Placed, Kept, Busy
<1>11. CASE UNCHANGED vars BY <1>11 DEF vars, Placed, Kept, Busy
<1> QED BY <1>1, <1>2, <1>3, <1>4, <1>5, <1>6, <1>7, <1>8, <1>9, <1>10, <1>11 DEF Next

\* Where a URL's job can be.
LEMMA JobIsPlaced ==
    ASSUME NEW u, NEW p \in Jobs(u)
    PROVE  \/ /\ u \in Back(configReceiver)
              /\ \E i \in DOMAIN configReceiver :
                   p = <<"configReceiver", i>> /\ configReceiver[i].refetchRequest /\ configReceiver[i].url = u
           \/ u \in Urls(fetchQueue) /\ \E i \in DOMAIN fetchQueue : p = <<"fetchQueue", i>> /\ fetchQueue[i].url = u
           \/ u \in Urls(tasks) /\ \E i \in DOMAIN tasks : p = <<"tasks", i>> /\ tasks[i].url = u
           \/ u \in Urls(running) /\ \E i \in DOMAIN running : p = <<"running", i>> /\ running[i].url = u
           \/ u \in Urls(finished) /\ \E i \in DOMAIN finished : p = <<"finished", i>> /\ finished[i].url = u
BY DEF Jobs, At, Urls, Back

\* A URL that is in one place has one job.
LEMMA PlacedIsOneJob == Placed => OneJobPerURL
<1> SUFFICES ASSUME Placed, NEW u \in URLs
             PROVE  Cardinality(Jobs(u)) <= 1 /\ (Jobs(u) # {} => u \in fetchInProgress)
  BY DEF OneJobPerURL
<1>1. Jobs(u) # {} => u \in fetchInProgress BY JobIsPlaced DEF Placed
<1>2. ASSUME NEW p \in Jobs(u), NEW q \in Jobs(u) PROVE p = q
  <2>1. CASE u \in Back(configReceiver)
    <3>1. u \notin Urls(fetchQueue) \cup Urls(tasks) \cup Urls(running) \cup Urls(finished)
      BY <2>1 DEF Placed, Separate
    <3> QED BY <3>1, JobIsPlaced DEF Placed, BackAlone
  <2>2. CASE u \in Urls(fetchQueue)
    <3>1. u \notin Back(configReceiver) \cup Urls(tasks) \cup Urls(running) \cup Urls(finished)
      BY <2>2 DEF Placed, Separate
    <3> QED BY <3>1, JobIsPlaced DEF Placed, Alone
  <2>3. CASE u \in Urls(tasks)
    <3>1. u \notin Back(configReceiver) \cup Urls(fetchQueue) \cup Urls(running) \cup Urls(finished)
      BY <2>3 DEF Placed, Separate
    <3> QED BY <3>1, JobIsPlaced DEF Placed, Alone
  <2>4. CASE u \in Urls(running)
    <3>1. u \notin Back(configReceiver) \cup Urls(fetchQueue) \cup Urls(tasks) \cup Urls(finished)
      BY <2>4 DEF Placed, Separate
    <3> QED BY <3>1, JobIsPlaced DEF Placed, Alone
  <2>5. CASE u \in Urls(finished)
    <3>1. u \notin Back(configReceiver) \cup Urls(fetchQueue) \cup Urls(tasks) \cup Urls(running)
      BY <2>5 DEF Placed, Separate
    <3> QED BY <3>1, JobIsPlaced DEF Placed, Alone
  <2> QED BY <2>1, <2>2, <2>3, <2>4, <2>5, JobIsPlaced
<1>3. CASE Jobs(u) = {} BY <1>1, <1>3, FS_EmptySet
<1>4. ASSUME NEW p \in Jobs(u) PROVE Cardinality(Jobs(u)) <= 1
  <2>1. Jobs(u) = {p} BY <1>2
  <2>2. Cardinality({p}) = 1 BY FS_Singleton
  <2> QED BY <2>1, <2>2
<1> QED BY <1>1, <1>3, <1>4

\* However many auctions miss the cache for a URL, the URL has at most one job, and
\* only when the Fetcher goroutine has accepted it.
THEOREM OneJobAlways == Spec => []OneJobPerURL
<1>1. Init => TypeOK /\ Placed BY TypeInit, PlacedInit
<1>2. TypeOK /\ Placed /\ [Next]_vars => (TypeOK /\ Placed)' BY TypeNext, PlacedNext
<1>3. Placed => OneJobPerURL BY PlacedIsOneJob
<1> QED BY <1>1, <1>2, <1>3, PTL DEF Spec

\* The URLs with a job are the busy ones.
LEMMA BusyHasJob == ASSUME NEW u PROVE Jobs(u) # {} <=> u \in Busy
<1>1. ASSUME Jobs(u) # {} PROVE u \in Busy
  <2>1. PICK p \in Jobs(u) : TRUE BY <1>1
  <2> QED BY <2>1, JobIsPlaced DEF Busy
<1>2. ASSUME u \in Busy PROVE Jobs(u) # {}
  <2>1. ASSUME NEW place, NEW q, u \in Urls(q) PROVE At(place, q, u) # {}
    <3>1. PICK i \in DOMAIN q : q[i].url = u BY <2>1 DEF Urls
    <3>2. i \in {k \in DOMAIN q : q[k].url = u} BY <3>1
    <3>3. <<place, i>> \in At(place, q, u) BY <3>2 DEF At
    <3> QED BY <3>3
  <2>2. ASSUME u \in Back(configReceiver) PROVE Jobs(u) # {}
    <3>1. PICK i \in DOMAIN configReceiver : configReceiver[i].refetchRequest /\ configReceiver[i].url = u
      BY <2>2 DEF Back
    <3>2. i \in {k \in DOMAIN configReceiver : configReceiver[k].refetchRequest /\ configReceiver[k].url = u}
      BY <3>1
    <3> QED BY Zenon, <3>2 DEF Jobs
  <2> QED BY <1>2, <2>1, <2>2 DEF Busy, Jobs
<1> QED BY <1>1, <1>2

\* A job of the price floor fetcher ends only in a worker whose download failed
\* MaxRetries times: no full pool, full channel, late tick or eviction loses it.
THEOREM OnlyRetriesEndJobs == Spec => JobsEndOnlyByRetries
<1> DEFINE Ends == \A u \in URLs :
                     (Jobs(u) # {} /\ Jobs(u)' = {}) =>
                       \E i \in DOMAIN running : running[i].url = u /\ running[i].retryCount + 1 >= MaxRetries
<1>1. Init => TypeOK /\ Placed BY TypeInit, PlacedInit
<1>2. TypeOK /\ Placed /\ [Next]_vars => (TypeOK /\ Placed)' BY TypeNext, PlacedNext
<1>3. TypeOK /\ Placed /\ [Next]_vars => [Ends]_vars
  <2> SUFFICES ASSUME TypeOK, Placed, [Next]_vars,
                      NEW u \in URLs, Jobs(u) # {}, Jobs(u)' = {}
               PROVE  \E i \in DOMAIN running : running[i].url = u /\ running[i].retryCount + 1 >= MaxRetries
    OBVIOUS
  <2>1. u \in Busy BY BusyHasJob
  <2>2. (Jobs(u) # {} <=> u \in Busy)' BY BusyHasJob, PTL
  <2>3. u \notin Busy' BY <2>2
  <2> QED BY <2>1, <2>3, PlacedNext DEF Kept
<1> HIDE DEF Ends
<1>4. Spec => [][Ends]_vars BY <1>1, <1>2, <1>3, PTL DEF Spec
<1> QED BY <1>4 DEF JobsEndOnlyByRetries, Ends
=============================================================================
