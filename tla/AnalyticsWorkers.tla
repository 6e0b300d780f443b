------------------------- MODULE AnalyticsWorkers -------------------------
(***************************************************************************)
(* The queue-and-worker analytics modules of exchange/src/analytics.rs:    *)
(* FileLogger, HttpAnalytics, one PubstackEventChannel with the            *)
(* configuration refresh of PubstackAnalytics, and AgmaAnalytics.  Each    *)
(* hands its events through an unbounded channel to one tokio task, which  *)
(* owns the batch and selects between the channel and a timer.             *)
(***************************************************************************)
EXTENDS Naturals, Sequences, FiniteSets, Functions

CONSTANTS Events,      \* <<e1, e2, ...>>: what the endpoints log, in order
          Accounts,    \* AgmaConfig.accounts, in order
          MaxCount,    \* batch_size / max_event_count
          MaxBytes,    \* max_byte_size / max_buffer_size
          MaxRefreshes \* bound on configuration refreshes

VARIABLES backend,   \* which module is running
          mailbox,   \* the mpsc channel: events and shutdown messages
          worker,    \* opening, receiving, posting, stopped or absent
          batch,     \* event indices held by the worker
          attempt,   \* attempts made of the HTTP post in progress
          closer,    \* whom the worker tells once the post in progress ends
          posts,     \* batches handed to detached tasks (pubstack, agma)
          sink,      \* event indices the intake has received, in order
          dropped,   \* event indices given up, with every reason for it
          silent,    \* those of them that no log line tells of
          logged,    \* how many events have been logged so far
          caller,    \* the task that calls shutdown: idle, waiting, returned
          refresher, \* the pubstack refresh task: idle, or closing channels
          refreshes, \* refreshes begun
          handle,    \* the module value: held, or dropped by its owner
          endpoint,  \* HttpAnalyticsConfig.endpoint, empty by default
          asked      \* how many events were logged when shutdown was called

ASSUME AnalyticsAssumption == Len(Events) \in Nat /\ MaxCount \in Nat \ {0}

analyticsVars == <<backend, mailbox, worker, batch, attempt, closer, posts, sink,
                   dropped, silent, logged, caller, refresher, refreshes, handle, endpoint, asked>>

Nobody == "nobody"
EventMsg(e) == [kind |-> "event", id |-> e, who |-> Nobody]
Shut(who) == [kind |-> "shutdown", id |-> 0, who |-> who]
EventsIn(box) == {m.id : m \in {n \in Range(box) : n.kind = "event"}}
Backends == {"file", "http", "pubstack", "agma"}

(* extract_publisher_and_site: the app's ids override the site's; the bundle
   stands in for an app without an id, unless a site gave one. *)
PublisherAndSite(request) ==
  LET pub == IF request.appPub # "" THEN request.appPub ELSE request.sitePub
      own == IF request.appId # "" THEN request.appId ELSE request.siteId
  IN  <<pub, IF own = "" THEN request.bundle ELSE own>>

(* match_account: the first account of the publisher whose site filter is
   empty or equal decides. *)
MatchAccount(request) ==
  LET ids == PublisherAndSite(request)
      fits(a) == a.pub = ids[1] /\ a.site \in {"", ids[2]}
  IN  ids # <<"", "">> /\ \E i \in DOMAIN Accounts : fits(Accounts[i])

(* Which events a module enqueues at all (try_enqueue: a missing request has
   no ids and matches no account; the other modules take
   every kind in this model, pubstack those of its enabled channel). *)
Tracked(e) ==
  backend = "agma" => e.status = 200 /\ MatchAccount(e.request)

Bytes(b) == FoldFunction(LAMBDA i, n : n + Events[i].bytes, 0, b)

(* The flush condition after an event joined the batch: http counts events only. *)
Full(b) == Len(b) >= MaxCount \/ (backend # "http" /\ Bytes(b) >= MaxBytes)

AnalyticsInit ==
  /\ backend \in Backends
  /\ worker = (IF backend = "file" THEN "opening" ELSE "receiving")
  /\ mailbox = <<>> /\ batch = <<>> /\ attempt = 0 /\ closer = Nobody
  /\ posts = {} /\ sink = <<>> /\ dropped = {}
  /\ logged = 0 /\ caller = "idle" /\ refresher = "idle" /\ refreshes = 0
  /\ handle = "held" /\ silent = {} /\ asked = Len(Events)
  /\ endpoint \in {"empty", "intake"} /\ (backend # "http" => endpoint = "intake")

Running == worker \notin {"stopped", "absent"}

Enqueue(box, msg) == Append(box, msg)

(* One log_* call.  Of the modules whose channel is closed only FileLogger logs
   an error; the others ignore what send returns.  A pubstack call waits for the
   locks the refresh holds; an absent channel is a disabled feature. *)
LogEvent ==
  /\ logged < Len(Events) /\ handle = "held" /\ refresher = "idle"
  /\ logged' = logged + 1
  /\ mailbox' = IF Tracked(Events[logged']) /\ Running THEN Enqueue(mailbox, EventMsg(logged')) ELSE mailbox
  /\ dropped' = IF Tracked(Events[logged']) /\ ~Running THEN dropped \cup {logged'} ELSE dropped
  /\ silent' = IF Tracked(Events[logged']) /\ worker = "stopped" /\ backend # "file" THEN silent \cup {logged'}
               ELSE silent
  /\ UNCHANGED <<backend, worker, batch, attempt, closer, posts, sink, caller,
                 refresher, refreshes, handle, endpoint, asked>>

(* FileLogger::new's task opens the file; a failure is logged and ends the task,
   and with it the channel. *)
OpenFile ==
  /\ worker = "opening"
  /\ \/ worker' = "receiving" /\ UNCHANGED <<mailbox, dropped, caller>>
     \/ /\ worker' = "stopped"
        /\ dropped' = dropped \cup EventsIn(mailbox)
        /\ caller' = IF caller = "waiting" THEN "returned" ELSE caller
        /\ mailbox' = <<>>
  /\ UNCHANGED <<backend, batch, attempt, closer, posts, sink, silent, logged, refresher,
                 refreshes, handle, endpoint, asked>>

(* A bug: shutdown() is not told. *)
StopSilently(who) ==
  /\ mailbox' = <<>>
  /\ IF who = "refresher"
     THEN refresher' = "idle" /\ worker' \in {"receiving", "absent"} /\ UNCHANGED caller
     ELSE worker' = "stopped" /\ UNCHANGED <<caller, refresher>>

(* The worker tells `who` it is done and stops: shutdown() returns, or the
   refresh puts its new channel, if the feature is still enabled, in place. *)
Stop(who) ==
  /\ mailbox' = <<>>
  /\ IF who = "refresher"
     THEN refresher' = "idle" /\ worker' \in {"receiving", "absent"} /\ UNCHANGED caller
     ELSE caller' = "returned" /\ worker' = "stopped" /\ UNCHANGED refresher

(* Two bugs: the batch is posted and kept; only a full batch is posted. *)
DetachCopy(b) == posts' = posts \cup (IF b = <<>> THEN {} ELSE {b}) /\ batch' = b
DetachFull(b) == IF Full(b) THEN posts' = posts \cup {b} /\ batch' = <<>> ELSE batch' = b /\ UNCHANGED posts

(* pubstack and agma: do_flush! hands the batch to a task of its own. *)
Detach(b) == posts' = posts \cup (IF b = <<>> THEN {} ELSE {b}) /\ batch' = <<>>

(* file: one line is written, or the write fails, before the next message. *)
WriteLine(e) ==
  /\ \/ sink' = Append(sink, e) /\ UNCHANGED dropped
     \/ dropped' = dropped \cup {e} /\ UNCHANGED sink
  /\ UNCHANGED <<batch, attempt, posts, worker>>

(* http: the worker itself posts a full batch, and takes nothing meanwhile. *)
BatchHttp(e) ==
  /\ batch' = Append(batch, e)
  /\ IF Full(batch') THEN worker' = "posting" /\ attempt' = 1 ELSE UNCHANGED <<worker, attempt>>
  /\ UNCHANGED <<posts, sink, dropped>>

BatchDetached(e) ==
  /\ IF Full(Append(batch, e)) THEN Detach(Append(batch, e))
     ELSE batch' = Append(batch, e) /\ UNCHANGED posts
  /\ UNCHANGED <<worker, attempt, sink, dropped>>

ReceiveEvent ==
  /\ worker = "receiving" /\ mailbox # <<>> /\ Head(mailbox).kind = "event"
  /\ mailbox' = Tail(mailbox)
  /\ CASE backend = "file" -> WriteLine(Head(mailbox).id)
       [] backend = "http" -> BatchHttp(Head(mailbox).id)
       [] OTHER            -> BatchDetached(Head(mailbox).id)
  /\ UNCHANGED <<backend, closer, silent, logged, caller, refresher, refreshes, handle, endpoint, asked>>

(* A shutdown message: flush, tell whoever sent it, stop.  Whatever is still
   queued behind it is dropped with the channel. *)
ReceiveShutdown ==
  /\ worker = "receiving" /\ mailbox # <<>> /\ Head(mailbox).kind = "shutdown"
  /\ IF backend = "http" /\ batch # <<>>
     THEN /\ worker' = "posting" /\ attempt' = 1 /\ closer' = Head(mailbox).who
          /\ mailbox' = Tail(mailbox)
          /\ UNCHANGED <<batch, posts, dropped, silent, caller, refresher>>
     ELSE /\ IF backend \in {"pubstack", "agma"} THEN Detach(batch) ELSE UNCHANGED <<batch, posts>>
          /\ dropped' = dropped \cup EventsIn(Tail(mailbox))
          /\ silent' = silent \cup EventsIn(Tail(mailbox))
          /\ Stop(Head(mailbox).who)
          /\ UNCHANGED <<attempt, closer>>
  /\ UNCHANGED <<backend, sink, logged, refreshes, handle, endpoint, asked>>

(* A bug: the timer is never polled. *)
NoTimer == FALSE /\ UNCHANGED analyticsVars

(* The flush timer; the file logger has none. *)
FlushTimer ==
  /\ worker = "receiving" /\ backend # "file" /\ batch # <<>>
  /\ IF backend = "http"
     THEN worker' = "posting" /\ attempt' = 1 /\ UNCHANGED <<batch, posts>>
     ELSE Detach(batch) /\ UNCHANGED <<worker, attempt>>
  /\ UNCHANGED <<backend, mailbox, closer, sink, dropped, silent, logged, caller,
                 refresher, refreshes, handle, endpoint, asked>>

(* flush_batch of HttpAnalytics: up to three attempts of the same payload, each
   failure logged.  The intake may have taken a payload whose answer is an error
   or is lost.  Without an endpoint the batch is cleared, and nothing is logged. *)
MaxAttempts == 3
HttpPost ==
  /\ worker = "posting"
  /\ \E taken, ok \in BOOLEAN :
       /\ ok => taken
       /\ taken => endpoint # "empty"
       /\ sink' = IF taken THEN sink \o batch ELSE sink
       /\ IF ok \/ attempt = MaxAttempts \/ endpoint = "empty"
          THEN /\ batch' = <<>> /\ attempt' = 0 /\ closer' = Nobody
               /\ dropped' = dropped \cup (IF ok THEN {} ELSE Range(batch))
                                     \cup (IF closer = Nobody THEN {} ELSE EventsIn(mailbox))
               /\ silent' = silent \cup (IF endpoint = "empty" THEN Range(batch) ELSE {})
                                   \cup (IF closer = Nobody THEN {} ELSE EventsIn(mailbox))
               /\ IF closer = Nobody THEN worker' = "receiving" /\ UNCHANGED <<mailbox, caller, refresher>>
                  ELSE Stop(closer)
          ELSE attempt' = attempt + 1
               /\ UNCHANGED <<batch, closer, dropped, silent, worker, mailbox, caller, refresher>>
  /\ UNCHANGED <<backend, posts, logged, refreshes, handle, endpoint, asked>>

(* A detached post ends, or fails and is logged; it is never retried. *)
DetachedPost ==
  /\ \E p \in posts :
       /\ posts' = posts \ {p}
       /\ \/ sink' = sink \o p /\ UNCHANGED dropped
          \/ dropped' = dropped \cup Range(p) /\ UNCHANGED sink
  /\ UNCHANGED <<backend, mailbox, worker, batch, attempt, closer, silent, logged, caller,
                 refresher, refreshes, handle, endpoint, asked>>

(* shutdown(): a closed or missing channel has nothing to wait for. *)
CallShutdown ==
  /\ caller = "idle" /\ handle = "held" /\ refresher = "idle"
  /\ IF Running THEN mailbox' = Enqueue(mailbox, Shut("caller")) /\ caller' = "waiting"
     ELSE caller' = "returned" /\ UNCHANGED mailbox
  /\ asked' = logged
  /\ UNCHANGED <<backend, worker, batch, attempt, closer, posts, sink, dropped, silent, logged,
                 refresher, refreshes, handle, endpoint>>

(* PubstackAnalytics' refresh task: with both locks held it closes the channel
   it replaces; a channel that is already closed is replaced at once. *)
RefreshConfig ==
  /\ backend = "pubstack" /\ handle = "held" /\ refresher = "idle" /\ caller # "waiting"
  /\ refreshes < MaxRefreshes /\ refreshes' = refreshes + 1
  /\ IF Running
     THEN refresher' = "closing" /\ mailbox' = Enqueue(mailbox, Shut("refresher")) /\ UNCHANGED worker
     ELSE worker' \in {"receiving", "absent"} /\ UNCHANGED <<refresher, mailbox>>
  /\ UNCHANGED <<backend, batch, attempt, closer, posts, sink, dropped, silent, logged, caller,
                 handle, endpoint, asked>>

(* The owner drops the module without calling shutdown. *)
DropModule ==
  /\ handle = "held" /\ caller = "idle" /\ refresher = "idle" /\ handle' = "dropped"
  /\ UNCHANGED <<backend, mailbox, worker, batch, attempt, closer, posts, sink, dropped,
                 silent, logged, caller, refresher, refreshes, endpoint, asked>>

(* A bug: every worker breaks out of its loop as the http worker does. *)
BreakAtOnce ==
  /\ handle = "dropped" /\ worker = "receiving" /\ mailbox = <<>> /\ worker' = "stopped"
  /\ dropped' = dropped \cup Range(batch) /\ silent' = silent \cup Range(batch)
  /\ batch' = <<>>
  /\ UNCHANGED <<backend, mailbox, attempt, closer, posts, sink, logged, caller, refresher,
                 refreshes, handle, endpoint, asked>>

(* recv() returns None: the http worker breaks without a flush or a word. *)
ChannelClosed ==
  /\ handle = "dropped" /\ worker = "receiving" /\ mailbox = <<>> /\ worker' = "stopped"
  /\ IF backend = "http"
     THEN /\ dropped' = dropped \cup Range(batch) /\ batch' = <<>> /\ UNCHANGED posts
          /\ silent' = silent \cup Range(batch)
     ELSE Detach(batch) /\ UNCHANGED <<dropped, silent>>
  /\ UNCHANGED <<backend, mailbox, attempt, closer, sink, logged, caller, refresher,
                 refreshes, handle, endpoint, asked>>

AnalyticsNext ==
  \/ LogEvent \/ OpenFile \/ ReceiveEvent \/ ReceiveShutdown \/ FlushTimer \/ HttpPost
  \/ DetachedPost \/ CallShutdown \/ RefreshConfig \/ DropModule \/ ChannelClosed

(* The runtime keeps polling the worker, its timer and the posts; nobody is
   obliged to log, to shut down, to refresh or to drop the module. *)
AnalyticsFairness ==
  /\ WF_analyticsVars(OpenFile) /\ WF_analyticsVars(ReceiveEvent)
  /\ WF_analyticsVars(ReceiveShutdown) /\ WF_analyticsVars(FlushTimer)
  /\ WF_analyticsVars(HttpPost) /\ WF_analyticsVars(DetachedPost)
  /\ WF_analyticsVars(ChannelClosed)

AnalyticsSpec == AnalyticsInit /\ [][AnalyticsNext]_analyticsVars /\ AnalyticsFairness

-----------------------------------------------------------------------------

(* Types: a batch never exceeds its limit, and every index is a logged event. *)
AnalyticsTypeOK ==
  /\ backend \in Backends
  /\ worker \in {"opening", "receiving", "posting", "stopped", "absent"}
  /\ caller \in {"idle", "waiting", "returned"} /\ refresher \in {"idle", "closing"}
  /\ attempt \in 0..MaxAttempts /\ Len(batch) <= MaxCount
  /\ logged \in 0..Len(Events) /\ dropped \subseteq 1..logged
  /\ Range(sink) \cup Range(batch) \subseteq 1..logged

Accepted == {e \in 1..logged : Tracked(Events[e])}
Posted == Range(sink) \cup UNION {Range(p) : p \in posts}

(* Only HttpAnalytics, which retries a payload the intake may already have
   taken, can deliver an event twice: a batch is handed on exactly once by the
   other three, whatever the order of timer, limit, refresh and shutdown. *)
DeliveredAtMostOnce == backend # "http" => IsInjective(sink)

(* A worker that stopped leaves no event behind in its batch or its channel:
   each has been posted or given up, and shutdown() does not return before
   that.  Whether anybody is told of those given up is the next property. *)
StopsEmptyHanded ==
  worker = "stopped" => batch = <<>> /\ mailbox = <<>> /\ Accepted = Posted \cup dropped

(* An event is lost without a log line only when it was logged after shutdown()
   was called, so that it queued behind the shutdown message or found the channel
   closed, or when HttpAnalytics has no endpoint or is dropped without a
   shutdown.  What was logged before a shutdown is flushed first. *)
OnlyLateEventsVanish ==
  \A e \in silent : e > asked \/ (backend = "http" /\ (handle = "dropped" \/ endpoint = "empty"))

(* shutdown() returns. *)
ShutdownReturns == caller = "waiting" ~> caller = "returned"

(* No event stays buffered for ever: the timer flushes what the limits do not,
   and a post that fails gives its events up. *)
EveryEventLeaves ==
  \A e \in 1..Len(Events) :
    (logged >= e /\ Tracked(Events[e])) ~> (e \in Range(sink) \cup dropped)
=============================================================================
