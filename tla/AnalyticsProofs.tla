--------------------------- MODULE AnalyticsProofs ---------------------------
(***************************************************************************)
(* Both analytics pipelines.  AnalyticsWorkers: where an event can be on   *)
(* its way through a worker, for any sequence of events and any limits; no *)
(* event is lost without a trace, and only the module that retries can     *)
(* deliver one twice.  BatchingBackend: flushes that race for the buffer   *)
(* never take an event twice, and the buffer outgrows a batch only by the  *)
(* tasks that owe it a flush, for any number of log tasks and batch size.  *)
(***************************************************************************)
EXTENDS AnalyticsWorkers, BatchingBackend, FiniteSetTheorems, TLAPS

Whom == {Nobody, "caller", "refresher"}
Msgs == [kind : {"event", "shutdown"}, id : Nat, who : Whom]

AnalyticsTypes ==
  /\ backend \in Backends
  /\ worker \in {"opening", "receiving", "posting", "stopped", "absent"}
  /\ mailbox \in Seq(Msgs)
  /\ batch \in Seq(Nat) /\ sink \in Seq(Nat) /\ posts \subseteq Seq(Nat) /\ dropped \subseteq Nat
  /\ attempt \in Nat /\ attempt <= MaxAttempts /\ closer \in Whom
  /\ logged \in Nat /\ logged <= Len(Events)
  /\ caller \in {"idle", "waiting", "returned"} /\ refresher \in {"idle", "closing"}

(* Only a running worker has a channel; only the http worker posts itself, and
   whoever receives has room for one more event. *)
WorkerInv ==
  /\ ~Running => mailbox = <<>> /\ batch = <<>>
  /\ backend = "file" => batch = <<>>
  /\ worker = "opening" => backend = "file"
  /\ worker = "posting" => backend = "http"
  /\ worker # "posting" => Len(batch) < MaxCount
  /\ Len(batch) <= MaxCount

InPosts == UNION {Range(p) : p \in posts}

(* An event that was taken is queued, batched, posted or given up. *)
Covered == Accepted = EventsIn(mailbox) \cup Range(batch) \cup Posted \cup dropped

Distinct(box) ==
  \A i, j \in DOMAIN box :
    i # j /\ box[i].kind = "event" /\ box[j].kind = "event" => box[i].id # box[j].id

PostsOnce ==
  /\ \A p \in posts : IsInjective(p)
  /\ \A p, q \in posts : p # q => Range(p) \cap Range(q) = {}

(* Where nothing is retried it is in one of these places, once. *)
Once ==
  /\ Distinct(mailbox) /\ IsInjective(batch) /\ IsInjective(sink)
  /\ PostsOnce
  /\ EventsIn(mailbox) \cap (Range(batch) \cup InPosts \cup Range(sink)) = {}
  /\ Range(batch) \cap (InPosts \cup Range(sink)) = {}
  /\ InPosts \cap Range(sink) = {}

AnalyticsInv == AnalyticsTypes /\ WorkerInv /\ Covered /\ (backend # "http" => Once)

-----------------------------------------------------------------------------
(* Sequences of events. *)
LEMMA NoElements == ASSUME NEW s, s = <<>> PROVE Range(s) = {}
  BY DEF Range

LEMMA EmptyInjective == ASSUME NEW s, s = <<>> PROVE IsInjective(s) /\ Distinct(s)
  BY DEF IsInjective, Distinct

LEMMA EmptyBox == ASSUME NEW s, s = <<>> PROVE EventsIn(s) = {}
  BY NoElements DEF EventsIn

LEMMA AppendOne ==
  ASSUME NEW s \in Seq(Nat), NEW x \in Nat
  PROVE  /\ Range(Append(s, x)) = Range(s) \cup {x}
         /\ IsInjective(s) /\ x \notin Range(s) => IsInjective(Append(s, x))
<1>1. Range(Append(s, x)) \subseteq Range(s) \cup {x}
  BY DEF Range
<1>2. Range(s) \subseteq Range(Append(s, x))
  BY DEF Range
<1>3. Len(s) + 1 \in DOMAIN Append(s, x) /\ Append(s, x)[Len(s) + 1] = x
  OBVIOUS
<1>4. x \in Range(Append(s, x))
  BY <1>3 DEF Range
<1>5. IsInjective(s) /\ x \notin Range(s) => IsInjective(Append(s, x))
  BY DEF Range, IsInjective
<1> QED
  BY <1>1, <1>2, <1>4, <1>5

LEMMA Concat ==
  ASSUME NEW s \in Seq(Nat), NEW t \in Seq(Nat)
  PROVE  /\ s \o t \in Seq(Nat)
         /\ Range(s \o t) = Range(s) \cup Range(t)
         /\ IsInjective(s) /\ IsInjective(t) /\ Range(s) \cap Range(t) = {} => IsInjective(s \o t)
<1>1. /\ s \o t \in Seq(Nat) /\ Len(s \o t) = Len(s) + Len(t)
      /\ \A i \in 1..Len(s) : (s \o t)[i] = s[i]
      /\ \A i \in 1..Len(t) : (s \o t)[Len(s) + i] = t[i]
      /\ DOMAIN s = 1..Len(s) /\ DOMAIN t = 1..Len(t) /\ DOMAIN (s \o t) = 1..Len(s \o t)
      /\ Len(s) \in Nat /\ Len(t) \in Nat
  OBVIOUS
<1>2. ASSUME NEW i \in 1..Len(s \o t)
      PROVE  \/ i \in 1..Len(s) /\ (s \o t)[i] = s[i]
             \/ i - Len(s) \in 1..Len(t) /\ (s \o t)[i] = t[i - Len(s)]
  BY <1>1
<1>3. Range(s \o t) \subseteq Range(s) \cup Range(t)
  BY <1>1, <1>2 DEF Range
<1>4. Range(s) \subseteq Range(s \o t)
  BY <1>1 DEF Range
<1>5. Range(t) \subseteq Range(s \o t)
  <2> SUFFICES ASSUME NEW i \in 1..Len(t) PROVE t[i] \in Range(s \o t)
    BY <1>1 DEF Range
  <2>1. Len(s) + i \in 1..Len(s \o t) /\ (s \o t)[Len(s) + i] = t[i]
    BY <1>1
  <2> QED
    BY Zenon, <1>1, <2>1 DEF Range
<1>6. ASSUME IsInjective(s), IsInjective(t), Range(s) \cap Range(t) = {},
             NEW i \in 1..Len(s \o t), NEW j \in 1..Len(s \o t), (s \o t)[i] = (s \o t)[j]
      PROVE  i = j
  <2>1. CASE i \in 1..Len(s) /\ j \in 1..Len(s)
    BY Zenon, <1>1, <1>6, <2>1 DEF IsInjective
  <2>2. CASE i - Len(s) \in 1..Len(t) /\ j - Len(s) \in 1..Len(t)
    <3>1. (s \o t)[i] = t[i - Len(s)] /\ (s \o t)[j] = t[j - Len(s)]
      BY <1>1, <2>2
    <3>2. i - Len(s) = j - Len(s)
      BY Zenon, <1>1, <1>6, <2>2, <3>1 DEF IsInjective
    <3> QED
      BY <1>1, <3>2
  <2>3. ASSUME NEW k \in 1..Len(s), NEW l \in 1..Len(t) PROVE s[k] # t[l]
    BY <1>1, <1>6 DEF Range
  <2> QED
    BY <1>1, <1>2, <1>6, <2>1, <2>2, <2>3
<1> QED
  BY Zenon, <1>1, <1>3, <1>4, <1>5, <1>6 DEF IsInjective

(* The channel. *)
LEMMA SendMsg ==
  ASSUME NEW box \in Seq(Msgs), NEW m \in Msgs
  PROVE  /\ Append(box, m) \in Seq(Msgs)
         /\ EventsIn(Append(box, m)) = EventsIn(box) \cup (IF m.kind = "event" THEN {m.id} ELSE {})
         /\ Distinct(box) /\ (m.kind = "event" => m.id \notin EventsIn(box)) => Distinct(Append(box, m))
<1>1. Range(Append(box, m)) \subseteq Range(box) \cup {m}
  BY DEF Range
<1>2. Range(box) \subseteq Range(Append(box, m))
  BY DEF Range
<1>3. Len(box) + 1 \in DOMAIN Append(box, m) /\ Append(box, m)[Len(box) + 1] = m
  OBVIOUS
<1>4. m \in Range(Append(box, m))
  BY <1>3 DEF Range
<1>5. EventsIn(Append(box, m)) = EventsIn(box) \cup (IF m.kind = "event" THEN {m.id} ELSE {})
  BY <1>1, <1>2, <1>4 DEF EventsIn
<1>6. ASSUME NEW i \in DOMAIN box, box[i].kind = "event" PROVE box[i].id \in EventsIn(box)
  BY <1>6 DEF EventsIn, Range
<1>7. Distinct(box) /\ (m.kind = "event" => m.id \notin EventsIn(box)) => Distinct(Append(box, m))
  BY <1>6 DEF Distinct
<1> QED
  BY <1>5, <1>7

LEMMA TakeMsg ==
  ASSUME NEW box \in Seq(Msgs), box # <<>>
  PROVE  /\ Tail(box) \in Seq(Msgs) /\ Head(box) \in Msgs
         /\ EventsIn(box) = EventsIn(Tail(box)) \cup (IF Head(box).kind = "event" THEN {Head(box).id} ELSE {})
         /\ Distinct(box) => Distinct(Tail(box))
         /\ Distinct(box) /\ Head(box).kind = "event" => Head(box).id \notin EventsIn(Tail(box))
<1>1. /\ Tail(box) \in Seq(Msgs) /\ Head(box) \in Msgs /\ Head(box) = box[1] /\ Len(box) >= 1
      /\ Len(Tail(box)) = Len(box) - 1 /\ \A i \in 1..Len(Tail(box)) : Tail(box)[i] = box[i + 1]
      /\ DOMAIN box = 1..Len(box) /\ DOMAIN Tail(box) = 1..Len(Tail(box)) /\ Len(box) \in Nat
  OBVIOUS
<1>2. Range(box) \subseteq Range(Tail(box)) \cup {Head(box)}
  <2> SUFFICES ASSUME NEW i \in 1..Len(box) PROVE box[i] \in Range(Tail(box)) \cup {Head(box)}
    BY <1>1 DEF Range
  <2>1. CASE i = 1
    BY <1>1, <2>1
  <2>2. CASE i # 1
    <3>1. i - 1 \in 1..Len(Tail(box)) /\ Tail(box)[i - 1] = box[i]
      BY <1>1, <2>2
    <3> QED
      BY <1>1, <3>1 DEF Range
  <2> QED
    BY <2>1, <2>2
<1>3. Range(Tail(box)) \subseteq Range(box) /\ Head(box) \in Range(box)
  BY <1>1 DEF Range
<1>4. EventsIn(box) = EventsIn(Tail(box)) \cup (IF Head(box).kind = "event" THEN {Head(box).id} ELSE {})
  BY <1>2, <1>3 DEF EventsIn
<1>5. Distinct(box) => Distinct(Tail(box))
  BY <1>1 DEF Distinct
<1>6. ASSUME Distinct(box), Head(box).kind = "event" PROVE Head(box).id \notin EventsIn(Tail(box))
  <2> SUFFICES ASSUME NEW i \in 1..Len(Tail(box)), Tail(box)[i].kind = "event"
               PROVE  Tail(box)[i].id # Head(box).id
    BY <1>1 DEF EventsIn, Range
  <2>1. i + 1 \in DOMAIN box /\ i + 1 # 1 /\ 1 \in DOMAIN box /\ Tail(box)[i] = box[i + 1]
    BY <1>1
  <2> QED
    BY <1>1, <1>6, <2>1 DEF Distinct
<1> QED
  BY <1>1, <1>4, <1>5, <1>6

-----------------------------------------------------------------------------
LEMMA BoxIds == ASSUME NEW box \in Seq(Msgs) PROVE EventsIn(box) \subseteq Nat
<1>1. \A m \in Range(box) : m \in Msgs
  BY DEF Range
<1> QED
  BY <1>1 DEF EventsIn, Msgs

LEMMA SeqIds == ASSUME NEW s \in Seq(Nat) PROVE Range(s) \subseteq Nat
  BY DEF Range

LEMMA AcceptedStays == ASSUME UNCHANGED <<logged, backend>> PROVE Accepted' = Accepted
  BY DEF Accepted, Tracked

LEMMA AcceptedBound == ASSUME AnalyticsInv PROVE Accepted \subseteq 1..logged
  BY DEF Accepted

LEMMA PostedIs == Posted = Range(sink) \cup InPosts
  BY DEF Posted, InPosts

(* A batch that is handed to a task of its own joins the posts. *)
LEMMA Detaching ==
  ASSUME AnalyticsTypes, NEW b \in Seq(Nat), Detach(b)
  PROVE  /\ posts' \subseteq Seq(Nat) /\ batch' = <<>>
         /\ InPosts' = InPosts \cup Range(b)
         /\ IsInjective(b) /\ Range(b) \cap InPosts = {} /\ PostsOnce => PostsOnce'
<1>1. posts' = posts \cup (IF b = <<>> THEN {} ELSE {b}) /\ batch' = <<>>
  BY DEF Detach
<1>2. posts' \subseteq Seq(Nat)
  BY <1>1 DEF AnalyticsTypes
<1>3. InPosts' = InPosts \cup Range(b)
  <2>1. CASE b = <<>>
    BY <1>1, <2>1, NoElements DEF InPosts
  <2>2. CASE b # <<>>
    BY <1>1, <2>2 DEF InPosts
  <2> QED
    BY <2>1, <2>2
<1>4. ASSUME IsInjective(b), Range(b) \cap InPosts = {}, PostsOnce
      PROVE  PostsOnce'
  <2>1. \A p \in posts : Range(p) \cap Range(b) = {}
    BY <1>4 DEF InPosts
  <2> QED
    BY <1>1, <1>4, <2>1 DEF PostsOnce
<1> QED
  BY <1>1, <1>2, <1>3, <1>4

LEMMA AnalyticsInitInv == AnalyticsInit => AnalyticsInv
<1> SUFFICES ASSUME AnalyticsInit PROVE AnalyticsInv
  OBVIOUS
<1>1. /\ mailbox = <<>> /\ batch = <<>> /\ sink = <<>> /\ posts = {} /\ dropped = {} /\ logged = 0
      /\ backend \in Backends /\ worker = (IF backend = "file" THEN "opening" ELSE "receiving")
  BY DEF AnalyticsInit
<1>2. AnalyticsTypes
  BY <1>1, AnalyticsAssumption DEF AnalyticsInit, AnalyticsTypes, Whom, Nobody, MaxAttempts
<1>3. WorkerInv
  BY <1>1, AnalyticsAssumption DEF WorkerInv, Running
<1>4. /\ EventsIn(mailbox) = {} /\ Range(batch) = {} /\ Range(sink) = {} /\ InPosts = {}
      /\ Distinct(mailbox) /\ IsInjective(batch) /\ IsInjective(sink)
  BY <1>1, NoElements, EmptyBox, EmptyInjective DEF InPosts
<1>5. Accepted = {}
  BY <1>1 DEF Accepted
<1>6. Covered
  BY <1>1, <1>4, <1>5, PostedIs DEF Covered
<1>7. Once
  BY <1>1, <1>4 DEF Once, PostsOnce
<1> QED
  BY <1>2, <1>3, <1>6, <1>7 DEF AnalyticsInv

-----------------------------------------------------------------------------
(* A new event is queued, given up or not wanted; it is nowhere else. *)
LEMMA LogEventInv == ASSUME AnalyticsInv, LogEvent PROVE AnalyticsInv'
<1> DEFINE n == logged + 1
           m == EventMsg(n)
<1>1. /\ logged < Len(Events) /\ logged' = n
      /\ UNCHANGED <<backend, worker, batch, attempt, closer, posts, sink, caller, refresher>>
      /\ mailbox' = IF Tracked(Events[n]) /\ Running THEN Append(mailbox, m) ELSE mailbox
      /\ dropped' = IF Tracked(Events[n]) /\ ~Running THEN dropped \cup {n} ELSE dropped
  BY DEF LogEvent, Enqueue
<1>2. m \in Msgs /\ m.kind = "event" /\ m.id = n /\ n \in Nat
  BY DEF EventMsg, Msgs, Whom, AnalyticsInv, AnalyticsTypes
<1>3. n \notin Accepted
  BY AcceptedBound DEF AnalyticsInv, AnalyticsTypes
<1>4. n \notin EventsIn(mailbox) \cup Range(batch) \cup Range(sink) \cup InPosts
  BY <1>3, PostedIs DEF AnalyticsInv, Covered
<1>5. Accepted' = IF Tracked(Events[n]) THEN Accepted \cup {n} ELSE Accepted
  BY <1>1 DEF Accepted, Tracked, AnalyticsInv, AnalyticsTypes
<1>6. InPosts' = InPosts /\ Posted' = Posted /\ Running' = Running
  BY <1>1 DEF InPosts, Posted, Running
<1>7. mailbox \in Seq(Msgs)
  BY DEF AnalyticsInv, AnalyticsTypes
<1>8. AnalyticsTypes'
  BY <1>1, <1>2, <1>7, SendMsg, AnalyticsAssumption DEF AnalyticsInv, AnalyticsTypes
<1>9. WorkerInv'
  BY <1>1, <1>6 DEF AnalyticsInv, WorkerInv
<1>10. Covered'
  BY <1>1, <1>2, <1>5, <1>6, <1>7, SendMsg DEF AnalyticsInv, Covered
<1>11. backend' # "http" => Once'
  BY <1>1, <1>2, <1>4, <1>6, <1>7, SendMsg DEF AnalyticsInv, Once, PostsOnce
<1> QED
  BY <1>8, <1>9, <1>10, <1>11 DEF AnalyticsInv

LEMMA OpenFileInv == ASSUME AnalyticsInv, OpenFile PROVE AnalyticsInv'
<1>1. UNCHANGED <<backend, batch, attempt, closer, posts, sink, logged, refresher>> /\ worker = "opening"
  BY DEF OpenFile
<1>2. Accepted' = Accepted /\ InPosts' = InPosts /\ Posted' = Posted
  BY <1>1, AcceptedStays DEF InPosts, Posted
<1>3. CASE worker' = "receiving" /\ UNCHANGED <<mailbox, dropped, caller>>
  BY <1>1, <1>2, <1>3 DEF AnalyticsInv, AnalyticsTypes, WorkerInv, Running, Covered, Once, PostsOnce
<1>4. CASE /\ worker' = "stopped" /\ mailbox' = <<>> /\ dropped' = dropped \cup EventsIn(mailbox)
           /\ caller' = IF caller = "waiting" THEN "returned" ELSE caller
  <2>1. EventsIn(mailbox') = {} /\ Distinct(mailbox')
    BY <1>4, EmptyBox, EmptyInjective
  <2>2. EventsIn(mailbox) \subseteq Nat /\ mailbox' \in Seq(Msgs)
    BY <1>4, BoxIds DEF AnalyticsInv, AnalyticsTypes
  <2>3. batch = <<>>
    BY <1>1 DEF AnalyticsInv, WorkerInv
  <2>4. AnalyticsTypes'
    BY Zenon, <1>1, <1>4, <2>2 DEF AnalyticsInv, AnalyticsTypes
  <2>5. WorkerInv'
    BY <1>1, <1>4, <2>3 DEF AnalyticsInv, WorkerInv, Running
  <2>6. Covered'
    BY <1>1, <1>2, <1>4, <2>1 DEF AnalyticsInv, Covered
  <2>7. backend' # "http" => Once'
    BY <1>1, <1>2, <2>1 DEF AnalyticsInv, Once, PostsOnce
  <2> QED
    BY <2>4, <2>5, <2>6, <2>7 DEF AnalyticsInv
<1> QED
  BY <1>3, <1>4 DEF OpenFile

-----------------------------------------------------------------------------
(* The three ways of taking an event. *)
LEMMA ReceiveEventInv == ASSUME AnalyticsInv, ReceiveEvent PROVE AnalyticsInv'
<1> DEFINE e == Head(mailbox).id
<1>1. /\ worker = "receiving" /\ mailbox # <<>> /\ Head(mailbox).kind = "event" /\ mailbox' = Tail(mailbox)
      /\ UNCHANGED <<backend, closer, logged, caller, refresher>>
  BY DEF ReceiveEvent
<1>2. /\ mailbox \in Seq(Msgs) /\ batch \in Seq(Nat) /\ sink \in Seq(Nat) /\ backend \in Backends
      /\ AnalyticsTypes /\ Covered /\ WorkerInv
  BY DEF AnalyticsInv, AnalyticsTypes
<1>3. /\ mailbox' \in Seq(Msgs) /\ e \in Nat /\ EventsIn(mailbox) = EventsIn(mailbox') \cup {e}
      /\ Distinct(mailbox) => Distinct(mailbox') /\ e \notin EventsIn(mailbox')
  BY Zenon, <1>1, <1>2, TakeMsg DEF Msgs
<1>4. Accepted' = Accepted
  BY <1>1, AcceptedStays
<1>5. Running
  BY <1>1 DEF Running
<1>6. CASE backend = "file"
  <2>1. WriteLine(e)
    BY <1>6 DEF ReceiveEvent
  <2>2. /\ UNCHANGED <<batch, attempt, posts, worker>>
        /\ \/ sink' = Append(sink, e) /\ UNCHANGED dropped
           \/ dropped' = dropped \cup {e} /\ UNCHANGED sink
    BY <2>1 DEF WriteLine
  <2>3. InPosts' = InPosts /\ PostsOnce' = PostsOnce /\ Running'
    BY <1>5, <2>2 DEF InPosts, PostsOnce, Running
  <2>4. /\ sink' \in Seq(Nat) /\ dropped' \subseteq Nat
        /\ Range(sink') \cup dropped' = Range(sink) \cup dropped \cup {e}
        /\ Range(sink') \subseteq Range(sink) \cup {e}
        /\ IsInjective(sink) /\ e \notin Range(sink) => IsInjective(sink')
    <3>1. /\ Append(sink, e) \in Seq(Nat) /\ Range(Append(sink, e)) = Range(sink) \cup {e}
          /\ IsInjective(sink) /\ e \notin Range(sink) => IsInjective(Append(sink, e))
      BY <1>2, <1>3, AppendOne
    <3>2. dropped \subseteq Nat
      BY <1>2 DEF AnalyticsTypes
    <3> QED
      BY Zenon, <1>2, <1>3, <2>2, <3>1, <3>2
  <2>5. AnalyticsTypes'
    BY <1>1, <1>2, <1>3, <2>2, <2>4 DEF AnalyticsTypes
  <2>6. WorkerInv'
    BY <1>1, <1>2, <2>2, <2>3 DEF WorkerInv
  <2>7. Posted = Range(sink) \cup InPosts /\ Posted' = Range(sink') \cup InPosts'
    BY DEF Posted, InPosts
  <2>8. Covered'
    BY <1>2, <1>3, <1>4, <2>2, <2>3, <2>4, <2>7 DEF Covered
  <2>9. Once
    BY <1>6 DEF AnalyticsInv
  <2>10. Once'
    BY <1>3, <2>2, <2>3, <2>4, <2>9 DEF Once
  <2> QED
    BY <2>5, <2>6, <2>8, <2>10 DEF AnalyticsInv
<1>7. CASE backend = "http"
  <2>1. BatchHttp(e)
    BY <1>7 DEF ReceiveEvent
  <2>2. /\ batch' = Append(batch, e) /\ UNCHANGED <<posts, sink, dropped>>
        /\ IF Full(batch') THEN worker' = "posting" /\ attempt' = 1 ELSE UNCHANGED <<worker, attempt>>
    BY <2>1 DEF BatchHttp
  <2>3. InPosts' = InPosts /\ Posted' = Posted /\ Running'
    BY <1>5, <2>2 DEF InPosts, Posted, Running
  <2>4. batch' \in Seq(Nat) /\ Len(batch') = Len(batch) + 1 /\ Range(batch') = Range(batch) \cup {e}
    BY <1>2, <1>3, <2>2, AppendOne
  <2>5. AnalyticsTypes'
    BY <1>1, <1>2, <1>3, <2>2, <2>4 DEF AnalyticsTypes, MaxAttempts
  <2>6. Len(batch) < MaxCount /\ Len(batch) \in Nat
    BY <1>1, <1>2 DEF WorkerInv
  <2>7. ~Full(batch') => Len(batch') < MaxCount
    BY <2>4, <2>6, AnalyticsAssumption DEF Full
  <2>8. WorkerInv'
    BY <1>1, <1>2, <1>7, <2>2, <2>3, <2>4, <2>6, <2>7, AnalyticsAssumption DEF WorkerInv
  <2>9. Covered'
    BY <1>2, <1>3, <1>4, <2>2, <2>3, <2>4 DEF Covered
  <2> QED
    BY <1>1, <1>7, <2>5, <2>8, <2>9 DEF AnalyticsInv
<1>8. CASE backend \notin {"file", "http"}
  <2> DEFINE b == Append(batch, e)
  <2>1. BatchDetached(e)
    BY <1>8 DEF ReceiveEvent
  <2>2. b \in Seq(Nat) /\ Len(b) = Len(batch) + 1 /\ Range(b) = Range(batch) \cup {e}
    BY <1>2, <1>3, AppendOne
  <2>3. UNCHANGED <<worker, attempt, sink, dropped>> /\ Running'
    BY <1>5, <2>1 DEF BatchDetached, Running
  <2>4. /\ Once /\ PostsOnce /\ e \notin Range(batch) \cup InPosts \cup Range(sink)
        /\ IsInjective(b) /\ Range(b) \cap InPosts = {}
    BY <1>2, <1>3, <1>8, <2>2, AppendOne DEF AnalyticsInv, Once
  <2>5. CASE Detach(b)
    <3>1. /\ posts' \subseteq Seq(Nat) /\ batch' = <<>> /\ InPosts' = InPosts \cup Range(b) /\ PostsOnce'
      BY ZenonT(40), <1>2, <2>2, <2>4, <2>5, Detaching
    <3>2. batch' \in Seq(Nat) /\ Range(batch') = {} /\ IsInjective(batch') /\ Len(batch') = 0
      BY <3>1, NoElements, EmptyInjective
    <3>3. AnalyticsTypes'
      BY <1>1, <1>2, <1>3, <2>3, <3>1, <3>2 DEF AnalyticsTypes
    <3>4. WorkerInv'
      BY <1>1, <1>8, <2>3, <3>1, <3>2, AnalyticsAssumption DEF WorkerInv
    <3>5. Posted = Range(sink) \cup InPosts /\ Posted' = Range(sink') \cup InPosts'
      BY DEF Posted, InPosts
    <3>6. Covered'
      BY <1>2, <1>3, <1>4, <2>2, <2>3, <3>1, <3>2, <3>5 DEF Covered
    <3>7. Once'
      BY <1>3, <2>2, <2>3, <2>4, <3>1, <3>2 DEF Once
    <3> QED
      BY <3>3, <3>4, <3>6, <3>7 DEF AnalyticsInv
  <2>6. CASE ~Full(b) /\ batch' = b /\ UNCHANGED posts
    <3>1. InPosts' = InPosts /\ Posted' = Posted /\ PostsOnce' = PostsOnce
      BY <2>3, <2>6 DEF InPosts, Posted, PostsOnce
    <3>2. AnalyticsTypes'
      BY <1>1, <1>2, <1>3, <2>2, <2>3, <2>6 DEF AnalyticsTypes
    <3>3. Len(b) < MaxCount
      BY <2>2, <2>6, AnalyticsAssumption DEF Full
    <3>4. WorkerInv'
      BY <1>1, <1>8, <2>2, <2>3, <2>6, <3>3, AnalyticsAssumption DEF WorkerInv
    <3>5. Covered'
      BY <1>2, <1>3, <1>4, <2>2, <2>3, <2>6, <3>1 DEF Covered
    <3>6. Once'
      BY <1>3, <2>2, <2>3, <2>4, <2>6, <3>1 DEF Once
    <3> QED
      BY <3>2, <3>4, <3>5, <3>6 DEF AnalyticsInv
  <2> QED
    BY <2>1, <2>5, <2>6 DEF BatchDetached
<1> QED
  BY <1>6, <1>7, <1>8

-----------------------------------------------------------------------------
LEMMA Stopping ==
  ASSUME AnalyticsTypes, NEW who, Stop(who)
  PROVE  /\ mailbox' = <<>> /\ mailbox' \in Seq(Msgs) /\ EventsIn(mailbox') = {} /\ Distinct(mailbox')
         /\ worker' \in {"receiving", "absent", "stopped"}
         /\ caller' \in {"idle", "waiting", "returned"} /\ refresher' \in {"idle", "closing"}
<1>1. mailbox' = <<>>
  BY DEF Stop
<1>2. EventsIn(mailbox') = {} /\ Distinct(mailbox') /\ mailbox' \in Seq(Msgs)
  BY <1>1, EmptyBox, EmptyInjective
<1> QED
  BY <1>1, <1>2 DEF Stop, AnalyticsTypes

(* A batch that leaves in a post: what it holds stays covered, and once. *)
LEMMA DetachBatch ==
  ASSUME AnalyticsInv, Detach(batch), UNCHANGED sink
  PROVE  /\ posts' \subseteq Seq(Nat) /\ batch' = <<>> /\ batch' \in Seq(Nat) /\ Len(batch') = 0
         /\ Range(batch') = {} /\ IsInjective(batch')
         /\ InPosts' = InPosts \cup Range(batch) /\ Posted' = Posted \cup Range(batch)
         /\ Once => PostsOnce'
<1>1. AnalyticsTypes /\ batch \in Seq(Nat)
  BY DEF AnalyticsInv, AnalyticsTypes
<1>2. /\ posts' \subseteq Seq(Nat) /\ batch' = <<>> /\ InPosts' = InPosts \cup Range(batch)
      /\ IsInjective(batch) /\ Range(batch) \cap InPosts = {} /\ PostsOnce => PostsOnce'
  BY <1>1, Detaching
<1>3. batch' \in Seq(Nat) /\ Range(batch') = {} /\ IsInjective(batch') /\ Len(batch') = 0
  BY <1>2, NoElements, EmptyInjective
<1>4. Posted = Range(sink) \cup InPosts /\ Posted' = Range(sink') \cup InPosts'
  BY DEF Posted, InPosts
<1>5. Once => IsInjective(batch) /\ Range(batch) \cap InPosts = {} /\ PostsOnce
  BY DEF Once
<1> QED
  BY <1>2, <1>3, <1>4, <1>5

LEMMA ReceiveShutdownInv == ASSUME AnalyticsInv, ReceiveShutdown PROVE AnalyticsInv'
<1>1. /\ worker = "receiving" /\ mailbox # <<>> /\ Head(mailbox).kind = "shutdown"
      /\ UNCHANGED <<backend, sink, logged>>
  BY DEF ReceiveShutdown
<1>2. /\ mailbox \in Seq(Msgs) /\ batch \in Seq(Nat) /\ backend \in Backends
      /\ AnalyticsTypes /\ Covered /\ WorkerInv
  BY DEF AnalyticsInv, AnalyticsTypes
<1>3. /\ Tail(mailbox) \in Seq(Msgs) /\ Head(mailbox).who \in Whom
      /\ EventsIn(Tail(mailbox)) = EventsIn(mailbox) /\ EventsIn(Tail(mailbox)) \subseteq Nat
  <2>1. /\ Tail(mailbox) \in Seq(Msgs) /\ Head(mailbox) \in Msgs
        /\ EventsIn(mailbox) = EventsIn(Tail(mailbox)) \cup {}
    BY <1>1, <1>2, TakeMsg
  <2> QED
    BY Zenon, <2>1, BoxIds DEF Msgs
<1>4. Accepted' = Accepted
  BY <1>1, AcceptedStays
<1>5. CASE backend = "http" /\ batch # <<>>
  <2>1. /\ worker' = "posting" /\ attempt' = 1 /\ closer' = Head(mailbox).who /\ mailbox' = Tail(mailbox)
        /\ UNCHANGED <<batch, posts, dropped, caller, refresher>>
    BY <1>5 DEF ReceiveShutdown
  <2>2. AnalyticsTypes'
    BY <1>1, <1>2, <1>3, <2>1 DEF AnalyticsTypes, MaxAttempts
  <2>3. WorkerInv'
    BY <1>1, <1>2, <1>5, <2>1 DEF WorkerInv, Running
  <2>4. Covered'
    BY <1>1, <1>2, <1>3, <1>4, <2>1 DEF Covered, Posted
  <2> QED
    BY <1>1, <1>5, <2>2, <2>3, <2>4 DEF AnalyticsInv
<1>6. CASE ~(backend = "http" /\ batch # <<>>)
  <2>1. /\ IF backend \in {"pubstack", "agma"} THEN Detach(batch) ELSE UNCHANGED <<batch, posts>>
        /\ dropped' = dropped \cup EventsIn(Tail(mailbox))
        /\ Stop(Head(mailbox).who) /\ UNCHANGED <<attempt, closer>>
    BY <1>6 DEF ReceiveShutdown
  <2>2. /\ mailbox' = <<>> /\ mailbox' \in Seq(Msgs) /\ EventsIn(mailbox') = {} /\ Distinct(mailbox')
        /\ worker' \in {"receiving", "absent", "stopped"}
        /\ caller' \in {"idle", "waiting", "returned"} /\ refresher' \in {"idle", "closing"}
    BY <1>2, <2>1, Stopping
  <2>3. /\ posts' \subseteq Seq(Nat) /\ batch' = <<>> /\ batch' \in Seq(Nat) /\ Len(batch') = 0
        /\ Range(batch') = {} /\ IsInjective(batch')
        /\ InPosts' = InPosts \cup Range(batch) /\ Posted' = Posted \cup Range(batch)
        /\ Once => PostsOnce'
    <3>1. CASE backend \in {"pubstack", "agma"}
      BY <1>1, <2>1, <3>1, DetachBatch
    <3>2. CASE backend \notin {"pubstack", "agma"}
      <4>1. batch = <<>> /\ UNCHANGED <<batch, posts, sink>> /\ posts \subseteq Seq(Nat)
        BY <1>1, <1>2, <1>6, <2>1, <3>2 DEF WorkerInv, Backends, AnalyticsTypes
      <4>2. Range(batch) = {} /\ IsInjective(batch) /\ Len(batch) = 0
        BY <4>1, NoElements, EmptyInjective
      <4>3. InPosts' = InPosts /\ Posted' = Posted /\ PostsOnce' = PostsOnce
        BY <4>1 DEF InPosts, Posted, PostsOnce
      <4>4. Once => PostsOnce
        BY DEF Once
      <4> QED
        BY <1>2, <4>1, <4>2, <4>3, <4>4
    <3> QED
      BY <3>1, <3>2
  <2>4. AnalyticsTypes'
    BY <1>1, <1>2, <1>3, <2>1, <2>2, <2>3 DEF AnalyticsTypes
  <2>5. WorkerInv'
    BY <2>2, <2>3, AnalyticsAssumption DEF WorkerInv, Running
  <2>6. Covered'
    BY <1>2, <1>3, <1>4, <2>1, <2>2, <2>3 DEF Covered
  <2>7. Once => Once'
    BY <1>1, <2>2, <2>3 DEF Once
  <2> QED
    BY <1>1, <2>4, <2>5, <2>6, <2>7 DEF AnalyticsInv
<1> QED
  BY <1>5, <1>6

LEMMA FlushTimerInv == ASSUME AnalyticsInv, FlushTimer PROVE AnalyticsInv'
<1>1. /\ worker = "receiving" /\ backend # "file"
      /\ UNCHANGED <<backend, mailbox, closer, sink, dropped, logged, caller, refresher>>
  BY DEF FlushTimer
<1>2. AnalyticsTypes /\ Covered /\ WorkerInv
  BY DEF AnalyticsInv
<1>3. Accepted' = Accepted
  BY <1>1, AcceptedStays
<1>4. CASE backend = "http"
  <2>1. worker' = "posting" /\ attempt' = 1 /\ UNCHANGED <<batch, posts>>
    BY <1>4 DEF FlushTimer
  <2>2. AnalyticsTypes' /\ WorkerInv'
    BY <1>1, <1>2, <1>4, <2>1 DEF AnalyticsTypes, MaxAttempts, WorkerInv, Running
  <2>3. Covered'
    BY <1>1, <1>2, <1>3, <2>1 DEF Covered, Posted
  <2> QED
    BY <1>1, <1>4, <2>2, <2>3 DEF AnalyticsInv
<1>5. CASE backend # "http"
  <2>1. Detach(batch) /\ UNCHANGED <<worker, attempt>>
    BY <1>5 DEF FlushTimer
  <2>2. /\ posts' \subseteq Seq(Nat) /\ batch' = <<>> /\ batch' \in Seq(Nat) /\ Len(batch') = 0
        /\ Range(batch') = {} /\ IsInjective(batch')
        /\ InPosts' = InPosts \cup Range(batch) /\ Posted' = Posted \cup Range(batch)
        /\ Once => PostsOnce'
    BY <1>1, <2>1, DetachBatch
  <2>3. AnalyticsTypes'
    BY <1>1, <1>2, <2>1, <2>2 DEF AnalyticsTypes
  <2>4. WorkerInv'
    BY <1>1, <1>2, <2>1, <2>2, AnalyticsAssumption DEF WorkerInv, Running
  <2>5. Covered'
    BY <1>1, <1>2, <1>3, <2>2 DEF Covered
  <2>6. Once => Once'
    BY <1>1, <2>2 DEF Once
  <2> QED
    BY <1>1, <2>3, <2>4, <2>5, <2>6 DEF AnalyticsInv
<1> QED
  BY <1>4, <1>5

(* Up to three attempts of one payload. *)
LEMMA HttpPostInv == ASSUME AnalyticsInv, HttpPost PROVE AnalyticsInv'
<1>1. AnalyticsTypes /\ Covered /\ WorkerInv
  BY DEF AnalyticsInv
<1>2. worker = "posting" /\ UNCHANGED <<backend, posts, logged>> /\ backend = "http"
  BY <1>1 DEF HttpPost, WorkerInv
<1>3. PICK taken, ok \in BOOLEAN :
        /\ ok => taken
        /\ sink' = IF taken THEN sink \o batch ELSE sink
        /\ IF ok \/ attempt = MaxAttempts \/ endpoint = "empty"
           THEN /\ batch' = <<>> /\ attempt' = 0 /\ closer' = Nobody
                /\ dropped' = dropped \cup (IF ok THEN {} ELSE Range(batch))
                                      \cup (IF closer = Nobody THEN {} ELSE EventsIn(mailbox))
                /\ IF closer = Nobody THEN worker' = "receiving" /\ UNCHANGED <<mailbox, caller, refresher>>
                   ELSE Stop(closer)
           ELSE attempt' = attempt + 1
                /\ UNCHANGED <<batch, closer, dropped, worker, mailbox, caller, refresher>>
  BY DEF HttpPost
<1>4. /\ sink \in Seq(Nat) /\ batch \in Seq(Nat) /\ mailbox \in Seq(Msgs) /\ dropped \subseteq Nat
      /\ Range(batch) \subseteq Nat /\ EventsIn(mailbox) \subseteq Nat
  BY <1>1, BoxIds, SeqIds DEF AnalyticsTypes
<1>5. /\ sink' \in Seq(Nat) /\ Range(sink) \subseteq Range(sink')
      /\ Range(sink') \subseteq Range(sink) \cup Range(batch)
  BY <1>3, <1>4, Concat
<1>6. Posted = Range(sink) \cup InPosts /\ Posted' = Range(sink') \cup InPosts' /\ InPosts' = InPosts
  BY <1>2 DEF Posted, InPosts
<1>7. Accepted' = Accepted
  BY <1>2, AcceptedStays
<1>8. CASE ok \/ attempt = MaxAttempts \/ endpoint = "empty"
  <2>1. /\ batch' = <<>> /\ attempt' = 0 /\ closer' = Nobody
        /\ dropped' = dropped \cup (IF ok THEN {} ELSE Range(batch))
                              \cup (IF closer = Nobody THEN {} ELSE EventsIn(mailbox))
        /\ IF closer = Nobody THEN worker' = "receiving" /\ UNCHANGED <<mailbox, caller, refresher>>
           ELSE Stop(closer)
    BY <1>3, <1>8
  <2>2. batch' \in Seq(Nat) /\ Range(batch') = {} /\ Len(batch') = 0
    BY <2>1, NoElements
  <2>3. /\ mailbox' \in Seq(Msgs) /\ worker' \in {"receiving", "absent", "stopped"}
        /\ caller' \in {"idle", "waiting", "returned"} /\ refresher' \in {"idle", "closing"}
        /\ IF closer = Nobody THEN mailbox' = mailbox /\ worker' = "receiving"
           ELSE mailbox' = <<>> /\ EventsIn(mailbox') = {}
    <3>1. CASE closer = Nobody
      BY <1>1, <2>1, <3>1 DEF AnalyticsTypes
    <3>2. CASE closer # Nobody
      BY <1>1, <2>1, <3>2, Stopping
    <3> QED
      BY <3>1, <3>2
  <2>4. dropped' \subseteq Nat
    BY Zenon, <1>4, <2>1
  <2>5. AnalyticsTypes'
    BY <1>1, <1>2, <1>5, <2>1, <2>2, <2>3, <2>4 DEF AnalyticsTypes, MaxAttempts, Whom
  <2>6. WorkerInv'
    BY <1>2, <2>1, <2>2, <2>3, AnalyticsAssumption DEF WorkerInv, Running
  <2>7. /\ dropped \subseteq dropped' /\ dropped' \subseteq dropped \cup Range(batch) \cup EventsIn(mailbox)
        /\ Range(batch) \subseteq Range(sink') \cup dropped'
        /\ EventsIn(mailbox) \subseteq EventsIn(mailbox') \cup dropped'
        /\ EventsIn(mailbox') \subseteq EventsIn(mailbox)
    <3>1. CASE ok
      <4>1. sink' = sink \o batch
        BY <1>3, <3>1
      <4>2. Range(batch) \subseteq Range(sink')
        BY <1>4, <4>1, Concat
      <4>3. dropped' = dropped \cup (IF closer = Nobody THEN {} ELSE EventsIn(mailbox))
        BY <2>1, <3>1
      <4> QED
        BY <2>3, <4>2, <4>3
    <3>2. CASE ~ok
      <4>1. dropped' = dropped \cup Range(batch) \cup (IF closer = Nobody THEN {} ELSE EventsIn(mailbox))
        BY <2>1, <3>2
      <4> QED
        BY <2>3, <4>1
    <3> QED
      BY <3>1, <3>2
  <2>8. Covered'
    BY <1>1, <1>5, <1>6, <1>7, <2>2, <2>7 DEF Covered
  <2> QED
    BY <1>2, <2>5, <2>6, <2>8 DEF AnalyticsInv
<1>9. CASE ~(ok \/ attempt = MaxAttempts \/ endpoint = "empty")
  <2>1. attempt' = attempt + 1 /\ UNCHANGED <<batch, closer, dropped, worker, mailbox, caller, refresher>>
    BY <1>3, <1>9
  <2>2. AnalyticsTypes'
    BY <1>1, <1>2, <1>5, <1>9, <2>1 DEF AnalyticsTypes, MaxAttempts
  <2>3. WorkerInv'
    BY <1>1, <1>2, <2>1 DEF WorkerInv, Running
  <2>4. Range(batch') = Range(batch) /\ EventsIn(mailbox') = EventsIn(mailbox) /\ dropped' = dropped
    BY <2>1
  <2>5. Covered'
    BY <1>1, <1>5, <1>6, <1>7, <2>4 DEF Covered
  <2> QED
    BY <1>2, <2>2, <2>3, <2>5 DEF AnalyticsInv
<1> QED
  BY <1>8, <1>9

LEMMA DetachedPostInv == ASSUME AnalyticsInv, DetachedPost PROVE AnalyticsInv'
<1>1. UNCHANGED <<backend, mailbox, worker, batch, attempt, closer, logged, caller, refresher>>
  BY DEF DetachedPost
<1>2. PICK p \in posts :
        /\ posts' = posts \ {p}
        /\ \/ sink' = sink \o p /\ UNCHANGED dropped
           \/ dropped' = dropped \cup Range(p) /\ UNCHANGED sink
  BY DEF DetachedPost
<1>3. AnalyticsTypes /\ Covered /\ WorkerInv
  BY DEF AnalyticsInv
<1>4. p \in Seq(Nat) /\ sink \in Seq(Nat) /\ Range(p) \subseteq Nat /\ dropped \subseteq Nat
  BY <1>2, <1>3, SeqIds DEF AnalyticsTypes
<1>5. InPosts = InPosts' \cup Range(p)
  BY <1>2 DEF InPosts
<1>6. /\ sink \o p \in Seq(Nat) /\ Range(sink \o p) = Range(sink) \cup Range(p)
      /\ IsInjective(sink) /\ IsInjective(p) /\ Range(sink) \cap Range(p) = {} => IsInjective(sink \o p)
  BY <1>4, Concat
<1>7. Posted = Range(sink) \cup InPosts /\ Posted' = Range(sink') \cup InPosts'
  BY DEF Posted, InPosts
<1>8. AnalyticsTypes'
  BY Zenon, <1>1, <1>2, <1>3, <1>4, <1>6 DEF AnalyticsTypes
<1>9. WorkerInv'
  BY <1>1, <1>3 DEF WorkerInv, Running
<1>10. Accepted' = Accepted
  BY <1>1, AcceptedStays
<1>11. Range(sink') \cup InPosts' \cup dropped' = Range(sink) \cup InPosts \cup dropped
  BY Zenon, <1>2, <1>5, <1>6
<1>12. Covered'
  BY <1>1, <1>3, <1>7, <1>10, <1>11 DEF Covered
<1>13. ASSUME Once PROVE Once'
  <2>1. PostsOnce' /\ InPosts' \cap Range(p) = {} /\ IsInjective(p)
    BY <1>2, <1>13 DEF Once, PostsOnce, InPosts
  <2>2. IsInjective(sink') /\ Range(sink') \subseteq Range(sink) \cup Range(p)
    BY Zenon, <1>2, <1>5, <1>6, <1>13, <2>1 DEF Once
  <2> QED
    BY <1>1, <1>5, <1>13, <2>1, <2>2 DEF Once
<1> QED
  BY <1>1, <1>8, <1>9, <1>12, <1>13 DEF AnalyticsInv

(* Asking the worker to stop leaves every event where it is. *)
LEMMA SendShutdown ==
  ASSUME AnalyticsInv, NEW w \in {"caller", "refresher"}, mailbox' = Enqueue(mailbox, Shut(w)), Running,
         UNCHANGED <<backend, worker, batch, attempt, closer, posts, sink, dropped, logged>>,
         caller' \in {"idle", "waiting", "returned"}, refresher' \in {"idle", "closing"}
  PROVE  AnalyticsInv'
<1>1. AnalyticsTypes /\ Covered /\ WorkerInv /\ mailbox \in Seq(Msgs)
  BY DEF AnalyticsInv, AnalyticsTypes
<1>2. Shut(w) \in Msgs /\ Shut(w).kind = "shutdown"
  BY DEF Shut, Msgs, Whom
<1>3. mailbox' = Append(mailbox, Shut(w))
  BY DEF Enqueue
<1>4. /\ mailbox' \in Seq(Msgs) /\ EventsIn(mailbox') = EventsIn(mailbox)
      /\ Distinct(mailbox) => Distinct(mailbox')
  BY Zenon, <1>1, <1>2, <1>3, SendMsg
<1>5. Accepted' = Accepted
  BY AcceptedStays
<1>6. Posted' = Posted /\ InPosts' = InPosts /\ PostsOnce' = PostsOnce /\ Running'
  BY DEF Posted, InPosts, PostsOnce, Running
<1>7. AnalyticsTypes'
  BY <1>1, <1>4 DEF AnalyticsTypes
<1>8. WorkerInv'
  BY <1>1, <1>6 DEF WorkerInv
<1>9. Covered'
  BY <1>1, <1>4, <1>5, <1>6 DEF Covered
<1>10. Once => Once'
  BY <1>4, <1>6 DEF Once
<1> QED
  BY <1>7, <1>8, <1>9, <1>10 DEF AnalyticsInv

(* Nothing moves, whoever waits for whom. *)
LEMMA NothingMoves ==
  ASSUME AnalyticsInv, UNCHANGED <<backend, mailbox, batch, attempt, closer, posts, sink, dropped, logged>>,
         worker' = worker \/ (~Running /\ worker' \in {"receiving", "absent"}),
         caller' \in {"idle", "waiting", "returned"}, refresher' \in {"idle", "closing"}
  PROVE  AnalyticsInv'
<1>1. AnalyticsTypes /\ Covered /\ WorkerInv
  BY DEF AnalyticsInv
<1>2. Accepted' = Accepted
  BY AcceptedStays
<1>3. Posted' = Posted /\ InPosts' = InPosts /\ PostsOnce' = PostsOnce
  BY DEF Posted, InPosts, PostsOnce
<1>4. AnalyticsTypes'
  BY <1>1 DEF AnalyticsTypes
<1>5. WorkerInv'
  BY <1>1, AnalyticsAssumption DEF WorkerInv, Running
<1>6. Covered'
  BY <1>1, <1>2, <1>3 DEF Covered
<1>7. Once => Once'
  BY <1>3 DEF Once
<1> QED
  BY <1>4, <1>5, <1>6, <1>7 DEF AnalyticsInv

LEMMA CallShutdownInv == ASSUME AnalyticsInv, CallShutdown PROVE AnalyticsInv'
<1>1. refresher' \in {"idle", "closing"} /\ caller' \in {"idle", "waiting", "returned"}
  BY DEF CallShutdown
<1>2. CASE Running
  <2>1. /\ mailbox' = Enqueue(mailbox, Shut("caller"))
        /\ UNCHANGED <<backend, worker, batch, attempt, closer, posts, sink, dropped, logged>>
    BY <1>2 DEF CallShutdown
  <2> QED
    BY <1>1, <1>2, <2>1, SendShutdown
<1>3. CASE ~Running
  <2>1. UNCHANGED <<backend, mailbox, batch, attempt, closer, posts, sink, dropped, logged>> /\ worker' = worker
    BY <1>3 DEF CallShutdown
  <2> QED
    BY <1>1, <2>1, NothingMoves
<1> QED
  BY <1>2, <1>3

LEMMA RefreshConfigInv == ASSUME AnalyticsInv, RefreshConfig PROVE AnalyticsInv'
<1>1. refresher' \in {"idle", "closing"} /\ caller' \in {"idle", "waiting", "returned"}
  BY DEF RefreshConfig, AnalyticsInv, AnalyticsTypes
<1>2. CASE Running
  <2>1. /\ mailbox' = Enqueue(mailbox, Shut("refresher"))
        /\ UNCHANGED <<backend, worker, batch, attempt, closer, posts, sink, dropped, logged>>
    BY <1>2 DEF RefreshConfig
  <2> QED
    BY <1>1, <1>2, <2>1, SendShutdown
<1>3. CASE ~Running
  <2>1. /\ UNCHANGED <<backend, mailbox, batch, attempt, closer, posts, sink, dropped, logged>>
        /\ worker' \in {"receiving", "absent"}
    BY <1>3 DEF RefreshConfig
  <2> QED
    BY <1>1, <1>3, <2>1, NothingMoves
<1> QED
  BY <1>2, <1>3

LEMMA ChannelClosedInv == ASSUME AnalyticsInv, ChannelClosed PROVE AnalyticsInv'
<1>1. /\ worker = "receiving" /\ mailbox = <<>> /\ worker' = "stopped"
      /\ UNCHANGED <<backend, mailbox, attempt, closer, sink, logged, caller, refresher>>
  BY DEF ChannelClosed
<1>2. AnalyticsTypes /\ Covered /\ WorkerInv /\ batch \in Seq(Nat)
  BY DEF AnalyticsInv, AnalyticsTypes
<1>3. Accepted' = Accepted
  BY <1>1, AcceptedStays
<1>4. CASE backend = "http"
  <2>1. dropped' = dropped \cup Range(batch) /\ batch' = <<>> /\ UNCHANGED posts
    BY <1>4 DEF ChannelClosed
  <2>2. batch' \in Seq(Nat) /\ Range(batch') = {} /\ Len(batch') = 0 /\ Range(batch) \subseteq Nat
    BY <1>2, <2>1, NoElements, SeqIds
  <2>3. AnalyticsTypes'
    BY <1>1, <1>2, <2>1, <2>2 DEF AnalyticsTypes
  <2>4. WorkerInv'
    BY <1>1, <2>1, <2>2, AnalyticsAssumption DEF WorkerInv, Running
  <2>5. Posted' = Posted
    BY <1>1, <2>1 DEF Posted
  <2>6. Covered'
    BY <1>1, <1>2, <1>3, <2>1, <2>2, <2>5 DEF Covered
  <2> QED
    BY <1>1, <1>4, <2>3, <2>4, <2>6 DEF AnalyticsInv
<1>5. CASE backend # "http"
  <2>1. Detach(batch) /\ UNCHANGED dropped
    BY <1>5 DEF ChannelClosed
  <2>2. /\ posts' \subseteq Seq(Nat) /\ batch' = <<>> /\ batch' \in Seq(Nat) /\ Len(batch') = 0
        /\ Range(batch') = {} /\ IsInjective(batch')
        /\ InPosts' = InPosts \cup Range(batch) /\ Posted' = Posted \cup Range(batch)
        /\ Once => PostsOnce'
    BY <1>1, <2>1, DetachBatch
  <2>3. AnalyticsTypes'
    BY <1>1, <1>2, <2>1, <2>2 DEF AnalyticsTypes
  <2>4. WorkerInv'
    BY <1>1, <2>2, AnalyticsAssumption DEF WorkerInv, Running
  <2>5. Covered'
    BY <1>1, <1>2, <1>3, <2>1, <2>2 DEF Covered
  <2>6. Once => Once'
    BY <1>1, <2>2 DEF Once
  <2> QED
    BY <1>1, <2>3, <2>4, <2>5, <2>6 DEF AnalyticsInv
<1> QED
  BY <1>4, <1>5

-----------------------------------------------------------------------------
LEMMA AnalyticsNextInv == AnalyticsInv /\ [AnalyticsNext]_analyticsVars => AnalyticsInv'
<1> SUFFICES ASSUME AnalyticsInv, [AnalyticsNext]_analyticsVars PROVE AnalyticsInv'
  OBVIOUS
<1>1. caller \in {"idle", "waiting", "returned"} /\ refresher \in {"idle", "closing"}
  BY DEF AnalyticsInv, AnalyticsTypes
<1>2. CASE DropModule \/ UNCHANGED analyticsVars
  BY <1>1, <1>2, NothingMoves DEF DropModule, analyticsVars
<1> QED
  BY <1>2, LogEventInv, OpenFileInv, ReceiveEventInv, ReceiveShutdownInv, FlushTimerInv, HttpPostInv,
     DetachedPostInv, CallShutdownInv, RefreshConfigInv, ChannelClosedInv DEF AnalyticsNext

LEMMA AnalyticsInvariant == AnalyticsSpec => []AnalyticsInv
  BY AnalyticsInitInv, AnalyticsNextInv, PTL DEF AnalyticsSpec

(* The batch never outgrows its limit, and whatever is delivered, buffered or
   given up was logged before (AnalyticsTypeOK), for any events and limits. *)
THEOREM BatchesAreBounded == AnalyticsSpec => []AnalyticsTypeOK
<1>1. ASSUME AnalyticsInv PROVE AnalyticsTypeOK
  <2>1. AnalyticsTypes /\ Covered /\ WorkerInv /\ Accepted \subseteq 1..logged
    BY <1>1, AcceptedBound DEF AnalyticsInv
  <2>2. dropped \subseteq 1..logged /\ Range(sink) \cup Range(batch) \subseteq 1..logged
    BY <2>1, PostedIs DEF Covered
  <2>3. attempt \in 0..MaxAttempts /\ logged \in 0..Len(Events) /\ Len(batch) <= MaxCount
    BY <2>1, AnalyticsAssumption DEF AnalyticsTypes, WorkerInv, MaxAttempts
  <2> QED
    BY <2>1, <2>2, <2>3 DEF AnalyticsTypes, AnalyticsTypeOK
<1> QED
  BY <1>1, AnalyticsInvariant, PTL

(* The file, pubstack and agma modules deliver no event twice, whatever the
   order of limit, timer, refresh and shutdown. *)
THEOREM NothingIsDeliveredTwice == AnalyticsSpec => []DeliveredAtMostOnce
<1>1. AnalyticsInv => DeliveredAtMostOnce
  BY DEF AnalyticsInv, Once, DeliveredAtMostOnce
<1> QED
  BY <1>1, AnalyticsInvariant, PTL

(* A worker that has stopped left nothing in its batch or channel: every event
   it was given was posted or given up. *)
THEOREM NothingIsLeftBehind == AnalyticsSpec => []StopsEmptyHanded
<1>1. ASSUME AnalyticsInv PROVE StopsEmptyHanded
  <2> SUFFICES ASSUME worker = "stopped"
               PROVE  batch = <<>> /\ mailbox = <<>> /\ Accepted = Posted \cup dropped
    BY DEF StopsEmptyHanded
  <2>1. batch = <<>> /\ mailbox = <<>>
    BY <1>1 DEF AnalyticsInv, WorkerInv, Running
  <2>2. Range(batch) = {} /\ EventsIn(mailbox) = {}
    BY <2>1, NoElements, EmptyBox
  <2> QED
    BY <1>1, <2>1, <2>2 DEF AnalyticsInv, Covered
<1> QED
  BY <1>1, AnalyticsInvariant, PTL

-----------------------------------------------------------------------------
(* Silent losses.  A shutdown message is answered by whoever waits for it, and
   what follows it in the channel was logged after shutdown was called. *)
Excused == backend = "http" /\ (handle = "dropped" \/ endpoint = "empty")

AwaitedBy(who) == (who = "caller" /\ caller # "idle") \/ (who = "refresher" /\ refresher = "closing")

Late(e) == caller # "idle" /\ e > asked

LateBox ==
  /\ \A i \in DOMAIN mailbox : mailbox[i].kind = "shutdown" => AwaitedBy(mailbox[i].who)
  /\ \A i, j \in DOMAIN mailbox :
       i < j /\ mailbox[i].kind = "shutdown" /\ mailbox[j].kind = "event" => Late(mailbox[j].id)

LateCloser == closer # Nobody => AwaitedBy(closer) /\ \A e \in EventsIn(mailbox) : Late(e)

LateSilence == \A e \in silent : Excused \/ Late(e)

LateInv ==
  /\ asked \in Nat /\ handle \in {"held", "dropped"} /\ (caller # "idle" => asked <= logged)
  /\ worker = "stopped" /\ backend # "file" /\ handle = "held" => caller # "idle"
  /\ worker # "posting" => closer = Nobody
  /\ LateBox /\ LateCloser /\ LateSilence

(* What an event behind the first message of the channel is. *)
LEMMA BehindHead ==
  ASSUME AnalyticsInv, LateInv, mailbox # <<>>, Head(mailbox).kind = "shutdown"
  PROVE  AwaitedBy(Head(mailbox).who) /\ \A e \in EventsIn(Tail(mailbox)) : Late(e)
<1>1. /\ mailbox \in Seq(Msgs) /\ Head(mailbox) = mailbox[1] /\ 1 \in DOMAIN mailbox
      /\ DOMAIN Tail(mailbox) = 1..(Len(mailbox) - 1) /\ DOMAIN mailbox = 1..Len(mailbox)
      /\ \A i \in 1..(Len(mailbox) - 1) : Tail(mailbox)[i] = mailbox[i + 1]
  BY DEF AnalyticsInv, AnalyticsTypes
<1>2. AwaitedBy(Head(mailbox).who)
  BY Zenon, <1>1 DEF LateInv, LateBox
<1>3. ASSUME NEW i \in DOMAIN Tail(mailbox), Tail(mailbox)[i].kind = "event"
      PROVE  Late(Tail(mailbox)[i].id)
  <2>1. i + 1 \in DOMAIN mailbox /\ 1 < i + 1 /\ Tail(mailbox)[i] = mailbox[i + 1]
    BY <1>1, <1>3
  <2> QED
    BY Zenon, <1>1, <1>3, <2>1 DEF LateInv, LateBox
<1>4. ASSUME NEW e \in EventsIn(Tail(mailbox)) PROVE Late(e)
  <2>1. PICK i \in DOMAIN Tail(mailbox) : Tail(mailbox)[i].kind = "event" /\ Tail(mailbox)[i].id = e
    BY <1>4 DEF EventsIn, Range
  <2> QED
    BY <1>3, <2>1
<1> QED
  BY <1>2, <1>4

LEMMA TailIsLate ==
  ASSUME AnalyticsInv, LateInv, mailbox # <<>>, mailbox' = Tail(mailbox), UNCHANGED <<caller, refresher, asked>>
  PROVE  LateBox'
<1>1. /\ mailbox \in Seq(Msgs) /\ DOMAIN Tail(mailbox) = 1..(Len(mailbox) - 1) /\ DOMAIN mailbox = 1..Len(mailbox)
      /\ \A i \in 1..(Len(mailbox) - 1) : i + 1 \in DOMAIN mailbox /\ Tail(mailbox)[i] = mailbox[i + 1]
  BY DEF AnalyticsInv, AnalyticsTypes
<1>2. \A i \in DOMAIN mailbox' : i + 1 \in DOMAIN mailbox /\ mailbox'[i] = mailbox[i + 1]
  BY <1>1
<1>3. \A i, j \in DOMAIN mailbox' : i < j => i + 1 < j + 1
  BY <1>1
<1>4. \A e : Late(e) => Late(e)'
  BY DEF Late
<1>5. \A w : AwaitedBy(w) => AwaitedBy(w)'
  BY DEF AwaitedBy
<1>6. ASSUME NEW i \in DOMAIN mailbox', mailbox'[i].kind = "shutdown" PROVE AwaitedBy(mailbox'[i].who)
  BY Zenon, <1>2, <1>6 DEF LateInv, LateBox
<1>7. ASSUME NEW i \in DOMAIN mailbox', NEW j \in DOMAIN mailbox', i < j,
             mailbox'[i].kind = "shutdown", mailbox'[j].kind = "event"
      PROVE  Late(mailbox'[j].id)
  BY Zenon, <1>2, <1>3, <1>7 DEF LateInv, LateBox
<1> QED
  BY Zenon, <1>4, <1>5, <1>6, <1>7 DEF LateBox

LEMMA EmptyIsLate == ASSUME mailbox' = <<>> PROVE LateBox'
<1>1. DOMAIN mailbox' = {}
  OBVIOUS
<1> QED
  BY Zenon, <1>1 DEF LateBox

(* Nothing the losses depend on moves back. *)
LEMMA StaysLate ==
  ASSUME UNCHANGED <<backend, endpoint, asked>>, caller # "idle" => caller' # "idle",
         handle = "dropped" => handle' = "dropped"
  PROVE  (Excused => Excused') /\ \A e : Late(e) => Late(e)'
  BY DEF Excused, Late

LEMMA LateInit == AnalyticsInit => LateInv
<1> SUFFICES ASSUME AnalyticsInit PROVE LateInv
  OBVIOUS
<1>1. mailbox = <<>> /\ closer = Nobody /\ silent = {} /\ asked \in Nat /\ handle = "held" /\ caller = "idle"
  BY AnalyticsAssumption DEF AnalyticsInit
<1>2. worker # "stopped"
  BY DEF AnalyticsInit
<1> QED
  BY <1>1, <1>2 DEF LateInv, LateBox, LateCloser, LateSilence

LEMMA LogEventLate == ASSUME AnalyticsInv, LateInv, LogEvent PROVE LateInv'
<1> DEFINE n == logged + 1
           m == EventMsg(n)
<1>1. /\ logged' = n /\ handle = "held" /\ refresher = "idle"
      /\ UNCHANGED <<backend, worker, closer, caller, refresher, handle, endpoint, asked>>
      /\ mailbox' = IF Tracked(Events[n]) /\ Running THEN Append(mailbox, m) ELSE mailbox
      /\ silent' = IF Tracked(Events[n]) /\ worker = "stopped" /\ backend # "file" THEN silent \cup {n} ELSE silent
  BY DEF LogEvent, Enqueue
<1>2. /\ m \in Msgs /\ m.kind = "event" /\ m.id = n /\ n \in Nat /\ n > logged
      /\ logged \in Nat /\ asked \in Nat /\ mailbox \in Seq(Msgs)
  BY DEF EventMsg, Msgs, Whom, AnalyticsInv, AnalyticsTypes, LateInv
<1>3. caller # "idle" => Late(n)
  BY <1>2 DEF Late, LateInv
<1>4. \A e : Late(e)' <=> Late(e)
  BY <1>1 DEF Late
<1>5. \A w : (AwaitedBy(w)' <=> AwaitedBy(w)) /\ (AwaitedBy(w) => caller # "idle")
  BY <1>1 DEF AwaitedBy
<1>6. LateBox'
  <2>1. CASE mailbox' = mailbox
    BY Zenon, <1>4, <1>5, <2>1 DEF LateInv, LateBox
  <2>2. CASE mailbox' = Append(mailbox, m)
    <3>1. /\ DOMAIN mailbox = 1..Len(mailbox) /\ DOMAIN mailbox' = 1..(Len(mailbox) + 1) /\ Len(mailbox) \in Nat
          /\ \A i \in 1..Len(mailbox) : mailbox'[i] = mailbox[i]
          /\ mailbox'[Len(mailbox) + 1] = m
      BY <1>2, <2>2
    <3>2. \A i \in DOMAIN mailbox' :
            (i \in DOMAIN mailbox /\ mailbox'[i] = mailbox[i]) \/ (i = Len(mailbox) + 1 /\ mailbox'[i] = m)
      BY <3>1
    <3>3. \A i, j \in DOMAIN mailbox' : i < j => i \in DOMAIN mailbox
      BY <3>1
    <3>4. \A i \in DOMAIN mailbox' : mailbox'[i].kind = "shutdown" => i \in DOMAIN mailbox /\ mailbox'[i] = mailbox[i]
      BY Zenon, <1>2, <3>2
    <3>5. \A i \in DOMAIN mailbox' : mailbox'[i].kind = "shutdown" => AwaitedBy(mailbox'[i].who)
      BY Zenon, <3>4 DEF LateInv, LateBox
    <3>6. ASSUME NEW i \in DOMAIN mailbox', NEW j \in DOMAIN mailbox', i < j,
                 mailbox'[i].kind = "shutdown", mailbox'[j].kind = "event"
          PROVE  Late(mailbox'[j].id)
      <4>1. CASE j \in DOMAIN mailbox /\ mailbox'[j] = mailbox[j]
        BY Zenon, <3>4, <3>6, <4>1 DEF LateInv, LateBox
      <4>2. CASE mailbox'[j] = m
        BY Zenon, <1>2, <1>3, <1>5, <3>5, <3>6, <4>2
      <4> QED
        BY Zenon, <3>2, <4>1, <4>2
    <3> QED
      BY Zenon, <1>4, <1>5, <3>5, <3>6 DEF LateBox
  <2> QED
    BY <1>1, <2>1, <2>2
<1>7. LateCloser'
  <2> SUFFICES ASSUME closer # Nobody PROVE AwaitedBy(closer) /\ \A e \in EventsIn(mailbox') : Late(e)
    BY <1>1, <1>4, <1>5 DEF LateCloser
  <2>1. AwaitedBy(closer) /\ (\A e \in EventsIn(mailbox) : Late(e)) /\ Late(n)
    BY Zenon, <1>3, <1>5 DEF LateInv, LateCloser
  <2>2. EventsIn(mailbox') \subseteq EventsIn(mailbox) \cup {n}
    BY <1>1, <1>2, SendMsg
  <2> QED
    BY Zenon, <2>1, <2>2
<1>8. LateSilence'
  <2>1. Excused' <=> Excused
    BY <1>1 DEF Excused
  <2>2. \A e \in silent' : e \in silent \/ (e = n /\ caller # "idle")
    BY <1>1 DEF LateInv
  <2> QED
    BY Zenon, <1>3, <1>4, <2>1, <2>2 DEF LateInv, LateSilence
<1>9. /\ asked' \in Nat /\ handle' \in {"held", "dropped"} /\ (caller' # "idle" => asked' <= logged')
      /\ worker' = "stopped" /\ backend' # "file" /\ handle' = "held" => caller' # "idle"
      /\ worker' # "posting" => closer' = Nobody
  BY <1>1, <1>2 DEF LateInv
<1> QED
  BY <1>6, <1>7, <1>8, <1>9 DEF LateInv

(* A step that neither loses an event nor puts one behind a shutdown. *)
LEMMA NothingLost ==
  ASSUME AnalyticsInv, LateInv, UNCHANGED <<backend, endpoint, asked, silent, logged, refresher>>,
         caller' = caller \/ (caller = "waiting" /\ caller' = "returned"),
         handle' \in {"held", "dropped"}, handle = "dropped" => handle' = "dropped",
         worker' = "stopped" /\ backend # "file" /\ handle' = "held" => caller # "idle",
         worker' = worker \/ worker # "posting",
         LateBox', closer' = closer, EventsIn(mailbox') \subseteq EventsIn(mailbox)
  PROVE  LateInv'
<1>1. (Excused => Excused') /\ \A e : Late(e) => Late(e)'
  BY StaysLate
<1>2. \A w : AwaitedBy(w) => AwaitedBy(w)'
  BY DEF AwaitedBy
<1>3. LateCloser'
  BY Zenon, <1>1, <1>2 DEF LateInv, LateCloser
<1>4. LateSilence'
  BY Zenon, <1>1 DEF LateInv, LateSilence
<1>5. /\ asked' \in Nat /\ handle' \in {"held", "dropped"} /\ (caller' # "idle" => asked' <= logged')
      /\ worker' = "stopped" /\ backend' # "file" /\ handle' = "held" => caller' # "idle"
      /\ worker' # "posting" => closer' = Nobody
  BY DEF LateInv
<1> QED
  BY <1>3, <1>4, <1>5 DEF LateInv

LEMMA SameBox ==
  ASSUME LateInv, mailbox' = mailbox, refresher' = refresher, asked' = asked, caller # "idle" => caller' # "idle"
  PROVE  LateBox'
<1>1. \A e : Late(e) => Late(e)'
  BY DEF Late
<1>2. \A w : AwaitedBy(w) => AwaitedBy(w)'
  BY DEF AwaitedBy
<1> QED
  BY Zenon, <1>1, <1>2 DEF LateInv, LateBox

LEMMA OpenFileLate == ASSUME AnalyticsInv, LateInv, OpenFile PROVE LateInv'
<1>1. /\ UNCHANGED <<backend, endpoint, asked, silent, logged, refresher, handle, closer>>
      /\ caller' = caller \/ (caller = "waiting" /\ caller' = "returned")
      /\ worker = "opening" /\ (mailbox' = mailbox \/ mailbox' = <<>>)
  BY DEF OpenFile
<1>2. backend = "file" /\ handle' \in {"held", "dropped"}
  BY <1>1 DEF AnalyticsInv, WorkerInv, LateInv
<1>3. LateBox' /\ EventsIn(mailbox') \subseteq EventsIn(mailbox)
  <2>1. CASE mailbox' = mailbox
    BY <1>1, <2>1, SameBox
  <2>2. CASE mailbox' = <<>>
    BY <2>2, EmptyIsLate, EmptyBox
  <2> QED
    BY <1>1, <2>1, <2>2
<1> QED
  BY <1>1, <1>2, <1>3, NothingLost

LEMMA ReceiveEventLate == ASSUME AnalyticsInv, LateInv, ReceiveEvent PROVE LateInv'
<1>1. /\ UNCHANGED <<backend, endpoint, asked, silent, logged, refresher, handle, closer, caller>>
      /\ worker = "receiving" /\ mailbox # <<>> /\ mailbox' = Tail(mailbox)
  BY DEF ReceiveEvent
<1>2. worker' \in {"receiving", "posting"}
  BY <1>1 DEF ReceiveEvent, WriteLine, BatchHttp, BatchDetached
<1>3. EventsIn(mailbox') \subseteq EventsIn(mailbox)
  BY <1>1, TakeMsg DEF AnalyticsInv, AnalyticsTypes
<1>4. LateBox'
  BY <1>1, TailIsLate
<1>5. handle' \in {"held", "dropped"}
  BY <1>1 DEF LateInv
<1> QED
  BY <1>1, <1>2, <1>3, <1>4, <1>5, NothingLost

(* The events behind the shutdown message go with the channel. *)
LEMMA StopLate ==
  ASSUME AnalyticsInv, LateInv, NEW who, Stop(who), AwaitedBy(who), closer' = Nobody,
         UNCHANGED <<backend, endpoint, asked, logged, handle>>,
         \A e \in silent' : e \in silent \/ Excused \/ Late(e)
  PROVE  LateInv'
<1>1. /\ mailbox' = <<>>
      /\ who = "refresher" => caller' = caller /\ worker' \in {"receiving", "absent"}
      /\ who # "refresher" => caller' = "returned"
  BY DEF Stop
<1>2. who # "refresher" => caller # "idle"
  BY DEF AwaitedBy
<1>3. (Excused => Excused') /\ \A e : Late(e) => Late(e)'
  BY <1>1, StaysLate
<1>4. LateSilence'
  BY Zenon, <1>3 DEF LateInv, LateSilence
<1>5. LateBox' /\ LateCloser'
  BY <1>1, EmptyIsLate DEF LateCloser
<1>6. /\ asked' \in Nat /\ handle' \in {"held", "dropped"} /\ (caller' # "idle" => asked' <= logged')
      /\ worker' = "stopped" /\ backend' # "file" /\ handle' = "held" => caller' # "idle"
      /\ worker' # "posting" => closer' = Nobody
  BY <1>1, <1>2 DEF LateInv
<1> QED
  BY <1>4, <1>5, <1>6 DEF LateInv

LEMMA ReceiveShutdownLate == ASSUME AnalyticsInv, LateInv, ReceiveShutdown PROVE LateInv'
<1>1. /\ worker = "receiving" /\ mailbox # <<>> /\ Head(mailbox).kind = "shutdown"
      /\ UNCHANGED <<backend, endpoint, asked, logged, handle>>
  BY DEF ReceiveShutdown
<1>2. AwaitedBy(Head(mailbox).who) /\ \A e \in EventsIn(Tail(mailbox)) : Late(e)
  BY <1>1, BehindHead
<1>3. CASE backend = "http" /\ batch # <<>>
  <2>1. /\ worker' = "posting" /\ closer' = Head(mailbox).who /\ mailbox' = Tail(mailbox)
        /\ UNCHANGED <<silent, caller, refresher>>
    BY <1>3 DEF ReceiveShutdown
  <2>2. (\A e : Late(e)' <=> Late(e)) /\ (Excused' <=> Excused) /\ \A w : AwaitedBy(w)' <=> AwaitedBy(w)
    BY <1>1, <2>1 DEF Late, Excused, AwaitedBy
  <2>3. LateBox'
    BY <1>1, <2>1, TailIsLate
  <2>4. LateCloser'
    BY Zenon, <1>2, <2>1, <2>2 DEF LateCloser
  <2>5. LateSilence'
    BY Zenon, <2>1, <2>2 DEF LateInv, LateSilence
  <2> QED
    BY <1>1, <2>1, <2>3, <2>4, <2>5 DEF LateInv
<1>4. CASE ~(backend = "http" /\ batch # <<>>)
  <2>1. silent' = silent \cup EventsIn(Tail(mailbox)) /\ Stop(Head(mailbox).who) /\ closer' = closer
    BY <1>4 DEF ReceiveShutdown
  <2>2. closer = Nobody
    BY <1>1 DEF LateInv
  <2>3. \A e \in silent' : e \in silent \/ Excused \/ Late(e)
    BY Zenon, <1>2, <2>1
  <2> QED
    BY Zenon, <1>1, <1>2, <2>1, <2>2, <2>3, StopLate
<1> QED
  BY <1>3, <1>4


LEMMA HttpPostLate == ASSUME AnalyticsInv, LateInv, HttpPost PROVE LateInv'
<1>1. /\ worker = "posting" /\ backend = "http" /\ UNCHANGED <<backend, endpoint, asked, logged, handle>>
  BY DEF HttpPost, AnalyticsInv, WorkerInv
<1>2. handle' \in {"held", "dropped"}
  BY <1>1 DEF LateInv
<1>3. CASE /\ closer' = Nobody
           /\ silent' = silent \cup (IF endpoint = "empty" THEN Range(batch) ELSE {})
                               \cup (IF closer = Nobody THEN {} ELSE EventsIn(mailbox))
           /\ IF closer = Nobody THEN worker' = "receiving" /\ UNCHANGED <<mailbox, caller, refresher>>
              ELSE Stop(closer)
  <2>1. endpoint = "empty" => Excused
    BY <1>1 DEF Excused
  <2>2. closer # Nobody => AwaitedBy(closer) /\ \A e \in EventsIn(mailbox) : Late(e)
    BY DEF LateInv, LateCloser
  <2>3. \A e \in silent' : e \in silent \/ Excused \/ Late(e)
    BY <1>3, <2>1, <2>2
  <2>4. CASE closer # Nobody
    BY Zenon, <1>1, <1>3, <2>2, <2>3, <2>4, StopLate
  <2>5. CASE closer = Nobody
    <3>1. worker' = "receiving" /\ UNCHANGED <<mailbox, caller, refresher>>
      BY <1>3, <2>5
    <3>2. LateBox'
      BY <1>1, <3>1, SameBox
    <3>3. (Excused => Excused') /\ \A e : Late(e) => Late(e)'
      BY <1>1, <3>1, StaysLate
    <3>4. LateSilence'
      BY Zenon, <2>3, <3>3 DEF LateInv, LateSilence
    <3> QED
      BY <1>1, <1>3, <3>1, <3>2, <3>4 DEF LateInv, LateCloser
  <2> QED
    BY <2>4, <2>5
<1>4. CASE UNCHANGED <<closer, silent, worker, mailbox, caller, refresher>>
  BY <1>1, <1>2, <1>4, SameBox, NothingLost
<1> QED
  BY <1>3, <1>4 DEF HttpPost

(* shutdown() puts its message last, and its caller waits from then on. *)
LEMMA LastIsShutdown ==
  ASSUME AnalyticsInv, LateInv, NEW w, mailbox' = Append(mailbox, Shut(w)),
         \A v : AwaitedBy(v) => AwaitedBy(v)', AwaitedBy(w)', \A e : Late(e) => Late(e)'
  PROVE  LateBox'
<1>1. Shut(w).kind = "shutdown" /\ Shut(w).who = w
  BY DEF Shut
<1>2. mailbox \in Seq(Msgs)
  BY DEF AnalyticsInv, AnalyticsTypes
<1>3. /\ DOMAIN mailbox = 1..Len(mailbox) /\ DOMAIN mailbox' = 1..(Len(mailbox) + 1) /\ Len(mailbox) \in Nat
      /\ \A i \in 1..Len(mailbox) : mailbox'[i] = mailbox[i]
      /\ mailbox'[Len(mailbox) + 1] = Shut(w)
  BY <1>2
<1>4. \A i \in DOMAIN mailbox' : (i \in DOMAIN mailbox /\ mailbox'[i] = mailbox[i]) \/ mailbox'[i] = Shut(w)
  BY <1>3
<1>5. \A i, j \in DOMAIN mailbox' : i < j => i \in DOMAIN mailbox /\ mailbox'[i] = mailbox[i]
  BY <1>3
<1>6. ASSUME NEW i \in DOMAIN mailbox', mailbox'[i].kind = "shutdown" PROVE (AwaitedBy(mailbox[i].who))'
  <2>1. CASE i \in DOMAIN mailbox /\ mailbox'[i] = mailbox[i]
    <3>1. AwaitedBy(mailbox'[i].who)
      BY Zenon, <1>6, <2>1 DEF LateInv, LateBox
    <3> QED
      BY Zenon, <3>1
  <2>2. CASE mailbox'[i] = Shut(w)
    BY Zenon, <1>1, <2>2
  <2> QED
    BY Zenon, <1>4, <1>6, <2>1, <2>2
<1>7. ASSUME NEW i \in DOMAIN mailbox', NEW j \in DOMAIN mailbox', i < j,
             mailbox'[i].kind = "shutdown", mailbox'[j].kind = "event"
      PROVE  Late(mailbox'[j].id)
  <2>1. j \in DOMAIN mailbox /\ mailbox'[j] = mailbox[j]
    BY Zenon, <1>1, <1>4, <1>7
  <2> QED
    BY Zenon, <1>5, <1>7, <2>1 DEF LateInv, LateBox
<1> QED
  BY Zenon, <1>6, <1>7 DEF LateBox

LEMMA CallShutdownLate == ASSUME AnalyticsInv, LateInv, CallShutdown PROVE LateInv'
<1>1. /\ caller = "idle" /\ refresher = "idle" /\ handle = "held" /\ asked' = logged
      /\ caller' \in {"waiting", "returned"}
      /\ UNCHANGED <<backend, endpoint, silent, logged, refresher, handle, closer, worker>>
      /\ mailbox' = Append(mailbox, Shut("caller")) \/ mailbox' = mailbox
  BY DEF CallShutdown, Enqueue
<1>2. \A w : ~AwaitedBy(w)
  BY <1>1 DEF AwaitedBy
<1>3. \A e : ~Late(e)
  BY <1>1 DEF Late
<1>4. AwaitedBy("caller")'
  BY <1>1 DEF AwaitedBy
<1>5. LateBox'
  <2>1. CASE mailbox' = mailbox
    BY Zenon, <1>2, <2>1 DEF LateInv, LateBox
  <2>2. CASE mailbox' = Append(mailbox, Shut("caller"))
    BY Zenon, <1>2, <1>3, <1>4, <2>2, LastIsShutdown
  <2> QED
    BY <1>1, <2>1, <2>2
<1>6. LateCloser'
  BY <1>1, <1>2 DEF LateInv, LateCloser
<1>7. LateSilence'
  <2>1. Excused => Excused'
    BY <1>1 DEF Excused
  <2> QED
    BY Zenon, <1>1, <1>3, <2>1 DEF LateInv, LateSilence
<1>8. /\ asked' \in Nat /\ handle' \in {"held", "dropped"} /\ (caller' # "idle" => asked' <= logged')
      /\ worker' = "stopped" /\ backend' # "file" /\ handle' = "held" => caller' # "idle"
      /\ worker' # "posting" => closer' = Nobody
  BY <1>1 DEF LateInv, AnalyticsInv, AnalyticsTypes
<1> QED
  BY <1>5, <1>6, <1>7, <1>8 DEF LateInv

LEMMA RefreshConfigLate == ASSUME AnalyticsInv, LateInv, RefreshConfig PROVE LateInv'
<1>1. /\ refresher = "idle" /\ UNCHANGED <<backend, endpoint, asked, silent, logged, handle, closer, caller>>
      /\ \/ /\ refresher' = "closing" /\ mailbox' = Append(mailbox, Shut("refresher")) /\ worker' = worker
         \/ /\ worker' \in {"receiving", "absent"} /\ UNCHANGED <<refresher, mailbox>> /\ ~Running
  BY DEF RefreshConfig, Enqueue
<1>2. (Excused => Excused') /\ \A e : Late(e) => Late(e)'
  BY <1>1, StaysLate
<1>3. \A w : AwaitedBy(w) => AwaitedBy(w)'
  BY <1>1 DEF AwaitedBy
<1>4. mailbox \in Seq(Msgs) /\ Shut("refresher") \in Msgs /\ Shut("refresher").kind = "shutdown"
  BY DEF AnalyticsInv, AnalyticsTypes, Shut, Msgs, Whom
<1>5. LateBox' /\ EventsIn(mailbox') \subseteq EventsIn(mailbox)
  <2>1. CASE mailbox' = mailbox
    BY Zenon, <1>2, <1>3, <2>1 DEF LateInv, LateBox
  <2>2. CASE refresher' = "closing" /\ mailbox' = Append(mailbox, Shut("refresher"))
    <3>1. AwaitedBy("refresher")'
      BY <2>2 DEF AwaitedBy
    <3>2. LateBox'
      BY Zenon, <1>2, <1>3, <2>2, <3>1, LastIsShutdown
    <3>3. EventsIn(mailbox') \subseteq EventsIn(mailbox)
      BY Zenon, <1>4, <2>2, SendMsg
    <3> QED
      BY <3>2, <3>3
  <2> QED
    BY <1>1, <2>1, <2>2
<1>6. LateCloser'
  BY Zenon, <1>1, <1>2, <1>3, <1>5 DEF LateInv, LateCloser
<1>7. LateSilence'
  BY Zenon, <1>1, <1>2 DEF LateInv, LateSilence
<1>8. /\ asked' \in Nat /\ handle' \in {"held", "dropped"} /\ (caller' # "idle" => asked' <= logged')
      /\ worker' = "stopped" /\ backend' # "file" /\ handle' = "held" => caller' # "idle"
      /\ worker' # "posting" => closer' = Nobody
  BY <1>1 DEF LateInv, Running
<1> QED
  BY <1>5, <1>6, <1>7, <1>8 DEF LateInv

(* Only a dropped module's worker sees its channel close. *)
LEMMA ChannelClosedLate == ASSUME AnalyticsInv, LateInv, ChannelClosed PROVE LateInv'
<1>1. /\ handle = "dropped" /\ worker = "receiving" /\ worker' = "stopped"
      /\ UNCHANGED <<backend, endpoint, asked, mailbox, logged, handle, closer, caller, refresher>>
      /\ backend = "http" \/ silent' = silent
  BY DEF ChannelClosed
<1>2. (Excused' <=> Excused) /\ (\A e : Late(e) => Late(e)') /\ (backend = "http" => Excused)
  BY <1>1 DEF Excused, Late
<1>3. LateBox'
  BY <1>1, SameBox
<1>4. LateSilence'
  BY Zenon, <1>1, <1>2 DEF LateInv, LateSilence
<1> QED
  BY <1>1, <1>3, <1>4 DEF LateInv, LateCloser

LEMMA LateNext == AnalyticsInv /\ LateInv /\ [AnalyticsNext]_analyticsVars => LateInv'
<1> SUFFICES ASSUME AnalyticsInv, LateInv, [AnalyticsNext]_analyticsVars PROVE LateInv'
  OBVIOUS
<1>1. CASE FlushTimer \/ DetachedPost \/ DropModule \/ UNCHANGED analyticsVars
  <2>1. /\ UNCHANGED <<backend, endpoint, asked, silent, logged, refresher, mailbox, closer, caller>>
        /\ handle' = handle \/ (handle = "held" /\ handle' = "dropped")
        /\ worker' = worker \/ (worker = "receiving" /\ worker' = "posting")
    BY <1>1 DEF FlushTimer, DetachedPost, DropModule, analyticsVars
  <2>2. LateBox' /\ EventsIn(mailbox') \subseteq EventsIn(mailbox)
    BY <2>1, SameBox
  <2>3. handle' \in {"held", "dropped"} /\ (handle = "dropped" => handle' = "dropped")
    BY <2>1 DEF LateInv
  <2>4. worker' = "stopped" /\ backend # "file" /\ handle' = "held" => caller # "idle"
    BY <2>1 DEF LateInv
  <2> QED
    BY <2>1, <2>2, <2>3, <2>4, NothingLost
<1> QED
  BY <1>1, LogEventLate, OpenFileLate, ReceiveEventLate, ReceiveShutdownLate, HttpPostLate,
     CallShutdownLate, RefreshConfigLate, ChannelClosedLate DEF AnalyticsNext

(* Whatever the module, an event logged before shutdown() was called is posted,
   or its loss is logged; the exceptions are HttpAnalytics without an endpoint,
   and HttpAnalytics dropped without a shutdown. *)
THEOREM LossesAreTold == AnalyticsSpec => []OnlyLateEventsVanish
<1>1. LateInv => OnlyLateEventsVanish
  BY Zenon DEF LateInv, LateSilence, Excused, Late, OnlyLateEventsVanish
<1>2. AnalyticsSpec => []LateInv
  BY LateInit, LateNext, AnalyticsInvariant, PTL DEF AnalyticsSpec
<1> QED
  BY <1>1, <1>2, PTL

-----------------------------------------------------------------------------
\* BatchingBackend.
States == {"none", "pushing", "flushing", "posting", "done", "cutoff"}

BatchingTypes ==
  /\ buffer \in Seq(LogTasks)
  /\ task \in [Actors -> States] /\ held \in [Actors -> Seq(LogTasks)]
  /\ received \subseteq LogTasks /\ failed \subseteq LogTasks /\ cut \subseteq LogTasks

Settled == received \cup failed \cup cut

(* A batch is held only while it is posted; what is buffered is not settled yet;
   and a task that has not pushed has its event nowhere. *)
Accounted ==
  /\ \A a \in Actors : task[a] # "posting" => held[a] = <<>>
  /\ Range(buffer) \cap Settled = {}
  /\ \A t \in LogTasks : task[t] \in {"none", "pushing"} =>
       t \notin Range(buffer) \cup Settled /\ \A a \in Actors : t \notin Range(held[a])
  /\ task[Flusher] # "pushing" /\ task[Closer] # "pushing"

BatchingInv == BatchingTypes /\ Accounted /\ TakenOnce

-----------------------------------------------------------------------------
LEMMA EmptyHasNone == Range(<<>>) = {} /\ IsInjective(<<>>)
  BY DEF Range, IsInjective

LEMMA AppendAdds ==
  ASSUME NEW S, NEW s \in Seq(S), NEW x \in S
  PROVE  /\ Range(Append(s, x)) = Range(s) \cup {x}
         /\ IsInjective(s) /\ x \notin Range(s) => IsInjective(Append(s, x))
<1>1. Range(Append(s, x)) \subseteq Range(s) \cup {x}
  BY DEF Range
<1>2. Range(s) \subseteq Range(Append(s, x))
  BY DEF Range
<1>3. x \in Range(Append(s, x))
  <2>1. Len(s) + 1 \in DOMAIN Append(s, x) /\ Append(s, x)[Len(s) + 1] = x
    OBVIOUS
  <2> QED
    BY <2>1 DEF Range
<1>4. IsInjective(s) /\ x \notin Range(s) => IsInjective(Append(s, x))
  BY DEF Range, IsInjective
<1> QED
  BY <1>1, <1>2, <1>3, <1>4

LEMMA OnlyItsOwn == ASSUME NEW s \in Seq(LogTasks) PROVE Range(s) \subseteq LogTasks
  BY DEF Range

LEMMA BatchingInitInv == BatchingInit => BatchingInv
<1> SUFFICES ASSUME BatchingInit PROVE BatchingInv
  OBVIOUS
<1>1. BatchingTypes
  BY DEF BatchingInit, BatchingTypes, States
<1>2. Accounted
  BY EmptyHasNone DEF BatchingInit, Accounted, Settled, Actors
<1>3. TakenOnce
  BY EmptyHasNone DEF BatchingInit, TakenOnce
<1> QED
  BY <1>1, <1>2, <1>3 DEF BatchingInv

(* A task is spawned, or its call of flush begins: nothing moves. *)
LEMMA SpawnStep == ASSUME BatchingInv, NEW t \in LogTasks, SpawnLog(t) PROVE BatchingInv'
  BY Zenon, BatchingAssumption
  DEF SpawnLog, BatchingInv, BatchingTypes, Accounted, TakenOnce, Settled, States, Actors, Flusher, Closer

LEMMA FlusherStep == ASSUME BatchingInv, FlusherTick PROVE BatchingInv'
  BY Zenon, BatchingAssumption
  DEF FlusherTick, BatchingInv, BatchingTypes, Accounted, TakenOnce, Settled, States, Actors, Flusher, Closer

(* The pushed event was nowhere before, and is in the buffer alone. *)
LEMMA PushStep == ASSUME BatchingInv, NEW t \in LogTasks, Push(t) PROVE BatchingInv'
<1>1. /\ task[t] = "pushing" /\ buffer' = Append(buffer, t)
      /\ task' = [task EXCEPT ![t] = IF Len(buffer') >= BatchSize THEN "flushing" ELSE "done"]
      /\ UNCHANGED <<held, received, failed, cut>>
  BY DEF Push
<1>2. /\ t \notin Range(buffer) \cup Settled /\ \A a \in Actors : t \notin Range(held[a])
  BY <1>1 DEF BatchingInv, Accounted
<1>3. buffer \in Seq(LogTasks) /\ IsInjective(buffer)
  BY DEF BatchingInv, BatchingTypes, TakenOnce
<1>4. Range(buffer') = Range(buffer) \cup {t} /\ IsInjective(buffer')
  BY <1>1, <1>2, <1>3, AppendAdds
<1>5. BatchingTypes'
  <2>1. buffer' \in Seq(LogTasks)
    BY <1>1, <1>3
  <2> QED
    BY <1>1, <2>1 DEF BatchingInv, BatchingTypes, States, Actors
<1>6. Accounted'
  BY <1>1, <1>2, <1>4, BatchingAssumption
  DEF BatchingInv, BatchingTypes, Accounted, Settled, Actors, Flusher, Closer
<1>7. TakenOnce'
  BY <1>1, <1>2, <1>4 DEF BatchingInv, BatchingTypes, TakenOnce, Settled
<1> QED
  BY <1>5, <1>6, <1>7 DEF BatchingInv

(* The buffer changes hands as a whole. *)
LEMMA TakeStep == ASSUME BatchingInv, NEW a \in Actors, TakeBatch(a) PROVE BatchingInv'
<1>1. CASE buffer = <<>>
  <2>1. /\ task[a] = "flushing" /\ UNCHANGED <<buffer, held, received, failed, cut>>
        /\ task' = [task EXCEPT ![a] = IF a = Flusher THEN "none" ELSE "done"]
    BY <1>1 DEF TakeBatch
  <2>2. BatchingTypes'
    BY <2>1 DEF BatchingInv, BatchingTypes, States
  <2>3. \A b \in Actors : task'[b] # "posting" => task[b] # "posting"
    BY <2>1 DEF BatchingInv, BatchingTypes
  <2>4. \A t \in LogTasks : task'[t] \in {"none", "pushing"} => task[t] \in {"none", "pushing"}
    BY <2>1, BatchingAssumption DEF BatchingInv, BatchingTypes, Actors, Flusher
  <2>5. Accounted'
    BY <2>1, <2>3, <2>4 DEF BatchingInv, BatchingTypes, Accounted, Settled, Actors
  <2>6. TakenOnce'
    BY <2>1 DEF BatchingInv, TakenOnce
  <2> QED
    BY <2>2, <2>5, <2>6 DEF BatchingInv
<1>2. CASE buffer # <<>>
  <2>1. /\ task[a] = "flushing" /\ task' = [task EXCEPT ![a] = "posting"]
        /\ held' = [held EXCEPT ![a] = buffer] /\ buffer' = <<>>
        /\ UNCHANGED <<received, failed, cut>>
    BY <1>2 DEF TakeBatch
  <2>2. Range(buffer') = {} /\ IsInjective(buffer')
    BY <2>1, EmptyHasNone
  <2>3. \A b \in Actors : held'[b] = IF b = a THEN buffer ELSE held[b]
    BY <2>1 DEF BatchingInv, BatchingTypes
  <2>4. BatchingTypes'
    BY <2>1 DEF BatchingInv, BatchingTypes, States
  <2>5. Accounted'
    BY <2>1, <2>2, <2>3 DEF BatchingInv, BatchingTypes, Accounted, Settled, Actors
  <2>6. TakenOnce'
    BY <2>1, <2>2, <2>3 DEF BatchingInv, BatchingTypes, Accounted, TakenOnce, Settled
  <2> QED
    BY <2>4, <2>5, <2>6 DEF BatchingInv
<1> QED
  BY <1>1, <1>2

(* A batch that leaves its holder joins one of the three sets of the settled. *)
LEMMA ReleaseStep ==
  ASSUME BatchingInv, NEW a \in Actors, task' \in [Actors -> States],
         \A t \in LogTasks : task'[t] \in {"none", "pushing"} => task[t] \in {"none", "pushing"},
         \A b \in Actors : task'[b] # "posting" => b = a \/ task[b] # "posting",
         task'[Flusher] # "pushing", task'[Closer] # "pushing",
         held' = [held EXCEPT ![a] = <<>>], buffer' = buffer,
         \/ received' = received \cup Range(held[a]) /\ UNCHANGED <<failed, cut>>
         \/ failed' = failed \cup Range(held[a]) /\ UNCHANGED <<received, cut>>
         \/ cut' = cut \cup Range(held[a]) /\ UNCHANGED <<received, failed>>
  PROVE  BatchingInv'
<1>1. \A b \in Actors : held'[b] = IF b = a THEN <<>> ELSE held[b]
  BY DEF BatchingInv, BatchingTypes
<1>2. Range(held[a]) \subseteq LogTasks
  BY OnlyItsOwn DEF BatchingInv, BatchingTypes
<1>3. Range(<<>>) = {}
  BY EmptyHasNone
<1>4. BatchingTypes'
  <2>1. held' \in [Actors -> Seq(LogTasks)]
    BY DEF BatchingInv, BatchingTypes
  <2> QED
    BY <1>2, <2>1 DEF BatchingInv, BatchingTypes
<1>5. Settled' = Settled \cup Range(held[a])
  BY DEF Settled
<1>6. Accounted'
  <2>1. \A b \in Actors : task'[b] # "posting" => held'[b] = <<>>
    BY <1>1 DEF BatchingInv, Accounted
  <2>2. Range(buffer') \cap Settled' = {}
    BY <1>5 DEF BatchingInv, Accounted, TakenOnce
  <2>3. ASSUME NEW t \in LogTasks, task'[t] \in {"none", "pushing"}
        PROVE  t \notin Range(buffer') \cup Settled' /\ \A b \in Actors : t \notin Range(held'[b])
    BY <1>1, <1>3, <1>5, <2>3 DEF BatchingInv, Accounted
  <2> QED
    BY <2>1, <2>2, <2>3 DEF Accounted
<1>7. TakenOnce'
  <2>1. \A b, c \in Actors : b # c => Range(held'[b]) \cap Range(held'[c]) = {}
    BY <1>1, <1>3 DEF BatchingInv, TakenOnce
  <2>2. \A b \in Actors : Range(held'[b]) \cap (Range(buffer') \cup received' \cup failed' \cup cut') = {}
    BY <1>1, <1>3 DEF BatchingInv, TakenOnce
  <2>3. received' \cap failed' = {} /\ (received' \cup failed') \cap cut' = {}
    BY DEF BatchingInv, TakenOnce
  <2> QED
    BY <2>1, <2>2, <2>3 DEF BatchingInv, TakenOnce
<1> QED
  BY <1>4, <1>6, <1>7 DEF BatchingInv

LEMMA PostStep == ASSUME BatchingInv, NEW a \in Actors, PostBatch(a) PROVE BatchingInv'
<1>1. /\ task[a] = "posting" /\ buffer' = buffer /\ held' = [held EXCEPT ![a] = <<>>]
      /\ task' = [task EXCEPT ![a] = IF a = Flusher THEN "none" ELSE "done"]
      /\ \/ received' = received \cup Range(held[a]) /\ UNCHANGED <<failed, cut>>
         \/ failed' = failed \cup Range(held[a]) /\ UNCHANGED <<received, cut>>
  BY DEF PostBatch
<1>2. task' \in [Actors -> States]
  BY <1>1 DEF BatchingInv, BatchingTypes, States
<1>3. \A t \in LogTasks : task'[t] \in {"none", "pushing"} => task[t] \in {"none", "pushing"}
  BY <1>1, BatchingAssumption DEF BatchingInv, BatchingTypes, Actors, Flusher
<1>4. /\ \A b \in Actors : task'[b] # "posting" => b = a \/ task[b] # "posting"
      /\ task'[Flusher] # "pushing" /\ task'[Closer] # "pushing"
  BY <1>1 DEF BatchingInv, BatchingTypes, Accounted, Actors
<1> QED
  BY Zenon, <1>1, <1>2, <1>3, <1>4, ReleaseStep

(* shutdown releases what the flusher holds. *)
LEMMA ShutdownStep == ASSUME BatchingInv, Shutdown PROVE BatchingInv'
<1>1. /\ buffer' = buffer /\ held' = [held EXCEPT ![Flusher] = <<>>]
      /\ task' = [task EXCEPT ![Closer] = "flushing", ![Flusher] = "done"]
      /\ task[Closer] = "none"
      /\ cut' = cut \cup Range(held[Flusher]) /\ UNCHANGED <<received, failed>>
  BY DEF Shutdown
<1>2. task' \in [Actors -> States] /\ Flusher \in Actors
  BY <1>1 DEF BatchingInv, BatchingTypes, States, Actors
<1>3. \A t \in LogTasks : task'[t] = task[t]
  BY <1>1, BatchingAssumption DEF BatchingInv, BatchingTypes, Actors, Flusher, Closer
<1>4. /\ \A b \in Actors : task'[b] # "posting" => b = Flusher \/ task[b] # "posting"
      /\ task'[Flusher] # "pushing" /\ task'[Closer] # "pushing"
  BY <1>1 DEF BatchingInv, BatchingTypes, Actors
<1> QED
  BY Zenon, <1>1, <1>2, <1>3, <1>4, ReleaseStep

(* The runner cuts off a task with its batch, or with the event it has not
   pushed yet. *)
LEMMA TimeOutStep == ASSUME BatchingInv, NEW a \in Actors, TimeOut(a) PROVE BatchingInv'
<1>1. /\ a # Flusher /\ task[a] \in {"pushing", "flushing", "posting"} /\ UNCHANGED <<buffer, received, failed>>
      /\ task' = [task EXCEPT ![a] = "cutoff"] /\ held' = [held EXCEPT ![a] = <<>>]
      /\ cut' = cut \cup Range(held[a]) \cup (IF task[a] = "pushing" THEN {a} ELSE {})
  BY DEF TimeOut
<1>2. task' \in [Actors -> States]
  BY <1>1 DEF BatchingInv, BatchingTypes, States
<1>3. \A t \in LogTasks : task'[t] \in {"none", "pushing"} => task[t] \in {"none", "pushing"} /\ t # a
  BY <1>1 DEF BatchingInv, BatchingTypes, Actors
<1>4. /\ \A b \in Actors : task'[b] # "posting" => b = a \/ task[b] # "posting"
      /\ task'[Flusher] # "pushing" /\ task'[Closer] # "pushing"
  BY <1>1 DEF BatchingInv, BatchingTypes, Accounted, Actors
<1>5. CASE task[a] # "pushing"
  BY ZenonT(40), <1>1, <1>2, <1>3, <1>4, <1>5, ReleaseStep
<1>6. CASE task[a] = "pushing"
  <2>1. a \in LogTasks /\ held[a] = <<>> /\ held' = held /\ cut' = cut \cup {a}
    BY <1>1, <1>6, EmptyHasNone DEF BatchingInv, BatchingTypes, Accounted, Actors
  <2>2. a \notin Range(buffer) \cup Settled /\ \A b \in Actors : a \notin Range(held[b])
    BY <1>6, <2>1 DEF BatchingInv, Accounted
  <2>3. BatchingTypes'
    BY <1>1, <1>2, <2>1 DEF BatchingInv, BatchingTypes
  <2>4. Accounted'
    <3>1. \A b \in Actors : task'[b] # "posting" => held'[b] = <<>>
      BY <1>4, <2>1 DEF BatchingInv, Accounted
    <3>2. Settled' = Settled \cup {a}
      BY <1>1, <2>1 DEF Settled
    <3>3. Range(buffer') \cap Settled' = {}
      BY <1>1, <2>2, <3>2 DEF BatchingInv, Accounted
    <3>4. ASSUME NEW t \in LogTasks, task'[t] \in {"none", "pushing"}
          PROVE  t \notin Range(buffer') \cup Settled' /\ \A b \in Actors : t \notin Range(held'[b])
      <4>1. t # a /\ task[t] \in {"none", "pushing"}
        BY Zenon, <1>3, <3>4
      <4>2. t \notin Range(buffer) \cup Settled /\ \A b \in Actors : t \notin Range(held[b])
        BY Zenon, <4>1 DEF BatchingInv, Accounted
      <4> QED
        BY <1>1, <2>1, <3>2, <4>1, <4>2
    <3> QED
      BY Zenon, <1>4, <3>1, <3>3, <3>4 DEF Accounted
  <2>5. TakenOnce'
    <3>1. /\ IsInjective(buffer') /\ received' \cap failed' = {}
          /\ \A b, c \in Actors : b # c => Range(held'[b]) \cap Range(held'[c]) = {}
      BY ZenonT(40), <1>1, <2>1 DEF BatchingInv, TakenOnce
    <3>2. \A b \in Actors : Range(held'[b]) \cap (Range(buffer') \cup received' \cup failed' \cup cut') = {}
      BY <1>1, <2>1, <2>2 DEF BatchingInv, TakenOnce
    <3>3. (received' \cup failed') \cap cut' = {}
      BY <1>1, <2>1, <2>2 DEF BatchingInv, TakenOnce, Settled
    <3> QED
      BY <3>1, <3>2, <3>3 DEF TakenOnce
  <2> QED
    BY <2>3, <2>4, <2>5 DEF BatchingInv
<1> QED
  BY <1>5, <1>6

LEMMA BatchingStutter == BatchingInv /\ UNCHANGED batchingVars => BatchingInv'
  BY DEF BatchingInv, batchingVars, BatchingTypes, Accounted, TakenOnce, Settled

LEMMA BatchingInvariant == BatchingSpec => []BatchingInv
<1>1. BatchingInv /\ [BatchingNext]_batchingVars => BatchingInv'
  BY SpawnStep, PushStep, TakeStep, PostStep, TimeOutStep, FlusherStep, ShutdownStep, BatchingStutter
  DEF BatchingNext
<1> QED
  BY BatchingInitInv, <1>1, PTL DEF BatchingSpec

-----------------------------------------------------------------------------
(* How far the buffer may outgrow a batch. *)
Owing == {t \in Range(buffer) : task[t] \in {"flushing", "cutoff"}}

LEMMA OwingIsFinite == ASSUME BatchingInv PROVE IsFiniteSet(Owing) /\ Cardinality(Owing) \in Nat
<1>1. Owing \in SUBSET LogTasks
  BY OnlyItsOwn DEF Owing, BatchingInv, BatchingTypes
<1>2. IsFiniteSet(Owing)
  BY <1>1, BatchingAssumption, FS_Subset
<1> QED
  BY <1>2, FS_CardinalityType

(* A step that leaves the buffer and takes no task off its way to a flush. *)
LEMMA OwedStays ==
  ASSUME BatchingInv, BatchingInv', OverflowIsOwed, buffer' = buffer, Owing \subseteq Owing'
  PROVE  OverflowIsOwed'
<1>1. IsFiniteSet(Owing') /\ Cardinality(Owing') \in Nat
  <2>1. Owing' \in SUBSET LogTasks
    BY OnlyItsOwn DEF Owing, BatchingInv, BatchingTypes
  <2>2. IsFiniteSet(Owing')
    BY <2>1, BatchingAssumption, FS_Subset
  <2> QED
    BY <2>2, FS_CardinalityType
<1>2. Cardinality(Owing) <= Cardinality(Owing')
  BY <1>1, FS_Subset
<1>3. Len(buffer) \in Nat
  BY DEF BatchingInv, BatchingTypes
<1> QED
  BY <1>1, <1>2, <1>3, OwingIsFinite, BatchingAssumption DEF OverflowIsOwed, Owing

LEMMA PushOwes == ASSUME BatchingInv, BatchingInv', OverflowIsOwed, NEW t \in LogTasks, Push(t) PROVE OverflowIsOwed'
<1>1. /\ task[t] = "pushing" /\ buffer' = Append(buffer, t) /\ t \notin Range(buffer)
      /\ task' = [task EXCEPT ![t] = IF Len(buffer') >= BatchSize THEN "flushing" ELSE "done"]
  BY DEF Push, BatchingInv, Accounted
<1>2. buffer \in Seq(LogTasks) /\ Len(buffer) \in Nat /\ Len(buffer') = Len(buffer) + 1
  BY <1>1 DEF BatchingInv, BatchingTypes
<1>3. Range(buffer') = Range(buffer) \cup {t}
  BY <1>1, <1>2, AppendAdds
<1>4. \A u \in Range(buffer) : task'[u] = task[u]
  BY <1>1, <1>2, OnlyItsOwn DEF BatchingInv, BatchingTypes, Actors
<1>5. CASE Len(buffer') >= BatchSize
  <2>1. task'[t] = "flushing"
    BY <1>1, <1>5 DEF BatchingInv, BatchingTypes, Actors
  <2>2. Owing' = Owing \cup {t} /\ t \notin Owing
    BY <1>1, <1>3, <1>4, <2>1 DEF Owing
  <2>3. Cardinality(Owing') = Cardinality(Owing) + 1
    BY <2>2, OwingIsFinite, FS_AddElement
  <2> QED
    BY <1>2, <2>3, OwingIsFinite, BatchingAssumption DEF OverflowIsOwed, Owing
<1>6. CASE Len(buffer') < BatchSize
  <2>1. Owing' = Owing
    <3>1. task'[t] = "done"
      BY <1>1, <1>2, <1>6, BatchingAssumption DEF BatchingInv, BatchingTypes, Actors
    <3> QED
      BY <1>3, <1>4, <3>1 DEF Owing
  <2>2. Cardinality(Owing') \in Nat
    BY <2>1, OwingIsFinite
  <2>3. Len(buffer') < BatchSize + Cardinality(Owing')
    BY <1>2, <1>6, <2>2, BatchingAssumption
  <2> QED
    BY <2>3 DEF OverflowIsOwed, Owing
<1> QED
  BY <1>2, <1>5, <1>6, BatchingAssumption

LEMMA NothingOwed == buffer = <<>> => OverflowIsOwed
<1> SUFFICES ASSUME buffer = <<>> PROVE OverflowIsOwed
  OBVIOUS
<1>1. Owing = {}
  BY EmptyHasNone DEF Owing
<1>2. Cardinality(Owing) = 0
  BY <1>1, FS_EmptySet
<1>3. Len(buffer) = 0
  OBVIOUS
<1> QED
  BY <1>2, <1>3, BatchingAssumption DEF OverflowIsOwed, Owing

LEMMA OwedNext ==
  ASSUME BatchingInv, BatchingInv', OverflowIsOwed, [BatchingNext]_batchingVars
  PROVE  OverflowIsOwed'
<1>0. /\ Range(buffer) \subseteq LogTasks
      /\ \A u \in Range(buffer) : task[u] \notin {"none", "pushing"}
  BY OnlyItsOwn DEF BatchingInv, BatchingTypes, Accounted
<1>1. ASSUME NEW t \in LogTasks, SpawnLog(t) PROVE OverflowIsOwed'
  <2>1. buffer' = buffer /\ Owing \subseteq Owing'
    BY <1>0, <1>1 DEF SpawnLog, Owing, BatchingInv, BatchingTypes, Actors
  <2> QED
    BY <2>1, OwedStays
<1>2. ASSUME NEW t \in LogTasks, Push(t) PROVE OverflowIsOwed'
  BY <1>2, PushOwes
<1>3. ASSUME NEW a \in Actors, TakeBatch(a) PROVE OverflowIsOwed'
  <2>1. buffer' = <<>>
    BY <1>3 DEF TakeBatch
  <2>2. (buffer = <<>> => OverflowIsOwed)'
    BY NothingOwed, PTL
  <2> QED
    BY <2>1, <2>2
<1>4. ASSUME NEW a \in Actors, PostBatch(a) \/ TimeOut(a) PROVE OverflowIsOwed'
  <2>1. buffer' = buffer /\ Owing \subseteq Owing'
    BY <1>0, <1>4 DEF PostBatch, TimeOut, Owing, BatchingInv, BatchingTypes, Actors
  <2> QED
    BY <2>1, OwedStays
<1>5. ASSUME FlusherTick \/ Shutdown PROVE OverflowIsOwed'
  <2>1. buffer' = buffer /\ \A u \in LogTasks : task'[u] = task[u]
    BY <1>5, BatchingAssumption
    DEF FlusherTick, Shutdown, BatchingInv, BatchingTypes, Actors, Flusher, Closer
  <2>2. Owing \subseteq Owing'
    BY <1>0, <2>1 DEF Owing
  <2> QED
    BY <2>1, <2>2, OwedStays
<1>6. ASSUME UNCHANGED batchingVars PROVE OverflowIsOwed'
  BY <1>6 DEF batchingVars, OverflowIsOwed
<1> QED
  BY <1>1, <1>2, <1>3, <1>4, <1>5, <1>6 DEF BatchingNext

-----------------------------------------------------------------------------
(* What is buffered or settled is an event some task logged. *)
THEOREM BatchingTypeCorrect == BatchingSpec => []BatchingTypeOK
<1>1. BatchingInv => BatchingTypeOK
  BY OnlyItsOwn DEF BatchingInv, BatchingTypes, BatchingTypeOK, States
<1> QED
  BY BatchingInvariant, <1>1, PTL

(* flush takes the buffer under its lock: of any number of calls that race for
   it, and are cut off or aborted while they post, none takes an event that
   another has. *)
THEOREM EventsTakenOnce == BatchingSpec => []TakenOnce
<1>1. BatchingInv => TakenOnce
  BY DEF BatchingInv
<1> QED
  BY BatchingInvariant, <1>1, PTL

(* push releases the lock before it flushes: the buffer exceeds batch_size by
   no more than the pushes that found it full. *)
THEOREM BufferIsBounded == BatchingSpec => []OverflowIsOwed
<1>1. BatchingInit => OverflowIsOwed
  BY NothingOwed DEF BatchingInit
<1> QED
  BY BatchingInvariant, <1>1, OwedNext, PTL DEF BatchingSpec
=============================================================================
