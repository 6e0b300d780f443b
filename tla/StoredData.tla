----------------------------- MODULE StoredData -----------------------------
(***************************************************************************)
(* Stored requests and imps: concurrent fetches through a cache in front   *)
(* of a slow origin whose documents come and go.                           *)
(*                                                                         *)
(*   cached     CachedFetcher over HttpFetcher (stored_requests crate)     *)
(*   composed   ComposedFetcher: CachingFetcher, files, HTTP               *)
(*              (endpoints/src/stored_requests.rs)                         *)
(*                                                                         *)
(* A document is known by the time at which the origin produced it; a file *)
(* is as old as the process.  Requests and imps go through two caches in   *)
(* the same way, so that one set of ids stands for both.                   *)
(***************************************************************************)
EXTENDS Naturals

CONSTANTS
    Ids,
    Files,         \* the ids loaded from disk when the process started
    Batches,       \* the lists of ids the calls ask for
    Askers,        \* tasks that call fetch_requests, one call after the other
    StoreTtl,      \* time_to_live / ttl_secs
    FetchTimeout,  \* the HTTP client's timeout: five seconds, or HttpFetcher's embedder's
    LastTick       \* bound on the clock

ASSUME StoredDataAssumption ==
    /\ Files \subseteq Ids /\ Batches \subseteq SUBSET Ids
    /\ StoreTtl \in Nat /\ FetchTimeout \in Nat \ {0} /\ LastTick \in Nat

VARIABLES
    layer,     \* which of the arrangements
    clock,
    stored,    \* the ids in the cache
    savedAt,   \* when an id was put into the cache
    madeAt,    \* when the origin produced what the cache holds for an id
    asker      \* the call each task is making, or made last

storeVars == <<layer, clock, stored, savedAt, madeAt, asker>>

Layers == {"cached", "composed"}

\* A call: what it asked for and when, the hits and when the origin produced
\* them, what the origin sent and when it read it, and what is left to be saved.
\* Errors say which id is missing; they change nothing else and are left out.
Asker ==
    [phase: {"idle", "asking", "reading", "saving", "done"}, ids: SUBSET Ids, since: Nat, hits: SUBSET Ids,
     made: [Ids -> Nat], got: SUBSET Ids, readAt: Nat, todo: SUBSET Ids]
NoCall ==
    [phase |-> "idle", ids |-> {}, since |-> 0, hits |-> {}, made |-> [id \in Ids |-> 0],
     got |-> {}, readAt |-> 0, todo |-> {}]

StoreInit ==
    /\ layer \in Layers
    /\ clock = 0
    /\ stored = {}
    /\ savedAt = [id \in Ids |-> 0] /\ madeAt = [id \in Ids |-> 0]
    /\ asker = [c \in Askers |-> NoCall]

\* moka's time_to_live, and fetch_cached.
FreshForever(id) == id \in stored
Fresh(id) == id \in stored /\ clock < savedAt[id] + StoreTtl

\* A call that begins now, with these documents at hand, of these ages.
Begin(I, hits, made) ==
    [phase |-> IF hits = I THEN "done" ELSE "asking", ids |-> I, since |-> clock, hits |-> hits,
     made |-> [id \in Ids |-> IF id \in hits THEN made[id] ELSE 0], got |-> {}, readAt |-> 0, todo |-> {}]
Calling(c) == asker[c].phase \notin {"idle", "done"}

\* drain_cache: a call whose ids are all cached ends here.
Ask(c, I) ==
    /\ layer = "cached" /\ ~Calling(c) /\ I # {}
    /\ asker' = [asker EXCEPT ![c] = Begin(I, {id \in I : Fresh(id)}, madeAt)]
    /\ UNCHANGED <<layer, clock, stored, savedAt, madeAt>>

\* ComposedFetcher::fetch_request asks for one id: the cache, then the files,
\* whose documents it caches, and only then the origin.  fetch_imp does the
\* same without the cache.
AskComposed(c, id) ==
    /\ layer = "composed" /\ ~Calling(c)
    /\ LET filed == ~Fresh(id) /\ id \in Files
       IN  /\ stored' = IF filed THEN stored \cup {id} ELSE stored
           /\ savedAt' = [savedAt EXCEPT ![id] = IF filed THEN clock ELSE @]
           /\ madeAt' = [madeAt EXCEPT ![id] = IF filed THEN 0 ELSE @]
           /\ asker' = [asker EXCEPT ![c] = Begin({id}, IF Fresh(id) \/ filed THEN {id} ELSE {}, madeAt')]
    /\ UNCHANGED <<layer, clock>>

\* The origin is asked for the ids that are missing.  Whatever documents come
\* back are taken, for ids nobody asked for too; only ComposedFetcher looks its
\* own id up in the answer.
OriginReads(c) ==
    /\ asker[c].phase = "asking"
    /\ \E has \in SUBSET Ids :
          /\ layer = "composed" => has \subseteq asker[c].ids
          /\ asker' = [asker EXCEPT ![c].phase = "reading", ![c].got = has, ![c].readAt = clock]
    /\ UNCHANGED <<layer, clock, stored, savedAt, madeAt>>

\* An error, a bad status, an unreadable body, or the client's timeout: the
\* cached hits are returned beside the error.
OriginFails(c) ==
    /\ asker[c].phase \in {"asking", "reading"}
    /\ asker' = [asker EXCEPT ![c].phase = "done", ![c].got = {}]
    /\ UNCHANGED <<layer, clock, stored, savedAt, madeAt>>

\* The call goes on to save some documents, or ends.
Saving(c, todo) == [asker EXCEPT ![c].phase = IF todo = {} THEN "done" ELSE "saving", ![c].todo = todo]

\* The answer is complete.  CachedFetcher saves it entry by entry, and
\* ComposedFetcher not at all.
Receive(c) ==
    /\ asker[c].phase = "reading"
    /\ asker' = Saving(c, IF layer = "cached" THEN asker[c].got ELSE {})
    /\ UNCHANGED <<layer, clock, stored, savedAt, madeAt>>

SaveOne(c) ==
    /\ asker[c].phase = "saving"
    /\ \E id \in asker[c].todo :
          /\ stored' = stored \cup {id}
          /\ savedAt' = [savedAt EXCEPT ![id] = clock]
          /\ madeAt' = [madeAt EXCEPT ![id] = asker[c].readAt]
          /\ asker' = Saving(c, asker[c].todo \ {id})
    /\ UNCHANGED <<layer, clock>>

\* moka evicts at its capacity; invalidate and clear remove entries.
Forgotten(id) ==
    /\ id \in stored
    /\ stored' = stored \ {id}
    /\ savedAt' = [savedAt EXCEPT ![id] = 0] /\ madeAt' = [madeAt EXCEPT ![id] = 0]
    /\ UNCHANGED <<layer, clock, asker>>

\* The HTTP client's timeout bounds a fetch, and saving takes no time.  A call
\* that has returned is looked at until the clock moves on.
ClockTicks ==
    /\ clock < LastTick
    /\ \A c \in Askers :
          /\ asker[c].phase # "saving"
          /\ asker[c].phase \in {"asking", "reading"} => clock < asker[c].since + FetchTimeout
    /\ clock' = clock + 1
    /\ asker' = [c \in Askers |-> IF asker[c].phase = "done" THEN NoCall ELSE asker[c]]
    /\ UNCHANGED <<layer, stored, savedAt, madeAt>>

StoreNext ==
    \/ \E c \in Askers :
          \/ \E I \in Batches : Ask(c, I)
          \/ \E id \in Ids : AskComposed(c, id)
          \/ OriginReads(c) \/ OriginFails(c) \/ Receive(c) \/ SaveOne(c)
    \/ \E id \in Ids : Forgotten(id)
    \/ ClockTicks

StoreSpec == StoreInit /\ [][StoreNext]_storeVars

StoreTypeOK ==
    /\ layer \in Layers /\ clock \in Nat
    /\ stored \subseteq Ids
    /\ savedAt \in [Ids -> Nat] /\ madeAt \in [Ids -> Nat]
    /\ asker \in [Askers -> Asker]

-----------------------------------------------------------------------------
\* When the origin produced what a call returns for an id.
AgeOf(a, id) == IF id \in a.got THEN a.readAt ELSE a.made[id]

(* What a call returns was produced by the origin less than the TTL and    *)
(* one timeout before the call, whatever fetches, late saves, evictions    *)
(* and unasked-for documents overlap: a slow answer may overwrite a newer  *)
(* entry, and its TTL starts when it is saved, so that the calls after it  *)
(* are handed the older document for that long.  ComposedFetcher caches no *)
(* answer of the origin: except for files, it returns what it has just read.*)
StoredDataIsRecent ==
    \A c \in Askers : asker[c].phase = "done" =>
      \A id \in asker[c].hits \cup asker[c].got :
        /\ layer = "cached" => asker[c].since < AgeOf(asker[c], id) + StoreTtl + FetchTimeout
        /\ layer = "composed" => id \in Files \/ asker[c].since <= AgeOf(asker[c], id)
=============================================================================
