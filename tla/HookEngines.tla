----------------------------- MODULE HookEngines -----------------------------
(***************************************************************************)
(* The three hook engines of the Rust workspace, side by side:             *)
(*   "library"   hooks/src/executor.rs: a plan of groups, results folded   *)
(*               after join_all; no module contexts, no outcome list;      *)
(*   "exchange"  exchange/src/hooks.rs: one group a stage; one executor,   *)
(*               with its module contexts and its outcomes, is shared by   *)
(*               all auctions of an Exchange;                              *)
(*   "metered"   exchange/src/hooks_exec.rs: the same with metrics.        *)
(* Every hook of a group runs on its own task under the group's timeout.   *)
(* An engine runs one stage a call.  hold_auction (exchange/src/lib.rs)    *)
(* makes the calls on the exchange's engine; the other two have no caller  *)
(* in the workspace besides their tests.                                   *)
(* A hook is external: Results[m] is what a hook of module m may return.   *)
(***************************************************************************)
EXTENDS Integers, Sequences, FiniteSets

CONSTANTS Requests,     \* requests that run their stages concurrently
          Plans,        \* the plans: [engine, stages]; a stage is one call,
                        \* [name, groups, resume]; a group a seq of modules;
                        \* resume: the call made after a rejection, 0 if none
          Results       \* module -> set of results

VARIABLES plan,       \* the plan in use
          at,         \* request -> [stage, group, phase]
          tasks,      \* request -> the tasks of its current group
          next,       \* request -> the next result to fold
          payload,    \* request -> the mutations applied by this call
          store,      \* module -> the requests whose context it holds
          seen,       \* request -> the requests whose context its hooks saw
          outcomes,   \* the stage outcomes pushed: [req, stage, rejected]
          summary     \* request -> the call's counters, in the library

vars == <<plan, at, tasks, next, payload, store, seen, outcomes, summary>>

Modules == DOMAIN Results

\* Plans name their stages in order; what a hook returns is over.
ASSUME HookAssumption ==
    /\ \A p \in Plans :
          /\ p.stages \in Seq([name : STRING, groups : Seq(Seq(Modules)), resume : Nat])
          /\ p.stages # <<>>
          /\ \A s \in DOMAIN p.stages : p.stages[s].resume \in 0..Len(p.stages)
    /\ \A m \in Modules : \A res \in Results[m] :
          res.kind # "running" /\ (res.kind = "ok" => res.muts \in Seq(STRING))

\* The calls of hold_auction for one bidder; hooks: stage name -> groups.  A
\* rejection refuses the request at the first three; at bidder_request it
\* skips the bidder, whose response is then not seen either; at
\* raw_bidder_response it is logged and the auction goes on.
HoldAuctionCalls(hooks) ==
    LET names == <<"entrypoint_raw", "raw_auction_request", "processed_auction_request",
                   "bidder_request", "raw_bidder_response",
                   "all_processed_bid_responses", "auction_response">>
    IN  [s \in DOMAIN names |->
            [name |-> names[s], groups |-> hooks[names[s]],
             resume |-> IF names[s] \in {"bidder_request", "raw_bidder_response"} THEN 6 ELSE 0]]

is_rejectable(name) == name \notin {"all_processed_bid_responses", "auction_response"}

Shared == plan.engine \in {"exchange", "metered"}
StageOf(q) == plan.stages[at[q].stage]
HasPlan(q) == StageOf(q).groups # <<>>
GroupOf(q) == StageOf(q).groups[at[q].group]

NoCounts == [ok |-> 0, err |-> 0, late |-> 0]

Init ==
    /\ plan \in Plans
    /\ at = [q \in Requests |-> [stage |-> 1, group |-> 1, phase |-> "spawn"]]
    /\ tasks = [q \in Requests |-> <<>>]
    /\ next = [q \in Requests |-> 1]
    /\ payload = [q \in Requests |-> <<>>]
    /\ store = [m \in Modules |-> {}]
    /\ seen = [q \in Requests |-> {}]
    /\ outcomes = {}
    /\ summary = [q \in Requests |-> NoCounts]

-----------------------------------------------------------------------------
Running == [kind |-> "running"]

\* Whether a task is over; a task that panicked has no result.
Over(t) == t.kind # "running"

\* The loop over the group's hooks: each one is handed its module's context,
\* read at this moment, and a copy of the payload the group started with.
Spawn(q) ==
    /\ at[q].phase = "spawn" /\ HasPlan(q)
    /\ Len(tasks[q]) < Len(GroupOf(q))
    /\ tasks' = [tasks EXCEPT ![q] = Append(@, Running)]
    /\ seen' = IF Shared
               THEN [seen EXCEPT ![q] = @ \cup store[GroupOf(q)[Len(tasks[q]) + 1]]]
               ELSE seen
    /\ UNCHANGED <<plan, at, next, payload, store, outcomes, summary>>

SpawnDone(q) ==
    /\ at[q].phase = "spawn" /\ HasPlan(q)
    /\ Len(tasks[q]) = Len(GroupOf(q))
    /\ at' = [at EXCEPT ![q].phase = "fold"]
    /\ UNCHANGED <<plan, tasks, next, payload, store, seen, outcomes, summary>>

\* A hook returns, fails, panics or is cut off by the group's timeout.  Only
\* the library's HookError can say "rejected".
Finish(q, i) ==
    /\ i \in DOMAIN tasks[q]
    /\ tasks[q][i] = Running
    /\ \E res \in Results[GroupOf(q)[i]] :
          /\ Shared => res.kind # "rejected"
          /\ tasks' = [tasks EXCEPT ![q][i] = res]
    /\ UNCHANGED <<plan, at, next, payload, store, seen, outcomes, summary>>

-----------------------------------------------------------------------------
\* A failed mutation leaves the payload as it was; the next one still runs.
Good(muts) ==
    LET I == {i \in DOMAIN muts : muts[i] # "bad"}
    IN  [k \in 1..Cardinality(I) |->
            muts[CHOOSE i \in I : Cardinality({j \in I : j <= i}) = k]]

Rejects(q, res) ==
    /\ is_rejectable(StageOf(q).name)
    /\ res.kind = "rejected" \/ (res.kind = "ok" /\ res.reject)

\* What the result adds to the payload.  At a stage that cannot be rejected
\* the library ignores the flag and applies the changes; the other engines
\* turn the result into an execution failure and apply none.
Applied(q, res) ==
    IF res.kind # "ok" \/ Rejects(q, res) \/ (Shared /\ res.reject)
    THEN <<>> ELSE Good(res.muts)

\* A bug: a hook whose task panicked is only logged.
PanicsUncounted(q, res) ==
    CASE res.kind = "timeout" -> "late"
      [] res.kind = "panic" \/ (res.kind = "ok" /\ Rejects(q, res)) -> "none"
      [] res.kind = "ok" /\ Good(res.muts) = res.muts -> "ok"
      [] OTHER -> "err"

\* Errors a hook reports beside its result are counted on top.
Verdict(q, res) ==
    CASE res.kind = "timeout" -> "late"
      [] res.kind = "ok" /\ Rejects(q, res) -> "none"
      [] res.kind = "ok" /\ Good(res.muts) = res.muts -> "ok"
      [] OTHER -> "err"

Reported(res) == IF res.kind = "ok" /\ res.errs THEN 1 ELSE 0

Count(q, res) ==
    [c \in DOMAIN NoCounts |->
        summary[q][c] + (IF c = Verdict(q, res) THEN 1 ELSE 0)
                      + (IF c = "err" THEN Reported(res) ELSE 0)]

\* The library folds after join_all; the others await the handles in turn.
Foldable(q) ==
    /\ at[q].phase = "fold"
    /\ next[q] <= Len(tasks[q])
    /\ Over(tasks[q][next[q]])
    /\ Shared \/ \A i \in DOMAIN tasks[q] : Over(tasks[q][i])

\* The metered engine returns the rejection without pushing the outcome.
PushRejected(q) ==
    IF plan.engine = "exchange"
    THEN outcomes \cup {[req |-> q, stage |-> StageOf(q).name, rejected |-> TRUE]}
    ELSE outcomes

Before(done, muts) == muts \o done     \* a bug: the newest mutations first

Mutate(done, muts) == done \o muts

Fold(q) ==
    /\ Foldable(q)
    /\ LET res == tasks[q][next[q]]
       IN  /\ payload' = [payload EXCEPT ![q] = Mutate(@, Applied(q, res))]
           /\ store' = IF Shared /\ res.kind = "ok" /\ res.ctx
                       THEN [store EXCEPT ![GroupOf(q)[next[q]]] = @ \cup {q}]
                       ELSE store
           /\ summary' = IF Shared THEN summary ELSE [summary EXCEPT ![q] = Count(q, res)]
           /\ IF Rejects(q, res)
              THEN /\ at' = [at EXCEPT ![q].phase = "rejected"]
                   /\ outcomes' = PushRejected(q)
                   /\ UNCHANGED next
              ELSE /\ next' = [next EXCEPT ![q] = @ + 1]
                   /\ UNCHANGED <<at, outcomes>>
    /\ UNCHANGED <<plan, tasks, seen>>

\* The group is folded: the next group, or the outcome of the stage and the
\* caller's next call, with a payload of its own.
Pushed(q) ==
    IF Shared
    THEN outcomes \cup {[req |-> q, stage |-> StageOf(q).name, rejected |-> FALSE]}
    ELSE outcomes

\* A bug: a stage without hooks is not left.
StayIfEmpty(q) ==
    IF HasPlan(q) /\ at[q].stage < Len(plan.stages)
    THEN [stage |-> at[q].stage + 1, group |-> 1, phase |-> "spawn"]
    ELSE IF HasPlan(q) THEN [at[q] EXCEPT !.phase = "done"] ELSE at[q]

AfterStage(q) ==
    IF at[q].stage < Len(plan.stages)
    THEN [stage |-> at[q].stage + 1, group |-> 1, phase |-> "spawn"]
    ELSE [at[q] EXCEPT !.phase = "done"]

\* A bug: a group that was rejected is left like any other.
FoldedOrRejected(q) ==
    at[q].phase = "rejected" \/ (at[q].phase = "fold" /\ next[q] > Len(tasks[q]))

Folded(q) == at[q].phase = "fold" /\ next[q] > Len(tasks[q])

\* The handles of the group go out of scope; a task still running is detached.
ClearTasks(q) == tasks' = [tasks EXCEPT ![q] = <<>>]

NewCall(q) ==
    /\ payload' = [payload EXCEPT ![q] = <<>>]
    /\ summary' = [summary EXCEPT ![q] = NoCounts]

GroupDone(q) ==
    /\ Folded(q)
    /\ ClearTasks(q)
    /\ next' = [next EXCEPT ![q] = 1]
    /\ IF at[q].group < Len(StageOf(q).groups)
       THEN /\ at' = [at EXCEPT ![q] = [stage |-> @.stage, group |-> @.group + 1, phase |-> "spawn"]]
            /\ UNCHANGED <<outcomes, payload, summary>>
       ELSE /\ outcomes' = Pushed(q)
            /\ at' = [at EXCEPT ![q] = AfterStage(q)]
            /\ NewCall(q)
    /\ UNCHANGED <<plan, store, seen>>

\* A stage without hooks passes; only the metered engine records it.
SkipStage(q) ==
    /\ at[q].phase = "spawn" /\ ~ HasPlan(q)
    /\ outcomes' = IF plan.engine = "metered" THEN Pushed(q) ELSE outcomes
    /\ at' = [at EXCEPT ![q] = AfterStage(q)]
    /\ UNCHANGED <<plan, tasks, next, payload, store, seen, summary>>

\* The caller goes on after a rejection, past what the rejection skips.  The
\* other hooks of the group may still be running.
Resume(q) ==
    /\ at[q].phase = "rejected" /\ StageOf(q).resume # 0
    /\ at' = [at EXCEPT ![q] = [stage |-> StageOf(q).resume, group |-> 1, phase |-> "spawn"]]
    /\ ClearTasks(q) /\ NewCall(q)
    /\ next' = [next EXCEPT ![q] = 1]
    /\ UNCHANGED <<plan, store, seen, outcomes>>

Engine(q) ==
    Spawn(q) \/ SpawnDone(q) \/ Fold(q) \/ GroupDone(q) \/ SkipStage(q) \/ Resume(q)

\* The request is over: every call was made, or it was refused.
Refused(q) == at[q].phase = "rejected" /\ StageOf(q).resume = 0
OverAndDone(q) == at[q].phase = "done" \/ Refused(q)

Ended == (\A q \in Requests : OverAndDone(q)) /\ UNCHANGED vars

Next ==
    \/ \E q \in Requests : Engine(q) \/ \E i \in DOMAIN tasks[q] : Finish(q, i)
    \/ Ended

Spec == Init /\ [][Next]_vars

\* The runtime polls every task; tokio's timeout ends a hook that does not.
FairSpec ==
    Spec /\ \A q \in Requests : WF_vars(Engine(q)) /\
                                WF_vars(\E i \in DOMAIN tasks[q] : Finish(q, i))

-----------------------------------------------------------------------------
\* Phases, positions within the plan, and the fold never ahead of the tasks.
TypeOK ==
    /\ \A q \in Requests :
          /\ at[q].phase \in {"spawn", "fold", "done", "rejected"}
          /\ at[q].stage \in DOMAIN plan.stages
          /\ next[q] \in 1..(Len(tasks[q]) + 1)
          /\ HasPlan(q) => /\ at[q].group \in DOMAIN StageOf(q).groups
                          /\ Len(tasks[q]) <= Len(GroupOf(q))
    /\ \A m \in Modules : store[m] \subseteq Requests

\* executor.rs: "mutations remain deterministic regardless of task completion
\* order".  While a group is folded the payload ends with the good mutations
\* of exactly the hooks folded so far, in declaration order: there are places
\* to cut it at, one part after each hook.
EndsWithFolded(q) ==
    \E cut \in [0..(next[q] - 1) -> 0..Len(payload[q])] :
        /\ cut[next[q] - 1] = Len(payload[q])
        /\ \A i \in 1..(next[q] - 1) :
              /\ cut[i] = cut[i - 1] + Len(Applied(q, tasks[q][i]))
              /\ SubSeq(payload[q], cut[i - 1] + 1, cut[i]) = Applied(q, tasks[q][i])

FoldIsInDeclarationOrder ==
    \A q \in Requests : at[q].phase \in {"fold", "rejected"} => EndsWithFolded(q)

\* hooks/src/executor.rs: whatever becomes of a hook, its result, its error, its
\* timeout or its panic, the summary counts it: at any point of a call there is
\* a count for every hook folded so far, over all groups of the stage.  (A hook
\* that rejects ends the call and need not be counted.)
FoldedHooks(q) ==
    UNION {{g} \X (1..(IF g = at[q].group THEN next[q] - 1 ELSE Len(StageOf(q).groups[g])))
              : g \in 1..at[q].group}

EveryHookIsCounted ==
    \A q \in Requests : ~ Shared /\ at[q].phase # "done" /\ HasPlan(q) =>
        summary[q].ok + summary[q].err + summary[q].late >= Cardinality(FoldedHooks(q))

\* A group that was rejected is over: what its other hooks return after that,
\* detached, reaches no payload, no module context and no outcome, although
\* other requests go on using the executor.  A request refused by its caller
\* stays where it is; where hold_auction goes on (a bidder skipped, a response
\* only warned about) it does so with a call of its own, past the rejected one.
RejectionIsFinal ==
    [][\A q \in Requests : at[q].phase = "rejected" =>
          /\ {o \in outcomes' : o.req = q} = {o \in outcomes : o.req = q}
          /\ seen'[q] = seen[q] /\ \A m \in Modules : q \in store'[m] <=> q \in store[m]
          /\ \/ at'[q] = at[q] /\ payload'[q] = payload[q] /\ Len(tasks'[q]) = Len(tasks[q])
             \/ /\ ~ Refused(q) /\ at'[q].phase = "spawn" /\ at'[q].stage = StageOf(q).resume
                /\ payload'[q] = <<>> /\ tasks'[q] = <<>>]_vars

\* Every request comes to an end, whatever its hooks do.
StagesEnd == \A q \in Requests : <>OverAndDone(q)

\* What hooks_exec.rs says of run_stage: "On rejection the outcome IS pushed
\* internally before returning Err."
RejectionIsRecorded ==
    Shared => \A q \in Requests : at[q].phase = "rejected" =>
        [req |-> q, stage |-> StageOf(q).name, rejected |-> TRUE] \in outcomes
=============================================================================
