------------------------------ MODULE HookStage ------------------------------
(***************************************************************************)
(* hookexecution.executeStage: the groups of a plan run one after the      *)
(* other, the hooks of a group in parallel.  For each hook, executeHook    *)
(* starts the module's handler on a goroutine and then selects among its   *)
(* answer, a timeout and the group's `rejected' signal; collectHookResponses*)
(* ranges over the buffered channel resp until it is closed or a response  *)
(* rejects; handleHookResponses applies the responses in arrival order.    *)
(*                                                                         *)
(* The payload is the sequence of the hooks whose mutations were applied,  *)
(* a value as for the byte payloads of the entrypoint and raw-auction      *)
(* stages.  A module context is the set of hooks whose data it holds.      *)
(***************************************************************************)
EXTENDS Naturals, Sequences, FiniteSets

CONSTANTS
  Hook,        \* the hooks of the plan, each in one group
  Mod,         \* the modules they belong to
  ModuleOf,    \* the module of each hook
  Plan,        \* the groups, in order
  Nothing      \* no answer in hookRespCh

ASSUME StageAssumption ==
  /\ IsFiniteSet(Hook)
  /\ ModuleOf \in [Hook -> Mod]
  /\ Plan \in Seq(SUBSET Hook)
  /\ \A i, j \in 1..Len(Plan) : i # j => Plan[i] \cap Plan[j] = {}

\* What a handler may answer: a change set of which some or no mutation
\* applies, no change, an error, or a rejection.
Answers == {"update", "bad update", "none", "error", "reject"}
Groups == 1..Len(Plan)

ASSUME NothingAssumption == Nothing \notin Answers

VARIABLES
  rejectable,     \* Stage.IsRejectable of the stage being executed
  group,          \* the group being executed
  pc,             \* what executeStage is doing
  handler,        \* the handler goroutine of each hook
  hookRespCh,     \* its buffered answer
  waiting,        \* the hooks whose executeHook is in its select
  resp,           \* per group, the channel of responses
  closed,         \* per group, resp is closed
  rejected,       \* per group, the signal `rejected' is closed
  hookResponses,  \* the responses collected from the group
  newPayload,     \* the payload while a group's responses are applied
  payload,        \* the payload after the last complete group
  status,         \* the HookOutcome of each hook
  groupCtx,       \* groupModuleCtx of the group
  stageCtx,       \* the module contexts of the finished groups
  moduleCtx,      \* the saved module contexts
  rejectErr       \* the stage returned a RejectError

goVars     == <<handler, hookRespCh, waiting, resp, closed, rejected>>
resultVars == <<newPayload, status, groupCtx, rejectErr>>
vars == <<rejectable, group, pc, goVars, hookResponses, payload, resultVars, stageCtx, moduleCtx>>

-----------------------------------------------------------------------------
GroupOf(h) == CHOOSE i \in Groups : h \in Plan[i]
NoCtx == [m \in Mod |-> {}]

Init ==
  /\ group = 1 /\ pc = "launch"
  /\ handler = [h \in Hook |-> "idle"]
  /\ hookRespCh = [h \in Hook |-> Nothing]
  /\ waiting = {}
  /\ resp = [i \in Groups |-> <<>>]
  /\ closed = [i \in Groups |-> FALSE]
  /\ rejected = [i \in Groups |-> FALSE]
  /\ hookResponses = <<>>
  /\ newPayload = <<>> /\ payload = <<>>
  /\ status = [h \in Hook |-> "unknown"]
  /\ groupCtx = NoCtx /\ stageCtx = NoCtx /\ moduleCtx = NoCtx
  /\ rejectErr = FALSE
  /\ rejectable \in BOOLEAN

\* executeGroup starts executeHook for every hook, which starts its handler.
Launch ==
  /\ pc = "launch" /\ group <= Len(Plan)
  /\ handler' = [h \in Hook |-> IF h \in Plan[group] THEN "running" ELSE handler[h]]
  /\ waiting' = waiting \cup Plan[group]
  /\ pc' = "collect"
  /\ UNCHANGED <<group, hookRespCh, resp, closed, rejected, hookResponses, payload,
                 resultVars, stageCtx, moduleCtx>>

\* The module's handler answers, in time or late.
Answer(h, a) ==
  /\ handler[h] = "running"
  /\ handler' = [handler EXCEPT ![h] = "ended"]
  /\ hookRespCh' = [hookRespCh EXCEPT ![h] = a]
  /\ UNCHANGED <<group, pc, waiting, resp, closed, rejected, hookResponses, payload,
                 resultVars, stageCtx, moduleCtx>>

\* It panics; the panic is recovered and nobody is told.
HandlerPanics(h) ==
  /\ handler[h] = "running"
  /\ handler' = [handler EXCEPT ![h] = "ended"]
  /\ UNCHANGED <<group, pc, hookRespCh, waiting, resp, closed, rejected, hookResponses, payload,
                 resultVars, stageCtx, moduleCtx>>

\* executeHook sends to resp and ends.
Respond(h, a) ==
  /\ Len(resp[GroupOf(h)]) < Cardinality(Plan[GroupOf(h)])
  /\ resp' = [resp EXCEPT ![GroupOf(h)] = Append(@, [hook |-> h, answer |-> a])]
  /\ waiting' = waiting \ {h}

\* The three cases of the select.
SelectAnswer(h) ==
  /\ h \in waiting /\ hookRespCh[h] # Nothing
  /\ Respond(h, hookRespCh[h])
  /\ hookRespCh' = [hookRespCh EXCEPT ![h] = Nothing]
  /\ UNCHANGED <<group, pc, handler, closed, rejected, hookResponses, payload,
                 resultVars, stageCtx, moduleCtx>>

\* Fault: the timeout waits for the handler.
SelectTimeoutAfterHandler(h) ==
  /\ h \in waiting /\ handler[h] = "ended"
  /\ Respond(h, "timeout")
  /\ UNCHANGED <<group, pc, handler, hookRespCh, closed, rejected, hookResponses, payload,
                 resultVars, stageCtx, moduleCtx>>

SelectTimeout(h) ==
  /\ h \in waiting
  /\ Respond(h, "timeout")
  /\ UNCHANGED <<group, pc, handler, hookRespCh, closed, rejected, hookResponses, payload,
                 resultVars, stageCtx, moduleCtx>>

SelectRejected(h) ==
  /\ h \in waiting /\ rejected[GroupOf(h)]
  /\ waiting' = waiting \ {h}
  /\ UNCHANGED <<group, pc, handler, hookRespCh, resp, closed, rejected, hookResponses, payload,
                 resultVars, stageCtx, moduleCtx>>

\* wg.Wait(); close(resp).
CloseResp(i) ==
  /\ i < group \/ (i = group /\ pc # "launch")
  /\ Plan[i] \cap waiting = {} /\ ~closed[i]
  /\ closed' = [closed EXCEPT ![i] = TRUE]
  /\ UNCHANGED <<group, pc, handler, hookRespCh, waiting, resp, rejected, hookResponses, payload,
                 resultVars, stageCtx, moduleCtx>>

-----------------------------------------------------------------------------
\* for r := range resp; a rejection ends the loop, at every stage.
Collect ==
  /\ pc = "collect" /\ resp[group] # <<>>
  /\ LET r == Head(resp[group]) IN
     /\ hookResponses' = Append(hookResponses, r)
     /\ rejected' = [rejected EXCEPT ![group] = r.answer = "reject"]
     /\ pc' = IF r.answer = "reject" THEN "handle" ELSE "collect"
  /\ resp' = [resp EXCEPT ![group] = Tail(@)]
  /\ UNCHANGED <<group, handler, hookRespCh, waiting, closed, payload, resultVars, stageCtx, moduleCtx>>

CollectEnd ==
  /\ pc = "collect" /\ resp[group] = <<>> /\ closed[group]
  /\ pc' = "handle"
  /\ UNCHANGED <<group, goVars, hookResponses, payload, resultVars, stageCtx, moduleCtx>>

\* The HookOutcome's status and action.
StatusOf(a) ==
  CASE a = "update"  -> "updated"
    [] a = "none"    -> "success"
    [] a = "timeout" -> "timeout"
    [] a = "error"   -> "failure"
    [] a = "reject"  -> IF rejectable THEN "rejected" ELSE "execution failure"
    [] OTHER         -> "execution failure"

\* Fault: failed mutations are applied.
ApplyBadToo(r) == IF r.answer \in {"update", "bad update"} THEN Append(newPayload, r.hook) ELSE newPayload

\* handleHookMutations.
Apply(r) == IF r.answer = "update" THEN Append(newPayload, r.hook) ELSE newPayload

\* Fault: a rejection ends a stage that does not support it.
RejectsAnyStage(r) == r.answer = "reject"

\* handleHookReject returns a RejectError.
Rejects(r) == r.answer = "reject" /\ rejectable

\* handleHookResponse, for the next of the collected responses.
HandleResponse ==
  /\ pc = "handle" /\ hookResponses # <<>> /\ ~rejectErr
  /\ LET r == Head(hookResponses)
         m == ModuleOf[r.hook]
     IN  /\ groupCtx' = [groupCtx EXCEPT ![m] = IF r.answer = "timeout" THEN {} ELSE {r.hook}]
         /\ newPayload' = Apply(r)
         /\ status' = [status EXCEPT ![r.hook] = StatusOf(r.answer)]
         /\ rejectErr' = Rejects(r)
  /\ hookResponses' = Tail(hookResponses)
  /\ UNCHANGED <<group, pc, goVars, payload, stageCtx, moduleCtx>>

StageCtxAfterGroup == [m \in Mod |-> stageCtx[m] \cup groupCtx[m]]

\* The group is handled: executeStage goes on with the new payload.
NextGroup ==
  /\ pc = "handle" /\ hookResponses = <<>> /\ ~rejectErr
  /\ payload' = newPayload
  /\ stageCtx' = StageCtxAfterGroup /\ groupCtx' = NoCtx
  /\ group' = group + 1 /\ pc' = "launch"
  /\ UNCHANGED <<goVars, hookResponses, newPayload, status, rejectErr, moduleCtx>>

\* executeStage returns with the RejectError and the payload from before the
\* group, and the caller saves the module contexts.
ReturnReject ==
  /\ pc = "handle" /\ rejectErr
  /\ stageCtx' = StageCtxAfterGroup /\ moduleCtx' = StageCtxAfterGroup
  /\ pc' = "done"
  /\ UNCHANGED <<group, goVars, hookResponses, payload, resultVars>>

\* All groups are executed.
Return ==
  /\ pc = "launch" /\ group > Len(Plan)
  /\ moduleCtx' = stageCtx
  /\ pc' = "done"
  /\ UNCHANGED <<group, goVars, hookResponses, payload, resultVars, stageCtx>>

\* The stage has returned and its goroutines are gone, but for handlers that
\* never answer.
Finished ==
  /\ pc = "done" /\ waiting = {}
  /\ UNCHANGED vars

StageStep == Launch \/ Collect \/ CollectEnd \/ HandleResponse \/ NextGroup \/ ReturnReject \/ Return
SelectStep(h) == SelectAnswer(h) \/ SelectTimeout(h) \/ SelectRejected(h)

ExecutorStep ==
  \/ StageStep
  \/ \E h \in Hook : SelectStep(h) \/ HandlerPanics(h) \/ \E a \in Answers : Answer(h, a)
  \/ \E i \in Groups : CloseResp(i)
  \/ Finished

Next == ExecutorStep /\ UNCHANGED rejectable

Spec == Init /\ [][Next]_vars

\* The executor's goroutines run and timers fire; a handler may never answer.
FairSpec ==
  /\ Spec
  /\ WF_vars(StageStep /\ UNCHANGED rejectable)
  /\ \A h \in Hook : WF_vars(SelectStep(h) /\ UNCHANGED rejectable)
  /\ \A i \in Groups : WF_vars(CloseResp(i) /\ UNCHANGED rejectable)

-----------------------------------------------------------------------------
Responses == [hook : Hook, answer : Answers \cup {"timeout"}]
Statuses == {"unknown", "updated", "success", "timeout", "failure", "rejected", "execution failure"}

\* Every variable of the stage has its type; a response in resp is an answer or
\* a timeout.
TypeOK ==
  /\ group \in 1..(Len(Plan) + 1)
  /\ pc \in {"launch", "collect", "handle", "done"}
  /\ handler \in [Hook -> {"idle", "running", "ended"}]
  /\ hookRespCh \in [Hook -> Answers \cup {Nothing}]
  /\ waiting \subseteq Hook
  /\ resp \in [Groups -> Seq(Responses)]
  /\ closed \in [Groups -> BOOLEAN] /\ rejected \in [Groups -> BOOLEAN]
  /\ hookResponses \in Seq(Responses)
  /\ newPayload \in Seq(Hook) /\ payload \in Seq(Hook)
  /\ status \in [Hook -> Statuses]
  /\ groupCtx \in [Mod -> SUBSET Hook]
  /\ stageCtx \in [Mod -> SUBSET Hook] /\ moduleCtx \in [Mod -> SUBSET Hook]
  /\ rejectErr \in BOOLEAN /\ rejectable \in BOOLEAN

Applied(p) == {p[i] : i \in 1..Len(p)}

\* resp has room for every executeHook still in its select and is not closed
\* under it: none blocks or panics on its send, even when the collecting loop
\* has stopped at a rejection.
SendNeverBlocks ==
  \A i \in Groups :
    /\ Len(resp[i]) + Cardinality(Plan[i] \cap waiting) <= Cardinality(Plan[i])
    /\ closed[i] => Plan[i] \cap waiting = {}

\* The payload the stage returns has the mutations of exactly the hooks whose
\* outcome says so, each once: an answer that arrives after the hook's timeout
\* or after a rejection changes nothing.
PayloadMatchesOutcomes ==
  /\ Len(newPayload) = Cardinality(Applied(newPayload))
  /\ Applied(newPayload) = {h \in Hook : status[h] = "updated"}
  /\ (pc = "done" /\ ~rejectErr) => payload = newPayload

\* A rejection leaves the payload of the groups before it, and starts no hook
\* of a later group.
RejectionStopsStage ==
  rejectErr =>
    /\ \A h \in Applied(payload) : GroupOf(h) < group
    /\ \A i \in Groups : i > group => \A h \in Plan[i] : handler[h] = "idle"

\* A stage that supports rejection and is not rejected accounts for every hook of its
\* plan.  (Where rejection is not supported, collectHookResponses stops at a rejection
\* all the same, and the other hooks of the group are lost.)
EveryHookReported ==
  (rejectable /\ pc = "done" /\ ~rejectErr) => \A i \in Groups : \A h \in Plan[i] : status[h] # "unknown"

\* "moduleContexts preserves data the module wants to pass to itself from
\* earlier stages to later stages": what each hook that answered gave is saved.
ModuleContextKept ==
  (pc = "done" /\ ~rejectErr) =>
    \A h \in Hook : status[h] \notin {"unknown", "timeout"} => h \in moduleCtx[ModuleOf[h]]

\* Mutations keep the order of the groups, whatever order answers arrive in.
GroupsInOrder ==
  \A i, j \in 1..Len(newPayload) : i < j => GroupOf(newPayload[i]) <= GroupOf(newPayload[j])

\* The caller of executeStage sees neither its goroutines nor a group half done.
Promise == INSTANCE HookStagePromise WITH returned <- pc = "done", rejectErr <- pc = "done" /\ rejectErr

\* executeStage implements the promise of a stage: groups take effect whole and
\* in order, and a rejection returns the payload from before its group.
KeepsPromise == Promise!PromiseSpec

\* executeStage returns, although handlers may hang or panic.
StageCompletes == <>(pc = "done")

\* No executeHook goroutine stays in its select.
NoWaiterLeak == <>[](waiting = {})

=============================================================================
