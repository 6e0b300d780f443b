--------------------------- MODULE HookStageProofs --------------------------
(***************************************************************************)
(* Proofs about HookStage, for every plan, every set of hooks and modules, *)
(* and every order of answers, timeouts, panics and rejections: the        *)
(* payload has exactly the mutations the outcomes report, and executeStage *)
(* implements the promise of a stage.                                      *)
(*                                                                         *)
(* Both rest on one fact about goroutines and channels: at any time a hook *)
(* is in one place, namely not started, in its select, in the channel of   *)
(* its group, among the collected responses, handled, or given up.         *)
(***************************************************************************)
EXTENDS HookStage, FiniteSetTheorems, TLAPS

Launched(i) == i < group \/ (i = group /\ pc # "launch")

Distinct(q) == \A i, j \in 1..Len(q) : q[i].hook = q[j].hook => i = j

\* A response in q answers a hook of group i that has left its select and is
\* not handled.
Answering(q, i) ==
  \A k \in 1..Len(q) : q[k].hook \in Plan[i] /\ q[k].hook \notin waiting /\ status[q[k].hook] = "unknown"

\* Where the hooks are.
Places ==
  /\ \A h \in waiting : status[h] = "unknown" /\ \E i \in Groups : h \in Plan[i] /\ Launched(i)
  /\ \A i \in Groups : ~Launched(i) =>
       resp[i] = <<>> /\ \A h \in Plan[i] : status[h] = "unknown"
  /\ \A i \in Groups : Answering(resp[i], i) /\ Distinct(resp[i])
  /\ hookResponses # <<>> => group \in Groups /\ pc # "launch"
  /\ pc \in {"collect", "handle"} => group \in Groups
  /\ group \in Groups =>
       /\ Answering(hookResponses, group) /\ Distinct(hookResponses)
       /\ \A j \in 1..Len(hookResponses), k \in 1..Len(resp[group]) :
            hookResponses[j].hook # resp[group][k].hook

-----------------------------------------------------------------------------
\* A hook is in one group.
LEMMA OneGroup ==
  ASSUME NEW i \in Groups, NEW h \in Plan[i]
  PROVE  GroupOf(h) = i /\ h \in Hook
<1>1. Plan[i] \subseteq Hook BY StageAssumption DEF Groups
<1>2. \A j \in Groups : h \in Plan[j] => j = i BY StageAssumption DEF Groups
<1>3. GroupOf(h) = i BY <1>2 DEF GroupOf
<1> QED BY <1>1, <1>3

-----------------------------------------------------------------------------
(* Types                                                                   *)

\* Initially every variable has its type.
LEMMA TypeInit == Init => TypeOK
<1> SUFFICES ASSUME Init PROVE TypeOK OBVIOUS
<1>1. Len(Plan) \in Nat BY StageAssumption
<1>2. NoCtx \in [Mod -> SUBSET Hook] BY DEF NoCtx
<1>3. group \in 1..(Len(Plan) + 1) BY <1>1 DEF Init
<1>4. resp \in [Groups -> Seq(Responses)] BY DEF Init
<1>5. closed \in [Groups -> BOOLEAN] /\ rejected \in [Groups -> BOOLEAN] BY DEF Init
<1>6. status \in [Hook -> Statuses] BY DEF Init, Statuses
<1>7. /\ hookResponses \in Seq(Responses) /\ newPayload \in Seq(Hook) /\ payload \in Seq(Hook)
      /\ hookRespCh \in [Hook -> Answers \cup {Nothing}]
      /\ handler \in [Hook -> {"idle", "running", "ended"}] /\ waiting \subseteq Hook
      /\ pc \in {"launch", "collect", "handle", "done"}
  BY DEF Init
<1>9. rejectErr \in BOOLEAN /\ rejectable \in BOOLEAN BY Zenon DEF Init
<1>8. groupCtx \in [Mod -> SUBSET Hook] /\ stageCtx \in [Mod -> SUBSET Hook] /\ moduleCtx \in [Mod -> SUBSET Hook]
  BY <1>2 DEF Init
<1> QED BY <1>3, <1>4, <1>5, <1>6, <1>7, <1>8, <1>9 DEF TypeOK

\* executeHook sends a typed response.
LEMMA RespondTyped ==
  ASSUME TypeOK, Places, NEW h \in waiting, NEW a \in Answers \cup {"timeout"}, Respond(h, a)
  PROVE  resp' \in [Groups -> Seq(Responses)] /\ waiting' \subseteq Hook
<1>1. GroupOf(h) \in Groups BY OneGroup DEF Places
<1>2. [hook |-> h, answer |-> a] \in Responses BY DEF TypeOK, Responses
<1>3. resp[GroupOf(h)] \in Seq(Responses) BY <1>1 DEF TypeOK
<1>4. Append(resp[GroupOf(h)], [hook |-> h, answer |-> a]) \in Seq(Responses) BY <1>2, <1>3
<1> QED BY <1>1, <1>4 DEF Respond, TypeOK

\* Every step keeps the types.
LEMMA TypeNext == TypeOK /\ Places /\ [Next]_vars => TypeOK'
<1> SUFFICES ASSUME TypeOK, Places, [Next]_vars PROVE TypeOK' OBVIOUS
<1>0. Len(Plan) \in Nat /\ \A i \in Groups : Plan[i] \subseteq Hook BY StageAssumption DEF Groups
<1>1. CASE Launch /\ UNCHANGED rejectable
  <2>1. group \in Groups BY <1>0, <1>1 DEF Launch, TypeOK, Groups
  <2>2. handler' \in [Hook -> {"idle", "running", "ended"}] /\ waiting' \subseteq Hook /\ pc' = "collect"
    BY <1>0, <1>1, <2>1 DEF Launch, TypeOK
  <2> QED BY <1>1, <2>2 DEF Launch, TypeOK, resultVars
<1>2. ASSUME NEW h \in Hook, HandlerPanics(h) \/ \E a \in Answers : Answer(h, a), UNCHANGED rejectable PROVE TypeOK'
  <2>1. handler' \in [Hook -> {"idle", "running", "ended"}] /\ hookRespCh' \in [Hook -> Answers \cup {Nothing}]
    <3>1. CASE HandlerPanics(h) BY <3>1 DEF HandlerPanics, TypeOK
    <3>2. CASE \E a \in Answers : Answer(h, a) BY <3>2 DEF Answer, TypeOK
    <3> QED BY <1>2, <3>1, <3>2
  <2>2. UNCHANGED <<group, pc, waiting, resp, closed, rejected, hookResponses, payload, resultVars, stageCtx, moduleCtx>>
    BY <1>2 DEF Answer, HandlerPanics
  <2> QED BY <1>2, <2>1, <2>2 DEF TypeOK, resultVars
<1>3. ASSUME NEW h \in Hook, SelectAnswer(h), UNCHANGED rejectable PROVE TypeOK'
  <2>1. h \in waiting /\ hookRespCh[h] \in Answers /\ Respond(h, hookRespCh[h])
        /\ hookRespCh' \in [Hook -> Answers \cup {Nothing}]
    BY <1>3 DEF SelectAnswer, TypeOK
  <2>2. resp' \in [Groups -> Seq(Responses)] /\ waiting' \subseteq Hook BY <2>1, RespondTyped
  <2> QED BY <1>3, <2>1, <2>2 DEF SelectAnswer, TypeOK, resultVars
<1>4. ASSUME NEW h \in Hook, SelectTimeout(h), UNCHANGED rejectable PROVE TypeOK'
  <2>1. h \in waiting /\ Respond(h, "timeout") BY <1>4 DEF SelectTimeout
  <2>2. resp' \in [Groups -> Seq(Responses)] /\ waiting' \subseteq Hook BY <2>1, RespondTyped
  <2> QED BY <1>4, <2>2 DEF SelectTimeout, TypeOK, resultVars
<1>5. ASSUME NEW h \in Hook, SelectRejected(h), UNCHANGED rejectable PROVE TypeOK'
  BY <1>5 DEF SelectRejected, TypeOK, resultVars
<1>6. ASSUME NEW i \in Groups, CloseResp(i), UNCHANGED rejectable PROVE TypeOK'
  BY <1>6 DEF CloseResp, TypeOK, resultVars
<1>7. CASE Collect /\ UNCHANGED rejectable
  <2>1. group \in Groups BY <1>7 DEF Collect, Places
  <2>2. resp[group] \in Seq(Responses) /\ resp[group] # <<>> BY <1>7, <2>1 DEF Collect, TypeOK
  <2>3. Head(resp[group]) \in Responses /\ Tail(resp[group]) \in Seq(Responses) BY <2>2
  <2>4. hookResponses' \in Seq(Responses) BY <1>7, <2>3 DEF Collect, TypeOK
  <2>5. resp' \in [Groups -> Seq(Responses)] BY <1>7, <2>1, <2>3 DEF Collect, TypeOK
  <2>6. rejected' \in [Groups -> BOOLEAN] /\ pc' \in {"handle", "collect"} BY <1>7, <2>1 DEF Collect, TypeOK
  <2> QED BY <1>7, <2>4, <2>5, <2>6 DEF Collect, TypeOK, resultVars
<1>8. CASE CollectEnd /\ UNCHANGED rejectable
  BY <1>8 DEF CollectEnd, TypeOK, goVars, resultVars
<1>9. CASE HandleResponse /\ UNCHANGED rejectable
  <2> DEFINE r == Head(hookResponses)
  <2>1. r \in Responses /\ Tail(hookResponses) \in Seq(Responses) BY <1>9 DEF HandleResponse, TypeOK
  <2>2. r.hook \in Hook /\ ModuleOf[r.hook] \in Mod BY <2>1, StageAssumption DEF Responses
  <2>3. /\ groupCtx' = [groupCtx EXCEPT ![ModuleOf[r.hook]] = IF r.answer = "timeout" THEN {} ELSE {r.hook}]
        /\ newPayload' = Apply(r)
        /\ status' = [status EXCEPT ![r.hook] = StatusOf(r.answer)]
        /\ rejectErr' = Rejects(r)
        /\ hookResponses' = Tail(hookResponses)
        /\ UNCHANGED <<group, pc, goVars, payload, stageCtx, moduleCtx>>
    BY <1>9 DEF HandleResponse
  <2> HIDE DEF r
  <2>4. groupCtx' \in [Mod -> SUBSET Hook] BY <2>2, <2>3 DEF TypeOK
  <2>5. newPayload' \in Seq(Hook) BY <2>2, <2>3 DEF TypeOK, Apply
  <2>6. StatusOf(r.answer) \in Statuses BY DEF StatusOf, Statuses
  <2>7. status' \in [Hook -> Statuses] BY <2>3, <2>6 DEF TypeOK
  <2>8. rejectErr' \in BOOLEAN BY <2>3 DEF Rejects
  <2> QED BY <1>9, <2>1, <2>3, <2>4, <2>5, <2>7, <2>8 DEF TypeOK, goVars
<1>10. CASE NextGroup /\ UNCHANGED rejectable
  <2>1. group \in Groups BY <1>10 DEF NextGroup, Places
  <2>2. group' \in 1..(Len(Plan) + 1) BY <1>0, <1>10, <2>1 DEF NextGroup, Groups
  <2>3. stageCtx' \in [Mod -> SUBSET Hook] /\ groupCtx' \in [Mod -> SUBSET Hook]
    BY <1>10 DEF NextGroup, StageCtxAfterGroup, NoCtx, TypeOK
  <2> QED BY <1>10, <2>2, <2>3 DEF NextGroup, TypeOK, goVars
<1>11. CASE (ReturnReject \/ Return) /\ UNCHANGED rejectable
  <2>1. stageCtx' \in [Mod -> SUBSET Hook] /\ moduleCtx' \in [Mod -> SUBSET Hook]
    BY <1>11 DEF ReturnReject, Return, StageCtxAfterGroup, TypeOK
  <2> QED BY <1>11, <2>1 DEF ReturnReject, Return, TypeOK, goVars, resultVars
<1>12. CASE UNCHANGED vars
  BY <1>12 DEF vars, goVars, resultVars, TypeOK
<1> QED BY <1>1, <1>2, <1>3, <1>4, <1>5, <1>6, <1>7, <1>8, <1>9, <1>10, <1>11, <1>12
        DEF Next, ExecutorStep, StageStep, SelectStep, Finished

-----------------------------------------------------------------------------
(* Places                                                                  *)

\* Initially no hook is started.
LEMMA PlacesInit == Init => Places
<1> SUFFICES ASSUME Init PROVE Places OBVIOUS
<1>1. \A i \in Groups : Plan[i] \subseteq Hook BY StageAssumption DEF Groups
<1>2. \A i \in Groups : resp[i] = <<>> /\ Answering(resp[i], i) /\ Distinct(resp[i])
  BY DEF Init, Answering, Distinct
<1>3. Answering(hookResponses, group) /\ Distinct(hookResponses) /\ Len(hookResponses) = 0
  BY DEF Init, Answering, Distinct
<1>4. waiting = {} /\ pc = "launch" /\ hookResponses = <<>> /\ \A h \in Hook : status[h] = "unknown" BY DEF Init
<1>5. \A i \in Groups : ~Launched(i) => resp[i] = <<>> /\ \A h \in Plan[i] : status[h] = "unknown" BY <1>1, <1>2, <1>4
<1> QED BY <1>2, <1>3, <1>4, <1>5 DEF Places

\* A step that starts no group and moves no hook.
LEMMA PlacesFrame ==
  ASSUME Places, UNCHANGED <<waiting, status, resp, hookResponses>>,
         \A i \in Groups : Launched(i)' = Launched(i),
         hookResponses # <<>> => group' = group /\ pc' # "launch",
         pc' \in {"collect", "handle"} => group' \in Groups,
         group' = group \/ hookResponses = <<>>
  PROVE  Places'
<1>1. \A i \in Groups : Answering(resp[i], i)' /\ Distinct(resp[i])' BY DEF Places, Answering, Distinct
<1>2. \A h \in waiting' : status'[h] = "unknown" /\ \E i \in Groups : h \in Plan[i] /\ Launched(i)' BY DEF Places
<1>3. \A i \in Groups : ~Launched(i)' => resp'[i] = <<>> /\ \A h \in Plan[i] : status'[h] = "unknown" BY DEF Places
<1>4. ASSUME group' \in Groups
      PROVE  /\ Answering(hookResponses, group)' /\ Distinct(hookResponses)'
             /\ \A j \in 1..Len(hookResponses'), k \in 1..Len(resp'[group']) :
                  hookResponses'[j].hook # resp'[group'][k].hook
  <2>1. CASE group' = group BY <1>4, <2>1 DEF Places, Answering, Distinct
  <2>2. CASE hookResponses = <<>> BY <2>2 DEF Answering, Distinct
  <2> QED BY <2>1, <2>2
<1>5. hookResponses' # <<>> => group' \in Groups /\ pc' # "launch" BY DEF Places
<1> QED BY <1>1, <1>2, <1>3, <1>4, <1>5 DEF Places

\* Launch puts the hooks of the group in their selects.
LEMMA PlacesLaunch == ASSUME TypeOK, Places, Launch PROVE Places'
<1>0. Len(Plan) \in Nat /\ group \in Nat BY StageAssumption DEF TypeOK
<1>1. group \in Groups /\ pc = "launch" /\ hookResponses = <<>> BY <1>0 DEF Launch, Places, TypeOK, Groups
<1>2. /\ waiting' = waiting \cup Plan[group] /\ pc' = "collect"
      /\ UNCHANGED <<group, resp, hookResponses, status>>
  BY DEF Launch, resultVars
<1>3. \A i \in Groups : Launched(i)' <=> (Launched(i) \/ i = group) BY <1>0, <1>1, <1>2 DEF Launched, Groups
<1>4. ~Launched(group) BY <1>0, <1>1 DEF Launched
<1>5. resp[group] = <<>> /\ \A h \in Plan[group] : status[h] = "unknown" BY <1>1, <1>4 DEF Places
<1>6. \A h \in waiting' : status'[h] = "unknown" /\ \E i \in Groups : h \in Plan[i] /\ Launched(i)'
  BY <1>1, <1>2, <1>3, <1>5 DEF Places
<1>7. \A i \in Groups : ~Launched(i)' => resp'[i] = <<>> /\ \A h \in Plan[i] : status'[h] = "unknown"
  BY <1>2, <1>3 DEF Places
<1>8. ASSUME NEW i \in Groups PROVE Answering(resp[i], i)' /\ Distinct(resp[i])'
  <2>1. CASE i = group BY <1>2, <1>5, <2>1 DEF Answering, Distinct
  <2>2. CASE i # group
    <3>1. Plan[i] \cap Plan[group] = {} BY <1>1, <2>2, StageAssumption DEF Groups
    <3> QED BY <1>2, <3>1 DEF Places, Answering, Distinct
  <2> QED BY <2>1, <2>2
<1>9. Answering(hookResponses, group)' /\ Distinct(hookResponses)' /\ Len(hookResponses') = 0
  BY <1>1, <1>2 DEF Answering, Distinct
<1> QED BY <1>1, <1>2, <1>6, <1>7, <1>8, <1>9 DEF Places

\* A hook leaves its select, with a response or without one.
LEMMA PlacesSelect ==
  ASSUME TypeOK, Places, NEW h \in waiting, waiting' = waiting \ {h},
         UNCHANGED <<group, pc, status, hookResponses>>,
         NEW r \in Responses, r.hook = h,
         \/ UNCHANGED resp
         \/ resp' = [resp EXCEPT ![GroupOf(h)] = Append(@, r)]
  PROVE  Places'
<1>1. PICK g \in Groups : h \in Plan[g] /\ Launched(g) BY DEF Places
<1>2. GroupOf(h) = g BY <1>1, OneGroup
<1>3. \A i \in Groups : Launched(i)' = Launched(i) BY DEF Launched
<1>4. \A x \in waiting' : status'[x] = "unknown" /\ \E i \in Groups : x \in Plan[i] /\ Launched(i)'
  BY <1>3 DEF Places
<1>5. ASSUME NEW i \in Groups PROVE \/ resp'[i] = resp[i]
                                    \/ i = g /\ resp'[i] = Append(resp[i], r)
  BY <1>2 DEF TypeOK
<1>6. \A i \in Groups : ~Launched(i)' => resp'[i] = <<>> /\ \A x \in Plan[i] : status'[x] = "unknown"
  BY <1>1, <1>3, <1>5 DEF Places
<1>7. ASSUME NEW i \in Groups PROVE Answering(resp[i], i)' /\ Distinct(resp[i])'
  <2>1. resp[i] \in Seq(Responses) /\ Answering(resp[i], i) /\ Distinct(resp[i]) BY DEF TypeOK, Places
  <2>2. CASE resp'[i] = resp[i] BY <2>1, <2>2 DEF Answering, Distinct
  <2>3. CASE i = g /\ resp'[i] = Append(resp[i], r)
    <3>1. /\ Len(resp'[i]) = Len(resp[i]) + 1 /\ resp'[i][Len(resp[i]) + 1] = r
          /\ \A k \in 1..Len(resp[i]) : resp'[i][k] = resp[i][k] /\ resp[i][k].hook # h
      BY <2>1, <2>3 DEF Answering
    <3>2. status'[h] = "unknown" /\ h \notin waiting' BY DEF Places
    <3>3. Len(resp[i]) \in Nat BY <2>1
    <3>4. \A k \in 1..Len(resp'[i]) : k \in 1..Len(resp[i]) \/ k = Len(resp[i]) + 1 BY <3>1, <3>3
    <3>5. Answering(resp[i], i)' BY <1>1, <2>1, <2>3, <3>1, <3>2, <3>4 DEF Answering
    <3>6. Distinct(resp[i])' BY <2>1, <3>1, <3>4 DEF Distinct
    <3> QED BY <3>5, <3>6
  <2> QED BY <1>5, <2>2, <2>3
<1>8. ASSUME group' \in Groups
      PROVE  /\ Answering(hookResponses, group)' /\ Distinct(hookResponses)'
             /\ \A j \in 1..Len(hookResponses'), k \in 1..Len(resp'[group']) :
                  hookResponses'[j].hook # resp'[group'][k].hook
  <2>1. Answering(hookResponses, group) /\ Distinct(hookResponses) BY <1>8 DEF Places
  <2>2. Answering(hookResponses, group)' /\ Distinct(hookResponses)' BY <2>1 DEF Answering, Distinct
  <2>3. ASSUME NEW j \in 1..Len(hookResponses), NEW k \in 1..Len(resp'[group])
        PROVE  hookResponses[j].hook # resp'[group][k].hook
    <3>1. hookResponses[j].hook # h BY <2>1 DEF Answering
    <3>2. CASE resp'[group] = resp[group] BY <1>8, <3>2 DEF Places
    <3>3. CASE resp'[group] = Append(resp[group], r)
      <4>1. resp[group] \in Seq(Responses) BY <1>8 DEF TypeOK
      <4>2. \/ k \in 1..Len(resp[group]) /\ resp'[group][k] = resp[group][k]
            \/ resp'[group][k] = r
        BY <3>3, <4>1
      <4> QED BY <1>8, <3>1, <4>2 DEF Places
    <3> QED BY <1>5, <1>8, <3>2, <3>3
  <2> QED BY <2>2, <2>3
<1>9. /\ hookResponses' # <<>> => group' \in Groups /\ pc' # "launch"
      /\ pc' \in {"collect", "handle"} => group' \in Groups
  BY DEF Places
<1> QED BY <1>4, <1>6, <1>7, <1>8, <1>9 DEF Places

\* The collecting loop moves the head of the channel to the collected responses.
LEMMA PlacesCollect == ASSUME TypeOK, Places, Collect PROVE Places'
<1> DEFINE r == Head(resp[group])
<1>0. group \in Groups /\ pc = "collect" BY DEF Collect, Places
<1>1. resp[group] \in Seq(Responses) /\ resp[group] # <<>> /\ hookResponses \in Seq(Responses)
  BY <1>0 DEF Collect, TypeOK
<1>2. /\ hookResponses' = Append(hookResponses, r) /\ pc' \in {"handle", "collect"}
      /\ resp' = [resp EXCEPT ![group] = Tail(@)]
      /\ UNCHANGED <<group, waiting, status>>
  BY DEF Collect, resultVars
<1>3. /\ r = resp[group][1] /\ Len(resp[group]) \in Nat \ {0}
      /\ Tail(resp[group]) \in Seq(Responses) /\ Len(Tail(resp[group])) = Len(resp[group]) - 1
      /\ \A k \in 1..Len(Tail(resp[group])) : Tail(resp[group])[k] = resp[group][k + 1] /\ k + 1 \in 1..Len(resp[group])
  BY <1>1
<1>4. 1 \in 1..Len(resp[group]) BY <1>3
<1>5. \A i \in Groups : (i # group => resp'[i] = resp[i]) /\ (i = group => resp'[i] = Tail(resp[group]))
  BY <1>0, <1>2 DEF TypeOK
<1> HIDE DEF r
<1>6. \A i \in Groups : Launched(i)' = Launched(i) BY <1>0, <1>2 DEF Launched
<1>7. Launched(group) BY <1>0 DEF Launched
<1>8. \A x \in waiting' : status'[x] = "unknown" /\ \E i \in Groups : x \in Plan[i] /\ Launched(i)'
  BY <1>2, <1>6 DEF Places
<1>9. \A i \in Groups : ~Launched(i)' => resp'[i] = <<>> /\ \A x \in Plan[i] : status'[x] = "unknown"
  BY <1>2, <1>5, <1>6, <1>7 DEF Places
<1>10. Answering(resp[group], group) /\ Distinct(resp[group]) BY <1>0 DEF Places
<1>11. ASSUME NEW i \in Groups PROVE Answering(resp[i], i)' /\ Distinct(resp[i])'
  <2>1. CASE i # group BY <1>2, <1>5, <2>1 DEF Places, Answering, Distinct
  <2>2. CASE i = group
    <3>1. resp'[i] = Tail(resp[group]) BY <1>5, <2>2
    <3>2. Answering(resp[i], i)' BY <1>2, <1>3, <1>10, <2>2, <3>1 DEF Answering
    <3>3. ASSUME NEW j \in 1..Len(resp'[i]), NEW k \in 1..Len(resp'[i]), resp'[i][j].hook = resp'[i][k].hook
          PROVE  j = k
      <4>1. j + 1 = k + 1 BY <1>3, <1>10, <3>1, <3>3 DEF Distinct
      <4> QED BY <4>1
    <3> QED BY <3>2, <3>3 DEF Distinct
  <2> QED BY <2>1, <2>2
<1>12. Answering(hookResponses, group) /\ Distinct(hookResponses) BY <1>0 DEF Places
<1>13. /\ Len(hookResponses') = Len(hookResponses) + 1 /\ hookResponses'[Len(hookResponses) + 1] = r
       /\ \A k \in 1..Len(hookResponses) : hookResponses'[k] = hookResponses[k] /\ hookResponses[k].hook # r.hook
  <2>1. r \in Responses BY <1>1, <1>3, <1>4
  <2>2. \A k \in 1..Len(hookResponses) : hookResponses[k].hook # r.hook BY <1>0, <1>3, <1>4 DEF Places
  <2> QED BY <1>1, <1>2, <2>1, <2>2
<1>14. \A k \in 1..Len(hookResponses') : k \in 1..Len(hookResponses) \/ k = Len(hookResponses) + 1
  BY <1>1, <1>13
<1>15. r.hook \in Plan[group] /\ r.hook \notin waiting /\ status[r.hook] = "unknown"
  BY <1>3, <1>4, <1>10 DEF Answering
<1>16. Answering(hookResponses, group)' BY <1>2, <1>12, <1>13, <1>14, <1>15 DEF Answering
<1>17. Distinct(hookResponses)' BY <1>12, <1>13, <1>14 DEF Distinct
<1>18. ASSUME NEW j \in 1..Len(hookResponses'), NEW k \in 1..Len(resp'[group])
       PROVE  hookResponses'[j].hook # resp'[group][k].hook
  <2>0. resp'[group] = Tail(resp[group]) BY <1>0, <1>5
  <2>1. resp'[group][k] = resp[group][k + 1] /\ k + 1 \in 1..Len(resp[group]) /\ k + 1 # 1
    BY <1>3, <2>0
  <2>2. CASE j \in 1..Len(hookResponses) BY <1>0, <1>13, <2>1, <2>2 DEF Places
  <2>3. CASE j = Len(hookResponses) + 1 BY <1>3, <1>4, <1>10, <1>13, <2>1, <2>3 DEF Distinct
  <2> QED BY <1>14, <2>2, <2>3
<1>19. /\ hookResponses' # <<>> => group' \in Groups /\ pc' # "launch"
       /\ pc' \in {"collect", "handle"} => group' \in Groups
  BY <1>0, <1>2
<1>20. group' = group BY <1>2
<1> QED BY <1>8, <1>9, <1>11, <1>16, <1>17, <1>18, <1>19, <1>20 DEF Places

\* handleHookResponse settles the hook of the next collected response, which is
\* nowhere else.
LEMMA PlacesHandle == ASSUME TypeOK, Places, HandleResponse PROVE Places'
<1> DEFINE r == Head(hookResponses)
<1>1. hookResponses \in Seq(Responses) /\ hookResponses # <<>> /\ group \in Groups /\ pc = "handle"
  BY DEF HandleResponse, TypeOK, Places
<1>2. /\ status' = [status EXCEPT ![r.hook] = StatusOf(r.answer)]
      /\ hookResponses' = Tail(hookResponses)
      /\ UNCHANGED <<group, pc, waiting, resp>>
  BY DEF HandleResponse, goVars
<1>3. /\ r = hookResponses[1] /\ Len(hookResponses) \in Nat \ {0}
      /\ Len(hookResponses') = Len(hookResponses) - 1
      /\ \A k \in 1..Len(hookResponses') : hookResponses'[k] = hookResponses[k + 1] /\ k + 1 \in 1..Len(hookResponses)
  BY <1>1, <1>2
<1>4. 1 \in 1..Len(hookResponses) BY <1>3
<1> HIDE DEF r
<1>5. Answering(hookResponses, group) /\ Distinct(hookResponses) BY <1>1 DEF Places
<1>6. r.hook \in Plan[group] /\ r.hook \notin waiting BY <1>3, <1>4, <1>5 DEF Answering
<1>7. \A x \in Hook : x # r.hook => status'[x] = status[x] BY <1>2 DEF TypeOK
<1>8. \A i \in Groups : Launched(i)' = Launched(i) BY <1>2 DEF Launched
<1>9. Launched(group) BY <1>1 DEF Launched
<1>10. \A i \in Groups, x \in Hook : x \in Plan[i] /\ i # group => status'[x] = status[x]
  <2>1. \A i \in Groups : i # group => Plan[i] \cap Plan[group] = {} BY <1>1, StageAssumption DEF Groups
  <2> QED BY <1>6, <1>7, <2>1
<1>11. \A i \in Groups : Plan[i] \subseteq Hook BY Zenon, OneGroup
<1>12. \A x \in waiting' : status'[x] = "unknown" /\ \E i \in Groups : x \in Plan[i] /\ Launched(i)'
  BY <1>2, <1>6, <1>7, <1>8 DEF Places, TypeOK
<1>13. \A i \in Groups : ~Launched(i)' => resp'[i] = <<>> /\ \A x \in Plan[i] : status'[x] = "unknown"
  BY Zenon, <1>2, <1>8, <1>9, <1>10, <1>11 DEF Places
<1>14. ASSUME NEW i \in Groups PROVE Answering(resp[i], i)' /\ Distinct(resp[i])'
  <2>1. Answering(resp[i], i) /\ Distinct(resp[i]) BY DEF Places
  <2>2. Distinct(resp[i])' BY <1>2, <2>1 DEF Distinct
  <2>3. ASSUME NEW k \in 1..Len(resp[i]) PROVE status'[resp[i][k].hook] = "unknown"
    <3>1. resp[i][k].hook \in Plan[i] /\ resp[i][k].hook \in Hook /\ status[resp[i][k].hook] = "unknown"
      BY <1>11, <2>1 DEF Answering
    <3>2. CASE i # group BY <1>10, <3>1, <3>2
    <3>3. CASE i = group
      <4>1. resp[i][k].hook # r.hook BY <1>1, <1>3, <1>4, <3>3 DEF Places
      <4> QED BY <1>7, <3>1, <4>1
    <3> QED BY <3>2, <3>3
  <2>4. Answering(resp[i], i)' BY <1>2, <2>1, <2>3 DEF Answering
  <2> QED BY <2>2, <2>4
<1>15. ASSUME NEW k \in 1..Len(hookResponses')
       PROVE  /\ hookResponses'[k].hook \in Plan[group] /\ hookResponses'[k].hook \notin waiting
              /\ status'[hookResponses'[k].hook] = "unknown"
  <2>1. hookResponses'[k] = hookResponses[k + 1] /\ k + 1 \in 1..Len(hookResponses) /\ k + 1 # 1 BY <1>3
  <2>2. /\ hookResponses'[k].hook \in Plan[group] /\ hookResponses'[k].hook \notin waiting
        /\ status[hookResponses'[k].hook] = "unknown"
    BY <1>5, <2>1 DEF Answering
  <2>3. hookResponses'[k].hook # r.hook BY <1>3, <1>4, <1>5, <2>1 DEF Distinct
  <2> QED BY <1>1, <1>7, <1>11, <2>2, <2>3
<1>16. Answering(hookResponses, group)' BY <1>2, <1>15 DEF Answering
<1>17. ASSUME NEW j \in 1..Len(hookResponses'), NEW k \in 1..Len(hookResponses'),
              hookResponses'[j].hook = hookResponses'[k].hook
       PROVE  j = k
  <2>1. j + 1 = k + 1 BY <1>3, <1>5, <1>17 DEF Distinct
  <2> QED BY <2>1
<1>18. \A j \in 1..Len(hookResponses'), k \in 1..Len(resp'[group]) : hookResponses'[j].hook # resp'[group][k].hook
  BY <1>1, <1>2, <1>3 DEF Places
<1> QED BY <1>1, <1>2, <1>12, <1>13, <1>14, <1>16, <1>17, <1>18 DEF Places, Distinct

\* Every step keeps each hook in one place.
LEMMA PlacesNext == TypeOK /\ Places /\ [Next]_vars => Places'
<1> SUFFICES ASSUME TypeOK, Places, [Next]_vars PROVE Places' OBVIOUS
<1>0. Len(Plan) \in Nat /\ group \in Nat BY StageAssumption DEF TypeOK
<1>1. CASE Launch BY <1>1, PlacesLaunch
<1>2. ASSUME NEW h \in Hook, HandlerPanics(h) \/ \E a \in Answers : Answer(h, a) PROVE Places'
  <2>1. UNCHANGED <<group, pc, waiting, status, resp, hookResponses>> BY <1>2 DEF HandlerPanics, Answer, resultVars
  <2>2. \A i \in Groups : Launched(i)' = Launched(i) BY <2>1 DEF Launched
  <2> QED BY <2>1, <2>2, PlacesFrame DEF Places
<1>3. ASSUME NEW h \in Hook, SelectStep(h) PROVE Places'
  <2>1. h \in waiting BY <1>3 DEF SelectStep, SelectAnswer, SelectTimeout, SelectRejected
  <2>2. CASE SelectAnswer(h)
    <3>1. [hook |-> h, answer |-> hookRespCh[h]] \in Responses BY <2>2 DEF SelectAnswer, Responses, TypeOK
    <3> QED BY Zenon, <2>1, <2>2, <3>1, PlacesSelect DEF SelectAnswer, Respond, resultVars
  <2>3. CASE SelectTimeout(h)
    <3>1. [hook |-> h, answer |-> "timeout"] \in Responses BY DEF Responses
    <3> QED BY ZenonT(40), <2>1, <2>3, <3>1, PlacesSelect DEF SelectTimeout, Respond, resultVars
  <2>4. CASE SelectRejected(h)
    <3>1. [hook |-> h, answer |-> "timeout"] \in Responses BY DEF Responses
    <3> QED BY <2>1, <2>4, <3>1, PlacesSelect DEF SelectRejected, resultVars
  <2> QED BY <1>3, <2>2, <2>3, <2>4 DEF SelectStep
<1>4. ASSUME NEW i \in Groups, CloseResp(i) PROVE Places'
  <2>1. UNCHANGED <<group, pc, waiting, status, resp, hookResponses>> BY <1>4 DEF CloseResp, resultVars
  <2>2. \A j \in Groups : Launched(j)' = Launched(j) BY <2>1 DEF Launched
  <2> QED BY <2>1, <2>2, PlacesFrame DEF Places
<1>5. CASE Collect BY <1>5, PlacesCollect
<1>6. CASE CollectEnd \/ ReturnReject
  <2>1. /\ UNCHANGED <<group, waiting, status, resp, hookResponses>>
        /\ pc \in {"collect", "handle"} /\ pc' \in {"handle", "done"}
    BY <1>6 DEF CollectEnd, ReturnReject, goVars, resultVars
  <2>2. \A j \in Groups : Launched(j)' = Launched(j) BY <2>1 DEF Launched
  <2> QED BY <2>1, <2>2, PlacesFrame DEF Places
<1>7. CASE HandleResponse BY <1>7, PlacesHandle
<1>8. CASE NextGroup
  <2>1. /\ UNCHANGED <<waiting, status, resp, hookResponses>> /\ hookResponses = <<>>
        /\ group' = group + 1 /\ pc = "handle" /\ pc' = "launch"
    BY <1>8 DEF NextGroup, goVars
  <2>2. \A j \in Groups : Launched(j)' = Launched(j) BY <1>0, <2>1 DEF Launched, Groups
  <2> QED BY <2>1, <2>2, PlacesFrame
<1>9. CASE Return
  <2>1. /\ UNCHANGED <<group, waiting, status, resp, hookResponses>>
        /\ pc = "launch" /\ pc' = "done" /\ group > Len(Plan)
    BY <1>9 DEF Return, goVars, resultVars
  <2>2. \A j \in Groups : j < group
    <3>1. \A j \in Groups : j \in Nat /\ j <= Len(Plan) BY <1>0 DEF Groups
    <3> QED BY <1>0, <2>1, <3>1
  <2>3. \A j \in Groups : Launched(j) /\ Launched(j)' BY Zenon, <2>1, <2>2 DEF Launched
  <2>4. \A j \in Groups : Launched(j)' = Launched(j) BY <2>3 DEF Launched
  <2> QED BY <2>1, <2>4, PlacesFrame
<1>10. CASE UNCHANGED vars
  <2>1. UNCHANGED <<group, pc, waiting, status, resp, hookResponses>> BY <1>10 DEF vars, goVars, resultVars
  <2>2. \A j \in Groups : Launched(j)' = Launched(j) BY <2>1 DEF Launched
  <2> QED BY <2>1, <2>2, PlacesFrame DEF Places
<1> QED BY <1>1, <1>2, <1>3, <1>4, <1>5, <1>6, <1>7, <1>8, <1>9, <1>10
        DEF Next, ExecutorStep, StageStep, Finished

\* Types hold and each hook is in one place, in every state of executeStage:
\* its select, the channel of its group, the collected responses, or handled.
THEOREM StageTypeCorrect == Spec => [](TypeOK /\ Places)
<1>1. Init => TypeOK /\ Places BY TypeInit, PlacesInit
<1>2. TypeOK /\ Places /\ [Next]_vars => (TypeOK /\ Places)' BY TypeNext, PlacesNext
<1> QED BY <1>1, <1>2, PTL DEF Spec

-----------------------------------------------------------------------------
(* The payload                                                             *)

NoDup(p) == \A i, j \in 1..Len(p) : p[i] = p[j] => i = j

\* The payload being built has the mutations of the hooks reported as updated,
\* each once, and differs from the payload of the last complete group by
\* mutations of the group at hand.
Built ==
  /\ NoDup(newPayload)
  /\ Applied(newPayload) = {h \in Hook : status[h] = "updated"}
  /\ pc \in {"launch", "collect"} => payload = newPayload /\ ~rejectErr
  /\ (pc = "done" /\ ~rejectErr) => payload = newPayload
  /\ Len(payload) <= Len(newPayload)
  /\ \A k \in 1..Len(payload) : newPayload[k] = payload[k]
  /\ \A k \in 1..Len(newPayload) : k > Len(payload) => group \in Groups /\ newPayload[k] \in Plan[group]
  /\ rejectErr => rejectable

\* A list without repetition is as long as its set is large.
LEMMA DistinctCount ==
  ASSUME NEW S, NEW p \in Seq(S), NoDup(p)
  PROVE  Cardinality(Applied(p)) = Len(p)
<1>1. Len(p) \in Nat /\ p \in [1..Len(p) -> Applied(p)] BY DEF Applied
<1>2. \A t \in Applied(p) : \E i \in 1..Len(p) : p[i] = t BY DEF Applied
<1>3. p \in Bijection(1..Len(p), Applied(p))
  BY <1>1, <1>2 DEF NoDup, Bijection, Injection, Surjection, IsInjective
<1>4. ExistsBijection(1..Len(p), Applied(p)) BY <1>3 DEF ExistsBijection
<1> QED BY <1>1, <1>4, FS_CountingElements

\* Initially nothing is applied.
LEMMA BuiltInit == Init => Built
<1> SUFFICES ASSUME Init PROVE Built OBVIOUS
<1>1. newPayload = <<>> /\ payload = <<>> /\ Len(newPayload) = 0 BY DEF Init
<1>2. Applied(newPayload) = {h \in Hook : status[h] = "updated"} BY <1>1 DEF Init, Applied
<1>3. ~rejectErr BY DEF Init
<1> QED BY <1>1, <1>2, <1>3 DEF Built, NoDup

\* Applying a response keeps the payload and the outcomes in step: the hook of
\* the response had no outcome before, so its mutations were not applied.
LEMMA BuiltHandle == ASSUME TypeOK, Places, Built, HandleResponse, UNCHANGED rejectable PROVE Built'
<1> DEFINE r == Head(hookResponses)
<1>1. hookResponses \in Seq(Responses) /\ hookResponses # <<>> /\ group \in Groups /\ pc = "handle"
  BY DEF HandleResponse, TypeOK, Places
<1>2. r = hookResponses[1] /\ r \in Responses /\ 1 \in 1..Len(hookResponses) BY <1>1
<1>3. /\ status' = [status EXCEPT ![r.hook] = StatusOf(r.answer)]
      /\ newPayload' = Apply(r) /\ rejectErr' = Rejects(r)
      /\ UNCHANGED <<group, pc, payload, rejectable>>
  BY Zenon DEF HandleResponse
<1> HIDE DEF r
<1>4. r.hook \in Plan[group] /\ r.hook \in Hook /\ status[r.hook] = "unknown"
  BY <1>1, <1>2 DEF Places, Answering, Responses
<1>5. status'[r.hook] = StatusOf(r.answer) /\ \A h \in Hook : h # r.hook => status'[h] = status[h]
  BY <1>3, <1>4 DEF TypeOK
<1>6. (StatusOf(r.answer) = "updated") <=> (r.answer = "update") BY DEF StatusOf
<1>7. newPayload \in Seq(Hook) /\ payload \in Seq(Hook) BY DEF TypeOK
<1>8. rejectErr' => rejectable'
  <2>1. rejectErr' = Rejects(r) /\ rejectable' = rejectable BY <1>3
  <2>2. rejectErr' => Rejects(r) BY <2>1
  <2>3. Rejects(r) => rejectable BY DEF Rejects
  <2>4. rejectable => rejectable' BY <2>1
  <2> QED BY <2>2, <2>3, <2>4
<1>9. CASE r.answer # "update"
  <2>1. newPayload' = newPayload BY <1>3, <1>9 DEF Apply
  <2>2. {h \in Hook : status'[h] = "updated"} = {h \in Hook : status[h] = "updated"}
    BY <1>4, <1>5, <1>6, <1>9
  <2>3. Applied(newPayload') = {h \in Hook : status'[h] = "updated"} BY <2>1, <2>2 DEF Built
  <2> QED BY <1>1, <1>3, <1>8, <2>1, <2>3 DEF Built
<1>10. CASE r.answer = "update"
  <2>1. newPayload' = Append(newPayload, r.hook) BY <1>3, <1>10 DEF Apply
  <2> DEFINE n == Len(newPayload)
  <2>2. /\ n \in Nat /\ Len(newPayload') = n + 1 /\ newPayload'[n + 1] = r.hook
        /\ \A k \in 1..n : newPayload'[k] = newPayload[k]
    BY <1>4, <1>7, <2>1
  <2>3. \A k \in 1..(n + 1) : k \in 1..n \/ k = n + 1 BY <2>2
  <2>4. Applied(newPayload') = Applied(newPayload) \cup {r.hook} BY <2>2, <2>3 DEF Applied
  <2>5. {h \in Hook : status'[h] = "updated"} = {h \in Hook : status[h] = "updated"} \cup {r.hook}
    BY <1>4, <1>5, <1>6, <1>10
  <2>6. \A k \in 1..n : newPayload[k] # r.hook BY <1>4 DEF Built, Applied
  <2>7. NoDup(newPayload') BY <2>2, <2>3, <2>6 DEF Built, NoDup
  <2>8. Len(payload) <= n + 1 /\ \A k \in 1..Len(payload) : newPayload'[k] = payload[k]
    BY <1>7, <2>2 DEF Built
  <2>9. \A k \in 1..(n + 1) : k > Len(payload) => newPayload'[k] \in Plan[group]
    BY <1>4, <2>2, <2>3 DEF Built
  <2>10. Applied(newPayload') = {h \in Hook : status'[h] = "updated"} BY <2>4, <2>5 DEF Built
  <2> QED BY <1>1, <1>3, <1>8, <2>2, <2>7, <2>8, <2>9, <2>10 DEF Built
<1> QED BY <1>9, <1>10

\* Every step keeps the payload as the outcomes say.
LEMMA BuiltNext == TypeOK /\ Places /\ Built /\ [Next]_vars => Built'
<1> SUFFICES ASSUME TypeOK, Places, Built, [Next]_vars PROVE Built' OBVIOUS
<1>1. CASE HandleResponse /\ UNCHANGED rejectable BY <1>1, BuiltHandle
<1>2. CASE NextGroup /\ UNCHANGED rejectable
  <2>1. /\ payload' = newPayload /\ newPayload' = newPayload /\ pc' = "launch" /\ ~rejectErr'
        /\ status' = status
    BY <1>2 DEF NextGroup
  <2>2. newPayload \in Seq(Hook) BY DEF TypeOK
  <2>3. Len(newPayload) \in Nat BY <2>2
  <2>4. NoDup(newPayload') /\ Applied(newPayload') = {h \in Hook : status'[h] = "updated"} BY <2>1 DEF Built
  <2> QED BY <2>1, <2>3, <2>4 DEF Built
<1>3. ASSUME UNCHANGED <<group, payload, newPayload, status, rejectErr, rejectable>>,
             \/ pc' \in {"launch", "collect"} => pc \in {"launch", "collect"},
             (pc' = "done" /\ ~rejectErr) => payload = newPayload
      PROVE  Built'
  BY <1>3 DEF Built
<1>4. CASE (Launch \/ Collect \/ CollectEnd) /\ UNCHANGED rejectable
  BY <1>3, <1>4 DEF Launch, Collect, CollectEnd, resultVars
<1>5. CASE (ReturnReject \/ Return) /\ UNCHANGED rejectable
  <2>1. (pc' = "done" /\ ~rejectErr) => payload = newPayload BY <1>5 DEF ReturnReject, Return, Built
  <2> QED BY <1>3, <1>5, <2>1 DEF ReturnReject, Return, resultVars
<1>6. ASSUME NEW h \in Hook, SelectStep(h) \/ HandlerPanics(h) \/ \E a \in Answers : Answer(h, a), UNCHANGED rejectable
      PROVE  Built'
  <2>1. UNCHANGED <<group, pc, payload, newPayload, status, rejectErr, rejectable>>
    BY <1>6 DEF SelectStep, SelectAnswer, SelectTimeout, SelectRejected, HandlerPanics, Answer, resultVars
  <2> QED BY <1>3, <2>1 DEF Built
<1>7. ASSUME NEW i \in Groups, CloseResp(i), UNCHANGED rejectable PROVE Built'
  <2>1. UNCHANGED <<group, pc, payload, newPayload, status, rejectErr, rejectable>> BY <1>7 DEF CloseResp, resultVars
  <2> QED BY <1>3, <2>1 DEF Built
<1>8. CASE UNCHANGED vars
  <2>1. UNCHANGED <<group, pc, payload, newPayload, status, rejectErr, rejectable>> BY <1>8 DEF vars, resultVars
  <2> QED BY <1>3, <2>1 DEF Built
<1> QED BY <1>1, <1>2, <1>4, <1>5, <1>6, <1>7, <1>8 DEF Next, ExecutorStep, StageStep, Finished

\* The payload has the mutations of exactly the hooks whose outcome says so, each
\* once, whatever the order of answers, timeouts and rejections; and it is the
\* payload the stage returns unless it was rejected.
THEOREM PayloadAlwaysMatches == Spec => []PayloadMatchesOutcomes
<1>1. Init => TypeOK /\ Places /\ Built BY TypeInit, PlacesInit, BuiltInit
<1>2. TypeOK /\ Places /\ Built /\ [Next]_vars => (TypeOK /\ Places /\ Built)'
  BY TypeNext, PlacesNext, BuiltNext
<1>3. TypeOK /\ Built => PayloadMatchesOutcomes
  <2> SUFFICES ASSUME TypeOK, Built PROVE PayloadMatchesOutcomes OBVIOUS
  <2>1. newPayload \in Seq(Hook) /\ NoDup(newPayload) BY DEF TypeOK, Built
  <2>2. Cardinality(Applied(newPayload)) = Len(newPayload) BY <2>1, DistinctCount
  <2> QED BY <2>2 DEF Built, PayloadMatchesOutcomes
<1> QED BY <1>1, <1>2, <1>3, PTL DEF Spec

-----------------------------------------------------------------------------
(* The promise of a stage                                                  *)

\* Sequences are equal when their elements are.
LEMMA SameSeq ==
  ASSUME NEW S, NEW p \in Seq(S), NEW q \in Seq(S), Len(p) = Len(q), \A i \in 1..Len(p) : p[i] = q[i]
  PROVE  p = q
OBVIOUS

\* What a complete group adds to the payload lists some of its hooks, each once.
LEMMA GroupAddsOrder ==
  ASSUME TypeOK, Built, group \in Groups
  PROVE  \E S \in SUBSET Plan[group] : \E s \in Promise!Orders(S) : newPayload = payload \o s
<1> DEFINE n == Len(payload)
           m == Len(newPayload) - Len(payload)
           s == [k \in 1..m |-> newPayload[n + k]]
           S == Applied(s)
<1>1. newPayload \in Seq(Hook) /\ payload \in Seq(Hook) BY DEF TypeOK
<1>2. n \in Nat /\ m \in Nat /\ Len(newPayload) = n + m BY <1>1 DEF Built
<1>3. \A k \in 1..m : n + k \in 1..(n + m) /\ n + k > n BY <1>2
<1>4. s \in Seq(Hook) /\ Len(s) = m /\ \A k \in 1..m : s[k] = newPayload[n + k]
  BY <1>1, <1>2, <1>3
<1>5. NoDup(newPayload) /\ \A k \in 1..m : newPayload[n + k] \in Plan[group]
  BY <1>2, <1>3 DEF Built
<1>6. ASSUME NEW i \in 1..m, NEW j \in 1..m, s[i] = s[j] PROVE i = j
  <2>1. n + i = n + j BY <1>2, <1>3, <1>4, <1>5, <1>6 DEF NoDup
  <2> QED BY <1>2, <2>1
<1>7. NoDup(s) BY Zenon, <1>4, <1>6 DEF NoDup
<1>8. Cardinality(S) = m BY Zenon, <1>4, <1>7, DistinctCount
<1>9. S \in SUBSET Plan[group] BY Zenon, <1>4, <1>5 DEF Applied
<1>10. s \in [1..m -> S] /\ \A x \in S : \E i \in 1..m : s[i] = x BY Zenon, <1>4 DEF Applied
<1>11. newPayload = payload \o s
  <2>1. payload \o s \in Seq(Hook) /\ Len(payload \o s) = n + m BY <1>1, <1>2, <1>4
  <2>2. ASSUME NEW k \in 1..(n + m) PROVE newPayload[k] = (payload \o s)[k]
    <3>1. CASE k \in 1..n BY <1>1, <1>4, <3>1 DEF Built
    <3>2. CASE k \in (n + 1)..(n + m)
      <4>1. k - n \in 1..m /\ n + (k - n) = k BY <1>2, <3>2
      <4>2. (payload \o s)[k] = s[k - n] BY <1>1, <1>2, <1>4, <3>2
      <4> QED BY <1>4, <4>1, <4>2
    <3> QED BY <1>2, <3>1, <3>2
  <2> HIDE DEF s, m, n
  <2> QED BY <1>1, <1>2, <2>1, <2>2, SameSeq
<1> HIDE DEF s, S, m, n
<1>12. DOMAIN s = 1..m BY <1>10
<1>13. Promise!Orders(S) = {p \in [1..Cardinality(S) -> S] : \A x \in S : \E i \in DOMAIN p : p[i] = x}
  BY DEF Promise!Orders, Promise!Cardinality, Cardinality
<1>14. s \in Promise!Orders(S) BY <1>8, <1>10, <1>12, <1>13
<1> QED BY <1>9, <1>11, <1>14

\* Each step of executeStage is a step of the promise or leaves what the caller sees
\* alone: the payload changes only when a group is complete.
LEMMA PromiseStep ==
  TypeOK /\ Places /\ Built /\ [Next]_vars => [Promise!PromiseNext]_(Promise!promiseVars)
<1> SUFFICES ASSUME TypeOK, Places, Built, [Next]_vars PROVE [Promise!PromiseNext]_(Promise!promiseVars)
  OBVIOUS
<1>0. Len(Plan) \in Nat /\ group \in Nat BY StageAssumption DEF TypeOK
<1>1. CASE NextGroup /\ UNCHANGED rejectable
  <2>1. group \in Groups /\ pc = "handle" /\ pc' = "launch" BY <1>1 DEF NextGroup, Places
  <2>2. payload' = newPayload /\ group' = group + 1 /\ rejectErr' = rejectErr /\ rejectable' = rejectable
    BY <1>1 DEF NextGroup
  <2>3. group <= Len(Plan) BY <1>0, <2>1 DEF Groups
  <2>4. \E S \in SUBSET Plan[group] : \E s \in Promise!Orders(S) : payload' = payload \o s
    BY <2>1, <2>2, GroupAddsOrder
  <2>5. (pc = "done")' = (pc = "done") /\ (pc = "done" /\ rejectErr)' = (pc = "done" /\ rejectErr) BY <2>1
  <2>6. Promise!GroupTakesEffect BY <2>1, <2>2, <2>3, <2>4, <2>5 DEF Promise!GroupTakesEffect
  <2> QED BY <2>6 DEF Promise!PromiseNext
<1>2. CASE ReturnReject /\ UNCHANGED rejectable
  <2>1. group \in Groups /\ pc = "handle" /\ pc' = "done" /\ rejectErr /\ rejectErr' BY <1>2 DEF ReturnReject, Places, resultVars
  <2>2. rejectable BY <2>1 DEF Built
  <2>3. group <= Len(Plan) BY <1>0, <2>1 DEF Groups
  <2>4. UNCHANGED <<rejectable, group, payload>> BY <1>2 DEF ReturnReject
  <2>5. (pc = "done")' = TRUE /\ (pc = "done" /\ rejectErr)' = TRUE BY <2>1
  <2>6. Promise!StageRejects BY <2>1, <2>2, <2>3, <2>4, <2>5 DEF Promise!StageRejects
  <2> QED BY <2>6 DEF Promise!PromiseNext
<1>3. CASE Return /\ UNCHANGED rejectable
  <2>1. group > Len(Plan) /\ pc = "launch" /\ pc' = "done" BY <1>3 DEF Return
  <2>2. ~rejectErr BY <2>1 DEF Built
  <2>3. rejectErr' = rejectErr /\ UNCHANGED <<rejectable, group, payload>> BY <1>3 DEF Return, resultVars
  <2>4. (pc = "done")' = TRUE BY <2>1
  <2>5. (pc = "done" /\ rejectErr)' = (pc = "done" /\ rejectErr) BY <2>1, <2>2, <2>3
  <2>6. Promise!StageReturns BY <2>1, <2>3, <2>4, <2>5 DEF Promise!StageReturns
  <2> QED BY <2>6 DEF Promise!PromiseNext
<1>4. ASSUME UNCHANGED <<rejectable, group, payload>>,
             (pc # "done" /\ pc' # "done") \/ (pc' = pc /\ rejectErr' = rejectErr)
      PROVE  UNCHANGED Promise!promiseVars
  <2>1. (pc = "done")' = (pc = "done") BY <1>4
  <2>2. (pc = "done" /\ rejectErr)' = (pc = "done" /\ rejectErr) BY <1>4
  <2> QED BY <1>4, <2>1, <2>2 DEF Promise!promiseVars
<1>5. CASE (Launch \/ Collect \/ CollectEnd \/ HandleResponse) /\ UNCHANGED rejectable
  <2>1. UNCHANGED <<rejectable, group, payload>> BY <1>5 DEF Launch, Collect, CollectEnd, HandleResponse
  <2>2. pc # "done" /\ pc' # "done" BY <1>5 DEF Launch, Collect, CollectEnd, HandleResponse
  <2>3. UNCHANGED Promise!promiseVars BY <1>4, <2>1, <2>2
  <2> QED BY <2>3
<1>6. ASSUME NEW h \in Hook, SelectStep(h) \/ HandlerPanics(h) \/ \E a \in Answers : Answer(h, a), UNCHANGED rejectable
      PROVE  UNCHANGED Promise!promiseVars
  <2>1. UNCHANGED <<group, pc, payload, rejectErr, rejectable>>
    BY <1>6 DEF SelectStep, SelectAnswer, SelectTimeout, SelectRejected, HandlerPanics, Answer, resultVars
  <2> QED BY <1>4, <2>1
<1>7. ASSUME NEW i \in Groups, CloseResp(i), UNCHANGED rejectable PROVE UNCHANGED Promise!promiseVars
  <2>1. UNCHANGED <<group, pc, payload, rejectErr, rejectable>> BY <1>7 DEF CloseResp, resultVars
  <2> QED BY <1>4, <2>1
<1>8. CASE UNCHANGED vars
  <2>1. UNCHANGED <<group, pc, payload, rejectErr, rejectable>> BY <1>8 DEF vars, resultVars
  <2> QED BY <1>4, <2>1
<1> QED BY <1>1, <1>2, <1>3, <1>5, <1>6, <1>7, <1>8 DEF Next, ExecutorStep, StageStep, Finished

\* executeStage implements the promise of a stage: each group takes effect whole and
\* in order, and a rejection returns the payload from before its group.
THEOREM StageKeepsPromise == Spec => KeepsPromise
<1>1. Init => Promise!PromiseInit
  <2> SUFFICES ASSUME Init PROVE Promise!PromiseInit OBVIOUS
  <2>1. rejectable \in BOOLEAN BY DEF Init
  <2>2. group = 1 /\ payload = <<>> /\ pc = "launch" BY DEF Init
  <2>3. (pc = "done") = FALSE /\ (pc = "done" /\ rejectErr) = FALSE BY <2>2
  <2> QED BY <2>1, <2>2, <2>3 DEF Promise!PromiseInit
<1>2. Init => TypeOK /\ Places /\ Built BY TypeInit, PlacesInit, BuiltInit
<1>3. TypeOK /\ Places /\ Built /\ [Next]_vars => (TypeOK /\ Places /\ Built)'
  BY TypeNext, PlacesNext, BuiltNext
<1>4. TypeOK /\ Places /\ Built /\ [Next]_vars => [Promise!PromiseNext]_(Promise!promiseVars) BY PromiseStep
<1> QED BY <1>1, <1>2, <1>3, <1>4, PTL DEF Spec, KeepsPromise, Promise!PromiseSpec
=============================================================================
