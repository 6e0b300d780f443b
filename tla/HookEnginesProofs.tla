------------------------- MODULE HookEnginesProofs -------------------------
(***************************************************************************)
(* The order of the folds, the counters and the rejections of the engines  *)
(* of HookEngines, for every number of concurrent requests, every plan and *)
(* whatever the hooks return.                                              *)
(***************************************************************************)
EXTENDS HookEngines, FiniteSetTheorems, TLAPS

Stages == [name : STRING, groups : Seq(Seq(Modules)), resume : Nat]
Phases == {"spawn", "fold", "done", "rejected"}
TaskStates == {Running} \cup UNION {Results[m] : m \in Modules}

Types ==
    /\ plan \in Plans
    /\ at \in [Requests -> [stage : Nat, group : Nat, phase : Phases]]
    /\ tasks \in [Requests -> Seq(TaskStates)]
    /\ next \in [Requests -> Nat]
    /\ DOMAIN payload = Requests /\ DOMAIN seen = Requests
    /\ store \in [Modules -> SUBSET Requests]

\* Where a request is in the plan, and how far its group has come.  A stage
\* without hooks has no tasks, so that the next one starts without any.
Placed(q) ==
    /\ at[q].stage \in DOMAIN plan.stages
    /\ next[q] >= 1 /\ next[q] <= Len(tasks[q]) + 1
    /\ HasPlan(q) => /\ at[q].group \in DOMAIN StageOf(q).groups
                     /\ Len(tasks[q]) <= Len(GroupOf(q))
    /\ ~ HasPlan(q) => tasks[q] = <<>>

EnginesInv == Types /\ \A q \in Requests : Placed(q)

-----------------------------------------------------------------------------
LEMMA PlanStages ==
  ASSUME Types
  PROVE  /\ plan.stages \in Seq(Stages) /\ plan.stages # <<>>
         /\ \A s \in DOMAIN plan.stages : plan.stages[s].resume \in 0..Len(plan.stages)
  BY HookAssumption, Zenon DEF Types, Stages

LEMMA StageIsOne ==
  ASSUME Types, NEW q \in Requests, at[q].stage \in DOMAIN plan.stages
  PROVE  StageOf(q) \in Stages /\ StageOf(q).groups \in Seq(Seq(Modules))
<1>1. StageOf(q) \in Stages
  BY PlanStages DEF StageOf
<1> QED
  BY <1>1 DEF Stages

LEMMA InitInv == Init => EnginesInv
<1> SUFFICES ASSUME Init PROVE EnginesInv
  OBVIOUS
<1>1. Types
  BY DEF Init, Types, Phases
<1>2. ASSUME NEW q \in Requests PROVE Placed(q)
  <2>1. at[q].stage = 1 /\ at[q].group = 1 /\ tasks[q] = <<>> /\ next[q] = 1
    BY DEF Init
  <2>2. at[q].stage \in DOMAIN plan.stages
    BY <1>1, <2>1, PlanStages
  <2>3. StageOf(q).groups \in Seq(Seq(Modules))
    BY <1>1, <2>2, StageIsOne
  <2>4. HasPlan(q) => 1 \in DOMAIN StageOf(q).groups /\ GroupOf(q) \in Seq(Modules)
    BY <2>1, <2>3 DEF HasPlan, GroupOf
  <2>5. HasPlan(q) => Len(tasks[q]) <= Len(GroupOf(q))
    BY <2>1, <2>4
  <2> QED
    BY <2>1, <2>2, <2>4, <2>5 DEF Placed
<1> QED
  BY <1>1, <1>2 DEF EnginesInv

-----------------------------------------------------------------------------
\* A request that a step does not touch stays where it was.
LEMMA Untouched ==
  ASSUME plan' = plan, NEW p \in Requests,
         at'[p] = at[p], tasks'[p] = tasks[p], next'[p] = next[p], Placed(p)
  PROVE  Placed(p)'
  BY DEF Placed, HasPlan, GroupOf, StageOf

LEMMA SpawnInv == ASSUME EnginesInv, NEW q \in Requests, Spawn(q) PROVE EnginesInv'
<1> USE DEF EnginesInv
<1>0. plan' = plan /\ at' = at /\ next' = next /\ store' = store /\ payload' = payload
  BY DEF Spawn
<1>1. tasks' = [tasks EXCEPT ![q] = Append(@, Running)]
  BY DEF Spawn
<1>2. tasks'[q] = Append(tasks[q], Running) /\ tasks'[q] \in Seq(TaskStates) /\ Len(tasks'[q]) = Len(tasks[q]) + 1
  <2>1. Running \in TaskStates
    BY DEF TaskStates
  <2> QED
    BY <1>1, <2>1 DEF Types
<1>3. Types'
  BY <1>0, <1>1, <1>2 DEF Types, Spawn
<1>4. Placed(q)'
  <2>1. HasPlan(q) /\ Len(tasks[q]) < Len(GroupOf(q))
    BY DEF Spawn
  <2>2. GroupOf(q) \in Seq(Modules)
    BY <2>1, StageIsOne DEF Placed, GroupOf
  <2> QED
    BY <1>0, <1>2, <2>1, <2>2 DEF Placed, HasPlan, GroupOf, StageOf, Types
<1>5. ASSUME NEW p \in Requests, p # q PROVE Placed(p)'
  BY <1>0, <1>1, <1>5, Untouched DEF Types
<1> QED
  BY <1>3, <1>4, <1>5

LEMMA SpawnDoneInv == ASSUME EnginesInv, NEW q \in Requests, SpawnDone(q) PROVE EnginesInv'
<1> USE DEF EnginesInv
<1>0. UNCHANGED <<plan, tasks, next, payload, store, seen>>
  BY DEF SpawnDone
<1>1. at' = [at EXCEPT ![q].phase = "fold"]
  BY DEF SpawnDone
<1>2. at'[q] = [stage |-> at[q].stage, group |-> at[q].group, phase |-> "fold"]
  BY <1>1, Zenon DEF Types
<1>3. Types'
  BY Zenon, <1>0, <1>1 DEF Types, Phases
<1>4. Placed(q)'
  BY <1>0, <1>2 DEF Placed, HasPlan, GroupOf, StageOf
<1>5. ASSUME NEW p \in Requests, p # q PROVE Placed(p)' /\ at'[p] = at[p]
  BY <1>0, <1>1, <1>5, Untouched DEF Types
<1> QED
  BY <1>3, <1>4, <1>5

LEMMA FinishInv ==
  ASSUME EnginesInv, NEW q \in Requests, NEW i \in DOMAIN tasks[q], Finish(q, i)
  PROVE  EnginesInv' /\ Len(tasks'[q]) = Len(tasks[q])
<1> USE DEF EnginesInv
<1>0. UNCHANGED <<plan, at, next, payload, store, seen>>
  BY DEF Finish
<1>1. PICK res \in Results[GroupOf(q)[i]] : tasks' = [tasks EXCEPT ![q][i] = res]
  BY DEF Finish
<1>2. HasPlan(q)
  BY DEF Placed, Types
<1>3. GroupOf(q) \in Seq(Modules)
  BY <1>2, StageIsOne DEF Placed, GroupOf
<1>4. i \in DOMAIN GroupOf(q)
  BY <1>2, <1>3 DEF Placed, Types
<1>5. res \in TaskStates
  BY <1>1, <1>3, <1>4 DEF TaskStates
<1>6. tasks'[q] = [tasks[q] EXCEPT ![i] = res] /\ tasks'[q] \in Seq(TaskStates) /\ Len(tasks'[q]) = Len(tasks[q])
  BY <1>1, <1>5 DEF Types
<1>7. \A p \in Requests \ {q} : tasks'[p] = tasks[p]
  BY <1>1 DEF Types
<1>8. tasks' \in [Requests -> Seq(TaskStates)]
  BY <1>1, <1>6, <1>7 DEF Types
<1>9. Types'
  BY <1>0, <1>8 DEF Types
<1>10. Placed(q)'
  BY <1>0, <1>2, <1>6, Zenon DEF Placed, HasPlan, GroupOf, StageOf
<1>11. ASSUME NEW p \in Requests, p # q PROVE Placed(p)'
  BY <1>0, <1>7, <1>11, Untouched
<1> QED
  BY <1>6, <1>9, <1>10, <1>11

LEMMA FoldInv == ASSUME EnginesInv, NEW q \in Requests, Fold(q) PROVE EnginesInv'
<1> USE DEF EnginesInv
<1> DEFINE res == tasks[q][next[q]]
<1>0. plan' = plan /\ tasks' = tasks /\ seen' = seen
  BY DEF Fold
<1>1. next[q] <= Len(tasks[q])
  BY DEF Fold, Foldable
<1>2. DOMAIN payload' = Requests
  BY DEF Fold, Types
<1>3. store' \in [Modules -> SUBSET Requests]
  BY Zenon DEF Fold, Types
<1>4. CASE Rejects(q, res)
  <2>1. at' = [at EXCEPT ![q].phase = "rejected"] /\ next' = next
    BY <1>4 DEF Fold
  <2>2. at'[q] = [stage |-> at[q].stage, group |-> at[q].group, phase |-> "rejected"]
    BY Zenon, <2>1 DEF Types
  <2>4. Types'
    BY <1>0, <1>2, <1>3, <2>1, ZenonT(40) DEF Types, Phases
  <2>5. Placed(q)'
    BY <1>0, <2>1, <2>2 DEF Placed, HasPlan, GroupOf, StageOf
  <2>6. ASSUME NEW p \in Requests, p # q PROVE Placed(p)' /\ at'[p] = at[p]
    BY <1>0, <2>1, <2>6, Untouched DEF Types
  <2> QED
    BY <2>4, <2>5, <2>6
<1>5. CASE ~ Rejects(q, res)
  <2>1. at' = at /\ next' = [next EXCEPT ![q] = @ + 1]
    BY <1>5 DEF Fold
  <2>2. Types'
    BY <1>0, <1>2, <1>3, <2>1 DEF Types
  <2>3. Placed(q)'
    BY <1>0, <1>1, <2>1 DEF Placed, HasPlan, GroupOf, StageOf, Types
  <2>4. ASSUME NEW p \in Requests, p # q PROVE Placed(p)'
    BY <1>0, <2>1, <2>4, Untouched DEF Types
  <2> QED
    BY <2>2, <2>3, <2>4
<1> QED
  BY <1>4, <1>5

\* A call that is left: the request is at the start of another one, without
\* tasks, or has gone through all of them.
LEMMA MoveTo ==
  ASSUME EnginesInv, NEW q \in Requests,
         NEW pos \in [stage : Nat, group : Nat, phase : {"spawn", "done"}],
         pos.stage \in DOMAIN plan.stages,
         pos.group = 1 \/ (pos.stage = at[q].stage /\ pos.group = at[q].group),
         plan' = plan, at' = [at EXCEPT ![q] = pos],
         tasks' = [tasks EXCEPT ![q] = <<>>], next' = [next EXCEPT ![q] = 1],
         DOMAIN payload' = Requests, DOMAIN seen' = Requests, store' = store
  PROVE  EnginesInv'
<1> USE DEF EnginesInv
<1>1. plan.stages \in Seq(Stages)
  BY PlanStages
<1>2. at'[q] = pos /\ tasks'[q] = <<>> /\ next'[q] = 1
  BY DEF Types
<1>3. Types'
  BY DEF Types, Phases
<1>4. StageOf(q)' \in Stages /\ StageOf(q)'.groups \in Seq(Seq(Modules))
  <2>1. StageOf(q)' = plan.stages[pos.stage]
    BY <1>2 DEF StageOf
  <2>2. plan.stages[pos.stage] \in Stages
    BY <1>1
  <2> QED
    BY <2>1, <2>2 DEF Stages
<1>5. HasPlan(q)' => at'[q].group \in DOMAIN StageOf(q)'.groups
  BY <1>2, <1>4 DEF HasPlan, Placed, StageOf
<1>6. HasPlan(q)' => GroupOf(q)' \in Seq(Modules)
  BY <1>4, <1>5 DEF GroupOf
<1>7. Placed(q)'
  BY <1>2, <1>5, <1>6 DEF Placed
<1>8. ASSUME NEW p \in Requests, p # q PROVE Placed(p)' /\ at'[p] = at[p]
  BY <1>8, Untouched DEF Types
<1> QED
  BY <1>3, <1>7, <1>8

LEMMA LeaveStage ==
  ASSUME EnginesInv, NEW q \in Requests, at[q].phase \in {"spawn", "fold"},
         plan' = plan, at' = [at EXCEPT ![q] = AfterStage(q)],
         tasks' = [tasks EXCEPT ![q] = <<>>], next' = [next EXCEPT ![q] = 1],
         DOMAIN payload' = Requests, DOMAIN seen' = Requests, store' = store
  PROVE  EnginesInv'
<1>1. plan.stages \in Seq(Stages) /\ at[q].stage \in DOMAIN plan.stages
  BY PlanStages DEF EnginesInv, Placed
<1>2. at[q] = [stage |-> at[q].stage, group |-> at[q].group, phase |-> at[q].phase]
       /\ at[q].stage \in Nat /\ at[q].group \in Nat
  BY DEF EnginesInv, Types
<1>3. AfterStage(q) \in [stage : Nat, group : Nat, phase : {"spawn", "done"}]
       /\ AfterStage(q).stage \in DOMAIN plan.stages
       /\ (AfterStage(q).group = 1
           \/ (AfterStage(q).stage = at[q].stage /\ AfterStage(q).group = at[q].group))
  BY <1>1, <1>2 DEF AfterStage
<1> QED
  BY <1>3, MoveTo

LEMMA ResumeInv == ASSUME EnginesInv, NEW q \in Requests, Resume(q) PROVE EnginesInv'
<1> DEFINE pos == [stage |-> StageOf(q).resume, group |-> 1, phase |-> "spawn"]
<1>1. /\ at' = [at EXCEPT ![q] = pos] /\ StageOf(q).resume # 0
      /\ UNCHANGED <<plan, store, seen>>
      /\ tasks' = [tasks EXCEPT ![q] = <<>>] /\ next' = [next EXCEPT ![q] = 1]
      /\ payload' = [payload EXCEPT ![q] = <<>>]
  BY DEF Resume, ClearTasks, NewCall
<1>2. DOMAIN payload' = Requests /\ DOMAIN seen' = Requests
  BY <1>1 DEF EnginesInv, Types
<1>3. StageOf(q).resume \in 0..Len(plan.stages) /\ plan.stages \in Seq(Stages)
  BY PlanStages DEF EnginesInv, Placed, StageOf
<1>4. StageOf(q).resume \in DOMAIN plan.stages /\ StageOf(q).resume \in Nat
  BY <1>1, <1>3
<1>5. pos \in [stage : Nat, group : Nat, phase : {"spawn", "done"}] /\ pos.group = 1
       /\ pos.stage = StageOf(q).resume
  BY <1>4
<1> HIDE DEF pos
<1> QED
  BY <1>1, <1>2, <1>4, <1>5, MoveTo

LEMMA GroupDoneInv == ASSUME EnginesInv, NEW q \in Requests, GroupDone(q) PROVE EnginesInv'
<1> USE DEF EnginesInv
<1>0. /\ plan' = plan /\ DOMAIN payload' = Requests /\ store' = store /\ seen' = seen
      /\ tasks' = [tasks EXCEPT ![q] = <<>>] /\ next' = [next EXCEPT ![q] = 1]
      /\ at[q].phase = "fold"
  BY DEF GroupDone, ClearTasks, Folded, NewCall, Types
<1>1. CASE at[q].group < Len(StageOf(q).groups)
  <2>1. at' = [at EXCEPT ![q] = [stage |-> @.stage, group |-> @.group + 1, phase |-> "spawn"]]
    BY <1>1 DEF GroupDone
  <2>2. at'[q] = [stage |-> at[q].stage, group |-> at[q].group + 1, phase |-> "spawn"]
         /\ tasks'[q] = <<>> /\ next'[q] = 1
    BY <1>0, <2>1 DEF Types
  <2>3. Types'
    BY <1>0, <2>1 DEF Types, Phases
  <2>4. StageOf(q)' = StageOf(q) /\ StageOf(q).groups \in Seq(Seq(Modules))
    BY <1>0, <2>2, StageIsOne DEF StageOf, Placed
  <2>5. at'[q].group \in DOMAIN StageOf(q)'.groups
    BY <1>1, <2>2, <2>4 DEF Types
  <2>6. GroupOf(q)' \in Seq(Modules)
    BY <2>4, <2>5 DEF GroupOf
  <2>7. Placed(q)'
    BY <1>0, <2>2, <2>5, <2>6 DEF Placed
  <2>8. ASSUME NEW p \in Requests, p # q PROVE Placed(p)' /\ at'[p] = at[p]
    BY <1>0, <2>1, <2>8, Untouched DEF Types
  <2> QED
    BY <2>3, <2>7, <2>8
<1>2. CASE ~ (at[q].group < Len(StageOf(q).groups))
  <2>1. at' = [at EXCEPT ![q] = AfterStage(q)]
    BY <1>2 DEF GroupDone
  <2> QED
    BY <1>0, <2>1, LeaveStage, Zenon DEF Types
<1> QED
  BY <1>1, <1>2

LEMMA SkipStageInv == ASSUME EnginesInv, NEW q \in Requests, SkipStage(q) PROVE EnginesInv'
<1> USE DEF EnginesInv
<1>1. /\ UNCHANGED <<plan, tasks, next, payload, store, seen>> /\ at[q].phase = "spawn"
      /\ at' = [at EXCEPT ![q] = AfterStage(q)] /\ ~ HasPlan(q)
  BY DEF SkipStage
<1>2. tasks[q] = <<>> /\ next[q] = 1
  BY <1>1 DEF Placed, Types
<1>3. tasks' = [tasks EXCEPT ![q] = <<>>] /\ next' = [next EXCEPT ![q] = 1]
  BY <1>1, <1>2 DEF Types
<1> QED
  BY Zenon, <1>1, <1>3, LeaveStage DEF Types

\* Every step of the engines keeps the invariant.
LEMMA NextInv == EnginesInv /\ [Next]_vars => EnginesInv'
<1> SUFFICES ASSUME EnginesInv, [Next]_vars PROVE EnginesInv'
  OBVIOUS
<1>1. ASSUME NEW q \in Requests, Engine(q) PROVE EnginesInv'
  BY <1>1, SpawnInv, SpawnDoneInv, FoldInv, GroupDoneInv, SkipStageInv, ResumeInv DEF Engine
<1>2. ASSUME NEW q \in Requests, NEW i \in DOMAIN tasks[q], Finish(q, i) PROVE EnginesInv'
  BY <1>2, FinishInv
<1>3. CASE UNCHANGED vars
  BY <1>3 DEF vars, EnginesInv, Types, Placed, HasPlan, GroupOf, StageOf
<1> QED
  BY <1>1, <1>2, <1>3 DEF Next, Ended

LEMMA EnginesInvariant == Spec => []EnginesInv
  BY InitInv, NextInv, PTL DEF Spec

-----------------------------------------------------------------------------
\* A rejected request is touched by no step of another request that shares the
\* executor.
LEMMA OthersStep ==
  ASSUME EnginesInv, NEW q \in Requests, NEW p \in Requests, p # q, Engine(p)
  PROVE  /\ at'[q] = at[q] /\ payload'[q] = payload[q] /\ tasks'[q] = tasks[q] /\ seen'[q] = seen[q]
         /\ {o \in outcomes' : o.req = q} = {o \in outcomes : o.req = q}
         /\ \A m \in Modules : q \in store'[m] <=> q \in store[m]
<1>1. CASE Spawn(p)
  BY <1>1 DEF Spawn, EnginesInv, Types
<1>2. CASE SpawnDone(p)
  BY <1>2 DEF SpawnDone, EnginesInv, Types
<1>3. CASE Fold(p)
  <2>1. at'[q] = at[q]
    BY <1>3 DEF Fold, EnginesInv, Types
  <2>2. payload'[q] = payload[q] /\ tasks' = tasks /\ seen' = seen
    BY <1>3 DEF Fold, EnginesInv, Types
  <2>3. outcomes' = outcomes \/ outcomes' = PushRejected(p)
    BY <1>3 DEF Fold
  <2>4. {o \in outcomes' : o.req = q} = {o \in outcomes : o.req = q}
    BY <2>3 DEF PushRejected
  <2>5. store' = store \/ \E m \in {GroupOf(p)[next[p]]} : store' = [store EXCEPT ![m] = @ \cup {p}]
    BY <1>3 DEF Fold
  <2>6. \A m \in Modules : q \in store'[m] <=> q \in store[m]
    <3>1. CASE store' = store
      BY <3>1
    <3>2. ASSUME NEW m \in {GroupOf(p)[next[p]]}, store' = [store EXCEPT ![m] = @ \cup {p}],
                 NEW k \in Modules
          PROVE  q \in store'[k] <=> q \in store[k]
      BY <3>2 DEF EnginesInv, Types
    <3> QED
      BY <2>5, <3>1, <3>2
  <2> QED
    BY <2>1, <2>2, <2>4, <2>6
<1>4. CASE GroupDone(p)
  <2>1. at'[q] = at[q] /\ tasks'[q] = tasks[q] /\ seen' = seen /\ store' = store
    BY <1>4 DEF GroupDone, ClearTasks, EnginesInv, Types
  <2>2. payload'[q] = payload[q]
    BY <1>4 DEF GroupDone, NewCall, EnginesInv, Types
  <2>3. outcomes' = outcomes \/ outcomes' = Pushed(p)
    BY <1>4 DEF GroupDone
  <2>4. {o \in outcomes' : o.req = q} = {o \in outcomes : o.req = q}
    BY <2>3 DEF Pushed
  <2> QED
    BY <2>1, <2>2, <2>4
<1>5. CASE SkipStage(p)
  <2>1. at'[q] = at[q] /\ UNCHANGED <<tasks, payload, seen, store>>
    BY <1>5 DEF SkipStage, EnginesInv, Types
  <2>2. outcomes' = outcomes \/ outcomes' = Pushed(p)
    BY <1>5 DEF SkipStage
  <2>3. {o \in outcomes' : o.req = q} = {o \in outcomes : o.req = q}
    BY <2>2 DEF Pushed
  <2> QED
    BY <2>1, <2>3
<1>6. CASE Resume(p)
  BY <1>6 DEF Resume, ClearTasks, NewCall, EnginesInv, Types
<1> QED
  BY <1>1, <1>2, <1>3, <1>4, <1>5, <1>6 DEF Engine

\* The positions of every request are positions of its plan, for every plan.
THEOREM TypeCorrect == Spec => []TypeOK
<1>1. EnginesInv => TypeOK
  BY DEF EnginesInv, TypeOK, Types, Placed, Phases
<1> QED
  BY EnginesInvariant, <1>1, PTL

\* Once a group is rejected its other hooks reach neither the payload nor the
\* module contexts nor the outcomes, and only the caller's next call moves the
\* request.
THEOREM RejectionsAreFinal == Spec => RejectionIsFinal
<1> DEFINE Left(q) ==
             /\ {o \in outcomes' : o.req = q} = {o \in outcomes : o.req = q}
             /\ seen'[q] = seen[q] /\ \A m \in Modules : q \in store'[m] <=> q \in store[m]
           Stays(q) == at'[q] = at[q] /\ payload'[q] = payload[q] /\ Len(tasks'[q]) = Len(tasks[q])
           Goes(q) ==
             /\ ~ Refused(q) /\ at'[q].phase = "spawn" /\ at'[q].stage = StageOf(q).resume
             /\ payload'[q] = <<>> /\ tasks'[q] = <<>>
           Final(q) == Left(q) /\ (Stays(q) \/ Goes(q))
<1>1. ASSUME EnginesInv, [Next]_vars, NEW q \in Requests, at[q].phase = "rejected" PROVE Final(q)
  <2>1. ASSUME NEW p \in Requests, p # q, Engine(p) PROVE Final(q)
    BY <1>1, <2>1, OthersStep
  <2>2. ASSUME Engine(q) PROVE Final(q)
    <3>1. Resume(q)
      BY <1>1, <2>2 DEF Engine, Spawn, SpawnDone, Fold, Foldable, GroupDone, Folded, SkipStage
    <3>2. Left(q)
      BY <3>1 DEF Resume
    <3>3. Goes(q)
      BY <1>1, <3>1 DEF Resume, Refused, ClearTasks, NewCall, EnginesInv, Types
    <3> QED
      BY <3>2, <3>3
  <2>3. ASSUME NEW p \in Requests, NEW i \in DOMAIN tasks[p], Finish(p, i) PROVE Final(q)
    <3>1. UNCHANGED <<at, payload, seen, outcomes, store>>
      BY <2>3 DEF Finish
    <3>2. CASE p = q
      BY <1>1, <2>3, <3>1, <3>2, FinishInv
    <3>3. CASE p # q
      BY <1>1, <2>3, <3>1, <3>3 DEF Finish, EnginesInv, Types
    <3> QED
      BY <3>2, <3>3
  <2>4. CASE UNCHANGED vars
    BY <2>4 DEF vars
  <2> QED
    BY <1>1, <2>1, <2>2, <2>3, <2>4 DEF Next, Ended
<1>2. EnginesInv /\ [Next]_vars =>
        [\A q \in Requests : at[q].phase = "rejected" =>
          /\ {o \in outcomes' : o.req = q} = {o \in outcomes : o.req = q}
          /\ seen'[q] = seen[q] /\ \A m \in Modules : q \in store'[m] <=> q \in store[m]
          /\ \/ at'[q] = at[q] /\ payload'[q] = payload[q] /\ Len(tasks'[q]) = Len(tasks[q])
             \/ /\ ~ Refused(q) /\ at'[q].phase = "spawn" /\ at'[q].stage = StageOf(q).resume
                /\ payload'[q] = <<>> /\ tasks'[q] = <<>>]_vars
  BY <1>1
<1> QED
  BY EnginesInvariant, <1>2, PTL DEF Spec, RejectionIsFinal
-----------------------------------------------------------------------------
\* The mutations that hooks return, one result at a time.
Answers == UNION {Results[m] : m \in Modules}
Parts == {res \in Answers : res.kind = "ok"}
Mutations == UNION {{Good(res.muts)[k] : k \in DOMAIN Good(res.muts)} : res \in Parts}

\* How far a group has been folded: nothing while its hooks are spawned, and
\* only results of hooks that are over, each one behind those before it.
Ordered(q) ==
    /\ payload[q] \in Seq(Mutations)
    /\ at[q].phase = "spawn" => next[q] = 1
    /\ \A i \in 1..(next[q] - 1) : Over(tasks[q][i])
    /\ at[q].phase \in {"fold", "rejected"} => EndsWithFolded(q)

FoldInvariant == EnginesInv /\ \A q \in Requests : Ordered(q)

LEMMA GoodIsSequence ==
  ASSUME NEW muts \in Seq(STRING), NEW S,
         {Good(muts)[k] : k \in DOMAIN Good(muts)} \subseteq S
  PROVE  Good(muts) \in Seq(S)
<1> DEFINE I == {i \in DOMAIN muts : muts[i] # "bad"}
           Nth(k) == muts[CHOOSE i \in I : Cardinality({j \in I : j <= i}) = k]
<1>1. Cardinality(I) \in Nat
  <2>1. IsFiniteSet(1..Len(muts)) /\ I \subseteq 1..Len(muts)
    BY FS_Interval
  <2> QED
    BY <2>1, FS_Subset, FS_CardinalityType
<1>2. Good(muts) = [k \in 1..Cardinality(I) |-> Nth(k)]
  BY DEF Good
<1> HIDE DEF I, Nth
<1>3. \A k \in 1..Cardinality(I) : Good(muts)[k] \in S
  BY <1>2
<1> QED
  BY <1>1, <1>2, <1>3

LEMMA AppliedIsSequence ==
  ASSUME NEW q \in Requests, NEW res \in TaskStates
  PROVE  Applied(q, res) \in Seq(Mutations)
<1>1. CASE Applied(q, res) = <<>>
  BY <1>1
<1>2. CASE Applied(q, res) # <<>>
  <2>1. res.kind = "ok" /\ Applied(q, res) = Good(res.muts)
    BY <1>2 DEF Applied
  <2>2. res \in Parts
    BY <2>1 DEF TaskStates, Running, Parts, Answers
  <2>3. res.muts \in Seq(STRING)
    BY <2>2, HookAssumption DEF Parts, Answers
  <2>4. {Good(res.muts)[k] : k \in DOMAIN Good(res.muts)} \subseteq Mutations
    BY <2>2 DEF Mutations
  <2> QED
    BY <2>1, <2>3, <2>4, GoodIsSequence
<1> QED
  BY <1>1, <1>2

\* The results folded so far stay where they are.
LEMMA StillOrdered ==
  ASSUME plan' = plan, NEW q \in Requests, at'[q].stage = at[q].stage,
         next'[q] = next[q], payload'[q] = payload[q], next[q] \in Nat,
         \A i \in 1..(next[q] - 1) : tasks'[q][i] = tasks[q][i],
         at'[q].phase = at[q].phase \/ (at[q].phase = "fold" /\ at'[q].phase = "rejected"),
         Ordered(q)
  PROVE  Ordered(q)'
<1>1. \A i \in 1..(next[q] - 1) : Applied(q, tasks[q][i])' = Applied(q, tasks[q][i])
  <2>1. ASSUME NEW i \in 1..(next[q] - 1) PROVE Applied(q, tasks[q][i])' = Applied(q, tasks[q][i])
    <3>1. Applied(q, tasks[q][i])' = Applied(q, tasks'[q][i])
      BY DEF Applied, Rejects, StageOf, Shared
    <3> QED
      BY <3>1
  <2> QED
    BY <2>1
<1>2. EndsWithFolded(q) => EndsWithFolded(q)'
  BY <1>1 DEF EndsWithFolded
<1>3. \A i \in 1..(next[q] - 1) : Over(tasks[q][i])'
  BY DEF Ordered, Over
<1> QED
  BY <1>2, <1>3 DEF Ordered

\* A group with nothing folded yet.
LEMMA NothingFolded ==
  ASSUME NEW q \in Requests, payload[q] \in Seq(Mutations), next[q] = 1
  PROVE  Ordered(q)
<1> DEFINE cut == [i \in {0} |-> Len(payload[q])]
<1>1. 0..(next[q] - 1) = {0} /\ 1..(next[q] - 1) = {}
  OBVIOUS
<1>2. Len(payload[q]) \in Nat
  OBVIOUS
<1>3. cut \in [0..(next[q] - 1) -> 0..Len(payload[q])] /\ cut[next[q] - 1] = Len(payload[q])
  BY <1>1, <1>2
<1>4. EndsWithFolded(q)
  <2> HIDE DEF cut
  <2> QED
    BY <1>1, <1>3 DEF EndsWithFolded
<1> QED
  BY <1>1, <1>4 DEF Ordered

LEMMA NothingFoldedNext ==
  ASSUME NEW q \in Requests, payload'[q] \in Seq(Mutations), next'[q] = 1
  PROVE  Ordered(q)'
<1> DEFINE cut == [i \in {0} |-> Len(payload'[q])]
<1>1. 0..(next'[q] - 1) = {0} /\ 1..(next'[q] - 1) = {}
  OBVIOUS
<1>2. cut \in [0..(next'[q] - 1) -> 0..Len(payload'[q])] /\ cut[next'[q] - 1] = Len(payload'[q])
  BY <1>1
<1>3. EndsWithFolded(q)'
  <2> HIDE DEF cut
  <2> QED
    BY <1>1, <1>2 DEF EndsWithFolded
<1> QED
  BY <1>1, <1>3 DEF Ordered

\* What follows a sequence leaves its parts where they were.
LEMMA Followed ==
  ASSUME NEW S, NEW s \in Seq(S), NEW t \in Seq(S)
  PROVE  /\ s \o t \in Seq(S) /\ Len(s \o t) = Len(s) + Len(t)
         /\ SubSeq(s \o t, Len(s) + 1, Len(s) + Len(t)) = t
<1>1. s \o t \in Seq(S) /\ Len(s \o t) = Len(s) + Len(t)
  OBVIOUS
<1>2. SubSeq(s \o t, Len(s) + 1, Len(s) + Len(t)) = t
  OBVIOUS
<1> QED
  BY <1>1, <1>2

LEMMA Within ==
  ASSUME NEW S, NEW s \in Seq(S), NEW t \in Seq(S), NEW a \in 0..Len(s), NEW b \in 0..Len(s)
  PROVE  SubSeq(s \o t, a + 1, b) = SubSeq(s, a + 1, b)
  OBVIOUS

\* One result more: its part ends the payload.
LEMMA OneMore ==
  ASSUME plan' = plan, tasks' = tasks, NEW q \in Requests, at'[q] = at[q],
         at[q].phase = "fold", Ordered(q), next[q] \in Nat, next[q] >= 1,
         next'[q] = next[q] + 1, Over(tasks[q][next[q]]),
         Applied(q, tasks[q][next[q]]) \in Seq(Mutations),
         payload'[q] = payload[q] \o Applied(q, tasks[q][next[q]])
  PROVE  Ordered(q)'
<1>1. PICK n \in Nat : n = next[q] /\ n >= 1
  OBVIOUS
<1>2. PICK old \in Seq(Mutations) : old = payload[q]
  BY DEF Ordered
<1>3. PICK part \in Seq(Mutations) : part = Applied(q, tasks[q][n])
  BY <1>1
<1>4. PICK all \in Seq(Mutations) : all = old \o part
  BY Followed, Zenon
<1>5. payload'[q] = all /\ next'[q] = n + 1 /\ Len(all) = Len(old) + Len(part)
  BY <1>1, <1>2, <1>3, <1>4, Followed
<1>6. PICK cut \in [0..(n - 1) -> 0..Len(old)] :
        /\ cut[n - 1] = Len(old)
        /\ \A i \in 1..(n - 1) :
              /\ cut[i] = cut[i - 1] + Len(Applied(q, tasks[q][i]))
              /\ SubSeq(old, cut[i - 1] + 1, cut[i]) = Applied(q, tasks[q][i])
  BY Zenon, <1>1, <1>2 DEF Ordered, EndsWithFolded
<1>7. \A i : Applied(q, tasks[q][i])' = Applied(q, tasks[q][i])
  BY Zenon DEF Applied, Rejects, StageOf, Shared
<1>8. PICK new \in [0..n -> 0..Len(all)] : new[n] = Len(all) /\ \A i \in 0..(n - 1) : new[i] = cut[i]
  <2>1. Len(old) \in Nat /\ Len(all) \in Nat /\ Len(part) \in Nat
    OBVIOUS
  <2>2. Len(old) <= Len(all)
    BY <1>5, <2>1
  <2> QED
    <3>1. PICK a \in Nat : a = Len(old)
      BY <2>1
    <3>2. PICK b \in Nat : b = Len(all)
      BY <2>1
    <3>3. a <= b /\ cut \in [0..(n - 1) -> 0..a]
      BY <1>6, <2>2, <3>1, <3>2
    <3>4. \E new \in [0..n -> 0..b] : new[n] = b /\ \A i \in 0..(n - 1) : new[i] = cut[i]
      <4> DEFINE new == [i \in 0..n |-> IF i = n THEN b ELSE cut[i]]
      <4>1. ASSUME NEW i \in 0..n PROVE new[i] \in 0..b
        <5>1. i # n => i \in 0..(n - 1)
          OBVIOUS
        <5>2. i # n => cut[i] \in 0..a
          BY <3>3, <5>1
        <5> QED
          BY <3>3, <5>2
      <4>2. new \in [0..n -> 0..b]
        BY <4>1
      <4>3. new[n] = b /\ \A i \in 0..(n - 1) : new[i] = cut[i]
        OBVIOUS
      <4> HIDE DEF new
      <4> QED
        BY <4>2, <4>3, Zenon
    <3> QED
      BY <3>2, <3>4, Zenon
<1>9. ASSUME NEW i \in 1..n
      PROVE  /\ new[i] = new[i - 1] + Len(Applied(q, tasks[q][i]))
             /\ SubSeq(all, new[i - 1] + 1, new[i]) = Applied(q, tasks[q][i])
  <2>1. CASE i = n
    <3>1. n - 1 \in 0..(n - 1)
      BY <1>1
    <3>2. new[n] = Len(all) /\ new[n - 1] = cut[n - 1] /\ cut[n - 1] = Len(old)
      BY <1>6, <1>8, <3>1, Zenon
    <3>3. SubSeq(all, Len(old) + 1, Len(all)) = part
      BY <1>4, <1>5, Followed
    <3> QED
      BY <1>3, <1>5, <2>1, <3>2, <3>3
  <2>2. CASE i # n
    <3>1. i \in 1..(n - 1) /\ i \in 0..(n - 1) /\ i - 1 \in 0..(n - 1)
      BY <1>1, <2>2
    <3>2. new[i] = cut[i] /\ new[i - 1] = cut[i - 1] /\ cut[i] \in 0..Len(old) /\ cut[i - 1] \in 0..Len(old)
      BY <1>6, <1>8, <3>1, Zenon
    <3>3. SubSeq(all, cut[i - 1] + 1, cut[i]) = SubSeq(old, cut[i - 1] + 1, cut[i])
      <4>1. PICK a \in 0..Len(old) : a = cut[i - 1]
        BY <3>2
      <4>2. PICK b \in 0..Len(old) : b = cut[i]
        BY <3>2
      <4>3. SubSeq(old \o part, a + 1, b) = SubSeq(old, a + 1, b)
        BY Within, Zenon
      <4> QED
        BY <1>4, <4>1, <4>2, <4>3, Zenon
    <3> QED
      BY <1>6, <3>1, <3>2, <3>3, Zenon
  <2> QED
    BY <2>1, <2>2
<1>10. EndsWithFolded(q)'
  <2>1. next'[q] - 1 = n
    BY <1>5
  <2>2. /\ new \in [0..(next'[q] - 1) -> 0..Len(payload'[q])]
        /\ new[next'[q] - 1] = Len(payload'[q])
    BY <1>5, <1>8, <2>1
  <2>3. ASSUME NEW i \in 1..(next'[q] - 1)
        PROVE  /\ new[i] = new[i - 1] + Len(Applied(q, tasks[q][i])')
               /\ SubSeq(payload'[q], new[i - 1] + 1, new[i]) = Applied(q, tasks[q][i])'
    <3>1. Applied(q, tasks[q][i])' = Applied(q, tasks[q][i])
      BY <1>7
    <3>2. i \in 1..n
      BY <2>1
    <3> QED
      BY <1>5, <1>9, <3>1, <3>2, Zenon
  <2> QED
    BY <2>2, <2>3, Zenon DEF EndsWithFolded
<1>11. \A i \in 1..((n + 1) - 1) : Over(tasks[q][i])
  <2>1. ASSUME NEW i \in 1..((n + 1) - 1) PROVE i = n \/ i \in 1..(n - 1)
    OBVIOUS
  <2>2. \A i \in 1..(n - 1) : Over(tasks[q][i])
    BY <1>1, Zenon DEF Ordered
  <2>3. Over(tasks[q][n])
    BY <1>1
  <2> QED
    BY <2>1, <2>2, <2>3, Zenon
<1>12. \A i \in 1..(next'[q] - 1) : Over(tasks[q][i])'
  BY <1>5, <1>11, Zenon DEF Over
<1> QED
  BY <1>5, <1>10, <1>12 DEF Ordered
\* A step of the engine of another request.
LEMMA OthersOrdered ==
  ASSUME EnginesInv, plan' = plan, NEW q \in Requests, Ordered(q), at'[q] = at[q],
         next'[q] = next[q], payload'[q] = payload[q], tasks'[q] = tasks[q]
  PROVE  Ordered(q)'
<1>1. next[q] \in Nat
  BY DEF EnginesInv, Types
<1> QED
  BY <1>1, StillOrdered

LEMMA FoldOrdered ==
  ASSUME FoldInvariant, NEW q \in Requests, Fold(q), NEW p \in Requests
  PROVE  Ordered(p)'
<1> USE DEF FoldInvariant, EnginesInv
<1> DEFINE res == tasks[q][next[q]]
<1>1. plan' = plan /\ tasks' = tasks
  BY DEF Fold
<1>2. payload' = [payload EXCEPT ![q] = @ \o Applied(q, res)]
  BY DEF Fold, Mutate
<1>3. Foldable(q)
  BY DEF Fold
<1>4. next[q] \in Nat /\ next[q] >= 1 /\ next[q] <= Len(tasks[q]) /\ at[q].phase = "fold"
  BY <1>3 DEF Foldable, Placed, Types
<1>5. res \in TaskStates
  BY <1>4 DEF Types
<1>6. Applied(q, res) \in Seq(Mutations)
  BY <1>5, AppliedIsSequence
<1>7. payload'[q] = payload[q] \o Applied(q, res) /\ (p # q => payload'[p] = payload[p])
  BY <1>2 DEF Types
<1>8. CASE p # q
  <2>1. at'[p] = at[p] /\ next'[p] = next[p]
    <3>1. CASE Rejects(q, res)
      BY <1>8, <3>1 DEF Fold, Types
    <3>2. CASE ~ Rejects(q, res)
      BY <1>8, <3>2 DEF Fold, Types
    <3> QED
      BY <3>1, <3>2
  <2> QED
    BY <1>1, <1>7, <1>8, <2>1, OthersOrdered
<1>9. CASE p = q /\ Rejects(q, res)
  <2>1. at' = [at EXCEPT ![q].phase = "rejected"] /\ next' = next
    BY <1>9 DEF Fold
  <2>2. at'[q].stage = at[q].stage /\ at'[q].phase = "rejected"
    BY <2>1 DEF Types
  <2>3. Applied(q, res) = <<>>
    BY <1>9 DEF Applied
  <2>4. payload[q] \in Seq(Mutations)
    BY DEF Ordered
  <2>5. payload'[q] = payload[q]
    BY <1>7, <2>3, <2>4
  <2> QED
    BY <1>1, <1>4, <1>9, <2>1, <2>2, <2>5, StillOrdered
<1>10. CASE p = q /\ ~ Rejects(q, res)
  <2>1. at' = at /\ next' = [next EXCEPT ![q] = @ + 1]
    BY <1>10 DEF Fold
  <2>2. next'[q] = next[q] + 1 /\ at'[q] = at[q]
    BY <2>1 DEF Types
  <2>3. Over(res)
    BY <1>3 DEF Foldable
  <2> QED
    BY <1>1, <1>4, <1>6, <1>7, <1>10, <2>2, <2>3, OneMore, Zenon
<1> QED
  BY <1>8, <1>9, <1>10

LEMMA FinishOrdered ==
  ASSUME FoldInvariant, NEW q \in Requests, NEW i \in DOMAIN tasks[q], Finish(q, i), NEW p \in Requests
  PROVE  Ordered(p)'
<1> USE DEF FoldInvariant, EnginesInv
<1>1. UNCHANGED <<plan, at, next, payload>> /\ tasks[q][i] = Running
  BY DEF Finish
<1>2. PICK res : tasks' = [tasks EXCEPT ![q][i] = res]
  BY Zenon DEF Finish
<1>3. CASE p # q
  <2>1. tasks'[p] = tasks[p]
    BY <1>2, <1>3 DEF Types
  <2> QED
    BY <1>1, <2>1, OthersOrdered
<1>4. CASE p = q
  <2>1. next[q] \in Nat /\ next[q] <= Len(tasks[q]) + 1
    BY DEF Types, Placed
  <2>2. ASSUME NEW j \in 1..(next[q] - 1) PROVE tasks'[q][j] = tasks[q][j]
    <3>1. Over(tasks[q][j])
      BY DEF Ordered
    <3>2. j # i
      BY <1>1, <3>1 DEF Over, Running
    <3>3. j \in DOMAIN tasks[q]
      BY <2>1 DEF Types
    <3> QED
      BY <1>2, <3>2, <3>3 DEF Types
  <2> QED
    BY <1>1, <1>4, <2>1, <2>2, StillOrdered
<1> QED
  BY <1>3, <1>4
\* The other steps of the engine: what is spawned comes after what is folded,
\* and a group that is left leaves nothing folded behind.
LEMMA EngineOrdered ==
  ASSUME FoldInvariant, NEW q \in Requests, Engine(q), NEW p \in Requests
  PROVE  Ordered(p)'
<1> USE DEF FoldInvariant, EnginesInv
<1>0. Ordered(p) /\ payload[p] \in Seq(Mutations) /\ next[p] \in Nat
  BY DEF Ordered, Types
<1>1. CASE Spawn(q)
  <2>1. UNCHANGED <<plan, at, next, payload>> /\ at[q].phase = "spawn"
    BY <1>1 DEF Spawn
  <2>2. CASE p = q
    <3>1. next[q] = 1
      BY <2>1 DEF Ordered
    <3>2. 1..(next[q] - 1) = {}
      BY <3>1
    <3> QED
      BY <1>0, <2>1, <2>2, <3>2, StillOrdered
  <2>3. CASE p # q
    BY <1>1, <2>1, <2>3, <1>0, OthersOrdered DEF Spawn, Types
  <2> QED
    BY <2>2, <2>3
<1>2. CASE SpawnDone(q)
  <2>1. UNCHANGED <<plan, tasks, next, payload>> /\ at[q].phase = "spawn" /\ at' = [at EXCEPT ![q].phase = "fold"]
    BY <1>2 DEF SpawnDone
  <2>2. CASE p = q
    <3>1. next'[q] = 1 /\ payload'[q] \in Seq(Mutations)
      BY <1>0, <2>1, <2>2 DEF Ordered
    <3> QED
      BY <2>2, <3>1, NothingFoldedNext
  <2>3. CASE p # q
    BY <2>1, <2>3, <1>0, OthersOrdered DEF Types
  <2> QED
    BY <2>2, <2>3
<1>3. CASE Fold(q)
  BY <1>3, FoldOrdered
<1>4. CASE GroupDone(q)
  <2>1. plan' = plan /\ tasks' = [tasks EXCEPT ![q] = <<>>] /\ next' = [next EXCEPT ![q] = 1]
        /\ (payload' = payload \/ payload' = [payload EXCEPT ![q] = <<>>])
    BY <1>4 DEF GroupDone, ClearTasks, NewCall
  <2>2. CASE p = q
    <3>1. next'[q] = 1 /\ <<>> \in Seq(Mutations)
      BY <2>1 DEF Types
    <3>2. payload'[q] = payload[q] \/ payload'[q] = <<>>
      BY <2>1 DEF Types
    <3> QED
      BY <1>0, <2>2, <3>1, <3>2, NothingFoldedNext
  <2>3. CASE p # q
    <3>1. at'[p] = at[p] /\ tasks'[p] = tasks[p] /\ next'[p] = next[p] /\ payload'[p] = payload[p]
      BY <1>4, <2>1, <2>3 DEF GroupDone, Types
    <3> QED
      BY <1>0, <2>1, <3>1, OthersOrdered
  <2> QED
    BY <2>2, <2>3
<1>5. CASE SkipStage(q)
  <2>1. UNCHANGED <<plan, payload, next, tasks>> /\ at[q].phase = "spawn" /\ at' = [at EXCEPT ![q] = AfterStage(q)]
    BY <1>5 DEF SkipStage
  <2>2. CASE p = q
    <3>1. next'[q] = 1 /\ payload'[q] \in Seq(Mutations)
      BY <1>0, <2>1, <2>2 DEF Ordered
    <3> QED
      BY <2>2, <3>1, NothingFoldedNext
  <2>3. CASE p # q
    BY <2>1, <2>3, <1>0, OthersOrdered DEF Types
  <2> QED
    BY <2>2, <2>3
<1>6. CASE Resume(q)
  <2>1. plan' = plan /\ tasks' = [tasks EXCEPT ![q] = <<>>] /\ next' = [next EXCEPT ![q] = 1]
        /\ payload' = [payload EXCEPT ![q] = <<>>]
    BY <1>6 DEF Resume, ClearTasks, NewCall
  <2>2. CASE p = q
    <3>1. next'[q] = 1 /\ payload'[q] \in Seq(Mutations)
      BY <2>1 DEF Types
    <3> QED
      BY <2>2, <3>1, NothingFoldedNext
  <2>3. CASE p # q
    <3>1. at'[p] = at[p] /\ tasks'[p] = tasks[p] /\ next'[p] = next[p] /\ payload'[p] = payload[p]
      BY <1>6, <2>1, <2>3 DEF Resume, Types
    <3> QED
      BY <1>0, <2>1, <3>1, OthersOrdered
  <2> QED
    BY <2>2, <2>3
<1> QED
  BY <1>1, <1>2, <1>3, <1>4, <1>5, <1>6 DEF Engine

\* executor.rs: mutations are folded in declaration order, whatever the order
\* in which the hooks of a group finish.
THEOREM FoldsInOrder == Spec => []FoldIsInDeclarationOrder
<1>1. Init => FoldInvariant
  <2> SUFFICES ASSUME Init PROVE FoldInvariant
    OBVIOUS
  <2>1. \A q \in Requests : next[q] = 1 /\ payload[q] \in Seq(Mutations)
    BY DEF Init
  <2> QED
    BY <2>1, InitInv, NothingFolded DEF FoldInvariant
<1>2. FoldInvariant /\ [Next]_vars => FoldInvariant'
  <2> SUFFICES ASSUME FoldInvariant, [Next]_vars PROVE FoldInvariant'
    OBVIOUS
  <2>1. EnginesInv'
    BY NextInv DEF FoldInvariant
  <2>2. ASSUME NEW p \in Requests PROVE Ordered(p)'
    <3>1. ASSUME NEW q \in Requests, Engine(q) PROVE Ordered(p)'
      BY <3>1, EngineOrdered
    <3>2. ASSUME NEW q \in Requests, NEW i \in DOMAIN tasks[q], Finish(q, i) PROVE Ordered(p)'
      BY <3>2, FinishOrdered
    <3>3. CASE UNCHANGED vars
      <4>1. Ordered(p)
        BY DEF FoldInvariant
      <4> QED
        BY <3>3, <4>1, OthersOrdered DEF vars, FoldInvariant
    <3> QED
      BY <3>1, <3>2, <3>3 DEF Next, Ended
  <2> QED
    BY <2>1, <2>2 DEF FoldInvariant
<1>3. FoldInvariant => FoldIsInDeclarationOrder
  BY DEF FoldInvariant, Ordered, FoldIsInDeclarationOrder
<1> QED
  BY <1>1, <1>2, <1>3, PTL DEF Spec
-----------------------------------------------------------------------------
Counters == [ok : Nat, err : Nat, late : Nat]

\* The counters of a call keep up with its folds.  A group is folded only once
\* all of its hooks are spawned, so that the next group starts with a count for
\* every hook of this one.
Counted(q) ==
    /\ at[q].phase = "spawn" => next[q] = 1
    /\ at[q].phase = "fold" => HasPlan(q) /\ Len(tasks[q]) = Len(GroupOf(q))
    /\ ~ Shared /\ at[q].phase # "done" /\ HasPlan(q) =>
          /\ IsFiniteSet(FoldedHooks(q))
          /\ summary[q].ok + summary[q].err + summary[q].late >= Cardinality(FoldedHooks(q))

CountInvariant ==
    /\ EnginesInv /\ summary \in [Requests -> Counters]
    /\ \A q \in Requests : Counted(q)

\* A call that starts has folded nothing.
LEMMA NoneFolded ==
  ASSUME NEW q \in Requests, at[q].group = 1, next[q] = 1
  PROVE  FoldedHooks(q) = {}
  BY DEF FoldedHooks

LEMMA NoneFoldedNext ==
  ASSUME NEW q \in Requests, at'[q].group = 1, next'[q] = 1
  PROVE  FoldedHooks(q)' = {}
  BY DEF FoldedHooks

\* A request that a step leaves alone.
LEMMA StillCounted ==
  ASSUME plan' = plan, NEW q \in Requests, Counted(q), at'[q] = at[q],
         next'[q] = next[q], Len(tasks'[q]) = Len(tasks[q]), summary'[q] = summary[q]
  PROVE  Counted(q)'
<1>1. FoldedHooks(q)' = FoldedHooks(q)
  BY DEF FoldedHooks, StageOf
<1> QED
  BY <1>1 DEF Counted, Shared, HasPlan, GroupOf, StageOf

LEMMA FreshlyCounted ==
  ASSUME NEW q \in Requests, summary'[q] \in Counters, at'[q].phase # "fold", next'[q] = 1,
         at'[q].phase = "done" \/ at'[q].group = 1
  PROVE  Counted(q)'
<1>1. at'[q].phase # "done" => FoldedHooks(q)' = {}
  BY NoneFoldedNext
<1>2. IsFiniteSet({}) /\ Cardinality({}) = 0
  BY FS_EmptySet
<1>3. summary'[q].ok + summary'[q].err + summary'[q].late >= 0
  BY DEF Counters
<1> QED
  BY <1>1, <1>2, <1>3 DEF Counted

\* Every result that does not reject has at least one count of its own.
Total(c) == c.ok + c.err + c.late

LEMMA CountGrows ==
  ASSUME NEW q \in Requests, summary[q] \in Counters, NEW res
  PROVE  /\ Count(q, res) \in Counters
         /\ Total(Count(q, res)) >= Total(summary[q])
         /\ ~ Rejects(q, res) => Total(Count(q, res)) >= Total(summary[q]) + 1
<1>1. ~ Rejects(q, res) => Verdict(q, res) \in {"ok", "err", "late"}
  BY DEF Verdict
<1>2. Reported(res) \in Nat
  BY DEF Reported
<1>3. DOMAIN NoCounts = {"ok", "err", "late"}
  BY DEF NoCounts
<1>4. summary[q]["ok"] \in Nat /\ summary[q]["err"] \in Nat /\ summary[q]["late"] \in Nat
  BY DEF Counters
<1> DEFINE inc(c) == IF c = Verdict(q, res) THEN 1 ELSE 0
<1>5. Count(q, res) = [c \in {"ok", "err", "late"} |->
          summary[q][c] + inc(c) + (IF c = "err" THEN Reported(res) ELSE 0)]
  BY <1>3 DEF Count
<1>6. inc("ok") \in Nat /\ inc("err") \in Nat /\ inc("late") \in Nat
  OBVIOUS
<1>7. ~ Rejects(q, res) => inc("ok") + inc("err") + inc("late") >= 1
  BY <1>1
<1> HIDE DEF inc
<1>8. /\ Count(q, res).ok = summary[q].ok + inc("ok")
      /\ Count(q, res).err = summary[q].err + inc("err") + Reported(res)
      /\ Count(q, res).late = summary[q].late + inc("late")
  BY <1>2, <1>4, <1>5, <1>6
<1>9. Count(q, res) \in Counters
  BY <1>2, <1>4, <1>5, <1>6 DEF Counters
<1> QED
  BY <1>2, <1>4, <1>6, <1>7, <1>8, <1>9 DEF Total

LEMMA FoldCounted ==
  ASSUME CountInvariant, NEW q \in Requests, Fold(q)
  PROVE  summary' \in [Requests -> Counters] /\ \A p \in Requests : Counted(p)'
<1> USE DEF CountInvariant, EnginesInv
<1> DEFINE res == tasks[q][next[q]]
<1>1. plan' = plan /\ tasks' = tasks /\ at[q].phase = "fold" /\ next[q] <= Len(tasks[q])
  BY DEF Fold, Foldable
<1>2. summary' = (IF Shared THEN summary ELSE [summary EXCEPT ![q] = Count(q, res)])
  BY DEF Fold
<1>3. /\ Count(q, res) \in Counters
      /\ Total(Count(q, res)) >= Total(summary[q])
      /\ ~ Rejects(q, res) => Total(Count(q, res)) >= Total(summary[q]) + 1
  BY CountGrows
<1>4. summary' \in [Requests -> Counters] /\ (~ Shared => summary'[q] = Count(q, res))
  BY <1>2, <1>3
<1>5. Shared' = Shared
  BY <1>1 DEF Shared
<1>6. ASSUME NEW p \in Requests, p # q PROVE Counted(p)'
  <2>1. at'[p] = at[p] /\ next'[p] = next[p] /\ summary'[p] = summary[p]
    BY <1>2, <1>6 DEF Fold, Types
  <2> QED
    BY <1>1, <2>1, StillCounted
<1>7. HasPlan(q) /\ Len(tasks[q]) = Len(GroupOf(q)) /\ next[q] \in Nat /\ at[q].group \in Nat /\ next[q] >= 1
  BY <1>1 DEF Counted, Types, Placed
<1>8. ~ Shared => IsFiniteSet(FoldedHooks(q)) /\ Total(summary[q]) >= Cardinality(FoldedHooks(q))
                  /\ Cardinality(FoldedHooks(q)) \in Nat
  BY <1>1, <1>7, FS_CardinalityType DEF Counted, Total
<1>9. Total(summary[q]) \in Nat /\ Total(Count(q, res)) \in Nat
  BY <1>3 DEF Total, Counters
<1>10. CASE Rejects(q, res)
  <2>1. at' = [at EXCEPT ![q].phase = "rejected"] /\ next' = next
    BY <1>10 DEF Fold
  <2>2. at'[q].stage = at[q].stage /\ at'[q].group = at[q].group /\ at'[q].phase = "rejected"
    BY <2>1 DEF Types
  <2>3. FoldedHooks(q)' = FoldedHooks(q)
    BY <1>1, <2>1, <2>2 DEF FoldedHooks, StageOf
  <2>4. ~ Shared => Total(summary'[q]) >= Cardinality(FoldedHooks(q))
    BY <1>3, <1>4, <1>8, <1>9
  <2>5. Counted(q)'
    BY <1>5, <1>8, <2>2, <2>3, <2>4 DEF Counted, Total
  <2> QED
    BY <1>4, <1>6, <2>5
<1>11. CASE ~ Rejects(q, res)
  <2>1. at' = at /\ next' = [next EXCEPT ![q] = @ + 1]
    BY <1>11 DEF Fold
  <2>2. at'[q] = at[q] /\ next'[q] = next[q] + 1
    BY <2>1 DEF Types
  <2>3. FoldedHooks(q)' \subseteq FoldedHooks(q) \cup {<<at[q].group, next[q]>>}
    BY <1>1, <1>7, <2>2 DEF FoldedHooks, StageOf
  <2>4. ~ Shared => /\ IsFiniteSet(FoldedHooks(q)')
                    /\ Cardinality(FoldedHooks(q)') <= Cardinality(FoldedHooks(q)) + 1
    <3>1. SUFFICES ASSUME ~ Shared
                   PROVE  /\ IsFiniteSet(FoldedHooks(q)')
                          /\ Cardinality(FoldedHooks(q)') <= Cardinality(FoldedHooks(q)) + 1
      OBVIOUS
    <3>2. PICK A : A = FoldedHooks(q)
      OBVIOUS
    <3>3. PICK B : B = A \cup {<<at[q].group, next[q]>>}
      OBVIOUS
    <3>4. IsFiniteSet(B) /\ Cardinality(B) \in {Cardinality(A), Cardinality(A) + 1} /\ Cardinality(A) \in Nat
      BY <1>8, <3>1, <3>2, <3>3, FS_AddElement
    <3>5. IsFiniteSet(FoldedHooks(q)') /\ Cardinality(FoldedHooks(q)') <= Cardinality(B)
      BY <2>3, <3>2, <3>3, <3>4, FS_Subset
    <3>6. Cardinality(FoldedHooks(q)') \in Nat
      BY <3>5, FS_CardinalityType
    <3> QED
      BY <3>2, <3>4, <3>5, <3>6
  <2>5. ~ Shared => Cardinality(FoldedHooks(q)') \in Nat
    BY <2>4, FS_CardinalityType
  <2>6. ~ Shared => Total(summary'[q]) >= Cardinality(FoldedHooks(q)')
    BY <1>3, <1>4, <1>8, <1>9, <1>11, <2>4, <2>5
  <2>7. GroupOf(q)' = GroupOf(q) /\ HasPlan(q)'
    BY <1>1, <1>7, <2>2 DEF GroupOf, StageOf, HasPlan
  <2>8. Counted(q)'
    BY <1>1, <1>5, <1>7, <2>2, <2>4, <2>6, <2>7 DEF Counted, Total
  <2> QED
    BY <1>4, <1>6, <2>8
<1> QED
  BY <1>10, <1>11

\* A group that is left is folded to its end: its hooks count as folded for the
\* group after it.
LEMMA GroupDoneCounted ==
  ASSUME CountInvariant, NEW q \in Requests, GroupDone(q)
  PROVE  summary' \in [Requests -> Counters] /\ \A p \in Requests : Counted(p)'
<1> USE DEF CountInvariant, EnginesInv
<1>1. /\ plan' = plan /\ tasks' = [tasks EXCEPT ![q] = <<>>] /\ next' = [next EXCEPT ![q] = 1]
      /\ at[q].phase = "fold" /\ next[q] > Len(tasks[q])
  BY DEF GroupDone, ClearTasks, Folded
<1>2. summary' = summary \/ summary' = [summary EXCEPT ![q] = NoCounts]
  BY DEF GroupDone, NewCall
<1>3. NoCounts \in Counters
  BY DEF NoCounts, Counters
<1>4. summary' \in [Requests -> Counters]
  BY <1>2, <1>3
<1>5. ASSUME NEW p \in Requests, p # q PROVE Counted(p)'
  <2>1. at'[p] = at[p]
    BY <1>5 DEF GroupDone, Types
  <2>2. next'[p] = next[p] /\ tasks'[p] = tasks[p] /\ summary'[p] = summary[p]
    BY <1>1, <1>2, <1>5 DEF Types
  <2> QED
    BY <1>1, <2>1, <2>2, StillCounted
<1>6. HasPlan(q) /\ Len(tasks[q]) = Len(GroupOf(q)) /\ next[q] = Len(tasks[q]) + 1
  BY <1>1 DEF Counted, Types, Placed
<1>7. at[q].group \in Nat /\ at[q].stage \in Nat /\ next'[q] = 1
  BY <1>1 DEF Types
<1>8. CASE at[q].group < Len(StageOf(q).groups)
  <2>1. at' = [at EXCEPT ![q] = [stage |-> @.stage, group |-> @.group + 1, phase |-> "spawn"]] /\ summary' = summary
    BY <1>8 DEF GroupDone
  <2>2. at'[q].stage = at[q].stage /\ at'[q].group = at[q].group + 1 /\ at'[q].phase = "spawn"
    BY <2>1 DEF Types
  <2>3. StageOf(q)' = StageOf(q)
    BY <1>1, <2>2 DEF StageOf
  <2>4. FoldedHooks(q)' = FoldedHooks(q)
    <3> DEFINE n == at[q].group
               Len1(g) == IF g = n THEN next[q] - 1 ELSE Len(StageOf(q).groups[g])
               Len2(g) == IF g = n + 1 THEN 0 ELSE Len(StageOf(q).groups[g])
    <3>1. FoldedHooks(q) = UNION {{g} \X (1..Len1(g)) : g \in 1..n}
      BY DEF FoldedHooks
    <3>2. FoldedHooks(q)' = UNION {{g} \X (1..Len2(g)) : g \in 1..(n + 1)}
      BY <1>7, <2>2, <2>3 DEF FoldedHooks
    <3>3. \A g \in 1..n : Len1(g) = Len2(g)
      BY <1>6, <1>7 DEF GroupOf
    <3>4. 1..Len2(n + 1) = {} /\ 1..(n + 1) = (1..n) \cup {n + 1}
      BY <1>7
    <3> HIDE DEF Len1, Len2, n
    <3> QED
      BY <3>1, <3>2, <3>3, <3>4
  <2>5. Counted(q)'
    BY <1>1, <1>6, <1>7, <2>1, <2>2, <2>3, <2>4 DEF Counted, HasPlan, Shared
  <2> QED
    BY <1>4, <1>5, <2>5
<1>9. CASE ~ (at[q].group < Len(StageOf(q).groups))
  <2>1. at' = [at EXCEPT ![q] = AfterStage(q)]
    BY <1>9 DEF GroupDone
  <2>2. at'[q].phase # "fold" /\ (at'[q].phase = "done" \/ at'[q].group = 1)
    BY <2>1 DEF AfterStage, Types
  <2>3. Counted(q)'
    BY <1>4, <1>7, <2>2, FreshlyCounted
  <2> QED
    BY <1>4, <1>5, <2>3
<1> QED
  BY <1>8, <1>9

LEMMA EngineCounted ==
  ASSUME CountInvariant, NEW q \in Requests, Engine(q)
  PROVE  summary' \in [Requests -> Counters] /\ \A p \in Requests : Counted(p)'
<1> USE DEF CountInvariant, EnginesInv
<1>1. CASE Spawn(q)
  <2>1. UNCHANGED <<plan, at, next, summary>> /\ at[q].phase = "spawn" /\ tasks' = [tasks EXCEPT ![q] = Append(@, Running)]
    BY <1>1 DEF Spawn
  <2>2. FoldedHooks(q)' = FoldedHooks(q)
    BY <2>1 DEF FoldedHooks, StageOf
  <2>3. Counted(q)'
    BY <2>1, <2>2 DEF Counted, Shared, HasPlan, StageOf
  <2>4. ASSUME NEW p \in Requests, p # q PROVE Counted(p)'
    BY <2>1, <2>4, StillCounted DEF Types
  <2> QED
    BY <2>1, <2>3, <2>4
<1>2. CASE SpawnDone(q)
  <2>1. /\ UNCHANGED <<plan, tasks, next, summary>> /\ at[q].phase = "spawn"
        /\ HasPlan(q) /\ Len(tasks[q]) = Len(GroupOf(q))
        /\ at' = [at EXCEPT ![q].phase = "fold"]
    BY <1>2 DEF SpawnDone
  <2>2. at'[q].stage = at[q].stage /\ at'[q].group = at[q].group /\ at'[q].phase = "fold"
    BY <2>1 DEF Types
  <2>3. FoldedHooks(q)' = FoldedHooks(q)
    BY <2>1, <2>2 DEF FoldedHooks, StageOf
  <2>4. Counted(q)'
    BY <2>1, <2>2, <2>3 DEF Counted, Shared, HasPlan, StageOf, GroupOf
  <2>5. ASSUME NEW p \in Requests, p # q PROVE Counted(p)'
    BY <2>1, <2>5, StillCounted DEF Types
  <2> QED
    BY <2>1, <2>4, <2>5
<1>3. CASE SkipStage(q)
  <2>1. UNCHANGED <<plan, tasks, next, summary>> /\ at[q].phase = "spawn" /\ at' = [at EXCEPT ![q] = AfterStage(q)]
    BY <1>3 DEF SkipStage
  <2>2. at'[q].phase # "fold" /\ (at'[q].phase = "done" \/ at'[q].group = 1)
    BY <2>1 DEF AfterStage, Types
  <2>3. Counted(q)'
    BY <2>1, <2>2, FreshlyCounted DEF Counted
  <2>4. ASSUME NEW p \in Requests, p # q PROVE Counted(p)'
    BY <2>1, <2>4, StillCounted DEF Types
  <2> QED
    BY <2>1, <2>3, <2>4
<1>4. CASE Resume(q)
  <2>1. /\ plan' = plan /\ tasks' = [tasks EXCEPT ![q] = <<>>] /\ next' = [next EXCEPT ![q] = 1]
        /\ summary' = [summary EXCEPT ![q] = NoCounts]
    BY <1>4 DEF Resume, ClearTasks, NewCall
  <2>2. at'[q].phase = "spawn" /\ at'[q].group = 1 /\ next'[q] = 1
    BY <1>4 DEF Resume, Types
  <2>3. NoCounts \in Counters
    BY DEF NoCounts, Counters
  <2>4. summary' \in [Requests -> Counters] /\ summary'[q] \in Counters
    BY <2>1, <2>3
  <2>5. Counted(q)'
    BY <2>2, <2>4, FreshlyCounted
  <2>6. ASSUME NEW p \in Requests, p # q PROVE Counted(p)'
    <3>1. at'[p] = at[p] /\ next'[p] = next[p] /\ tasks'[p] = tasks[p] /\ summary'[p] = summary[p]
      BY <1>4, <2>1, <2>6 DEF Resume, Types
    <3> QED
      BY <2>1, <3>1, StillCounted
  <2> QED
    BY <2>4, <2>5, <2>6
<1> QED
  BY <1>1, <1>2, <1>3, <1>4, FoldCounted, GroupDoneCounted DEF Engine

\* The library's summary misses no hook, for every plan, however its hooks end.
THEOREM HooksAreCounted == Spec => []EveryHookIsCounted
<1>1. Init => CountInvariant
  <2> SUFFICES ASSUME Init PROVE CountInvariant
    OBVIOUS
  <2>1. summary \in [Requests -> Counters]
    BY DEF Init, NoCounts, Counters
  <2>2. ASSUME NEW q \in Requests PROVE Counted(q)
    <3>1. at[q].group = 1 /\ at[q].phase = "spawn" /\ next[q] = 1
      BY DEF Init
    <3>2. FoldedHooks(q) = {} /\ IsFiniteSet({}) /\ Cardinality({}) = 0
      BY <3>1, NoneFolded, FS_EmptySet
    <3>3. summary[q].ok + summary[q].err + summary[q].late >= 0
      BY <2>1 DEF Counters
    <3> QED
      BY <3>1, <3>2, <3>3 DEF Counted
  <2> QED
    BY <2>1, <2>2, InitInv DEF CountInvariant
<1>2. CountInvariant /\ [Next]_vars => CountInvariant'
  <2> SUFFICES ASSUME CountInvariant, [Next]_vars PROVE CountInvariant'
    OBVIOUS
  <2>1. EnginesInv'
    BY NextInv DEF CountInvariant
  <2>2. ASSUME NEW q \in Requests, Engine(q) PROVE CountInvariant'
    BY <2>1, <2>2, EngineCounted DEF CountInvariant
  <2>3. ASSUME NEW q \in Requests, NEW i \in DOMAIN tasks[q], Finish(q, i) PROVE CountInvariant'
    <3>1. UNCHANGED <<plan, at, next, summary>>
      BY <2>3 DEF Finish
    <3>2. Len(tasks'[q]) = Len(tasks[q])
      BY <2>3, FinishInv DEF CountInvariant
    <3>3. \A p \in Requests : Len(tasks'[p]) = Len(tasks[p])
      BY <2>3, <3>2 DEF Finish, CountInvariant, EnginesInv, Types
    <3> QED
      BY <2>1, <3>1, <3>3, StillCounted DEF CountInvariant
  <2>4. CASE UNCHANGED vars
    BY <2>1, <2>4, StillCounted DEF CountInvariant, vars
  <2> QED
    BY <2>2, <2>3, <2>4 DEF Next, Ended
<1>3. CountInvariant => EveryHookIsCounted
  BY DEF CountInvariant, Counted, EveryHookIsCounted
<1> QED
  BY <1>1, <1>2, <1>3, PTL DEF Spec
=============================================================================
