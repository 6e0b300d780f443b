-------------------------- MODULE HookStagePromise --------------------------
(***************************************************************************)
(* What executing the plan of one hook stage promises its caller: the      *)
(* groups take effect one after the other, each adding the mutations of    *)
(* some of its hooks, each hook at most once and in some order; a          *)
(* rejection, where the stage supports it, ends the stage with the payload *)
(* of the groups before it.                                                *)
(***************************************************************************)
EXTENDS Naturals, Sequences, FiniteSets

CONSTANT Plan

VARIABLES rejectable, group, payload, returned, rejectErr

promiseVars == <<rejectable, group, payload, returned, rejectErr>>

PromiseInit == rejectable \in BOOLEAN /\ group = 1 /\ payload = <<>> /\ returned = FALSE /\ rejectErr = FALSE

\* The ways to list a set without repetition.
Orders(S) == {s \in [1..Cardinality(S) -> S] : \A x \in S : \E i \in DOMAIN s : s[i] = x}

GroupTakesEffect ==
  /\ ~returned /\ group <= Len(Plan)
  /\ \E S \in SUBSET Plan[group] : \E s \in Orders(S) : payload' = payload \o s
  /\ group' = group + 1
  /\ UNCHANGED <<rejectable, returned, rejectErr>>

StageRejects ==
  /\ ~returned /\ group <= Len(Plan)
  /\ rejectable
  /\ rejectErr' = TRUE /\ returned' = TRUE
  /\ UNCHANGED <<rejectable, group, payload>>

StageReturns ==
  /\ ~returned /\ group > Len(Plan)
  /\ returned' = TRUE
  /\ UNCHANGED <<rejectable, group, payload, rejectErr>>

PromiseNext == GroupTakesEffect \/ StageRejects \/ StageReturns

PromiseSpec == PromiseInit /\ [][PromiseNext]_promiseVars

=============================================================================
