---------------------------- MODULE MCHookStage ----------------------------
(***************************************************************************)
(* Instances of HookStage: two groups, the first of two hooks.             *)
(***************************************************************************)
EXTENDS HookStage

CONSTANTS h1, h2, h3, m1, m2

TwoGroups == <<{h1, h2}, {h3}>>
OneGroup == <<{h1, h2}>>
\* Within a group the modules differ; m1 has a hook in each group.
OneHookPerModule == [h \in Hook |-> IF h = h2 THEN m2 ELSE m1]
\* Two hooks of one module in a group.
SameModule == [h \in Hook |-> m1]

=============================================================================
