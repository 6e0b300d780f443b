SPECIFICATION FairSpec
CONSTANTS
  q1 = q1
  q2 = q2
  Requests = {q1, q2}
  Plans <- MCPlans
  Results <- MCResults
INVARIANTS
  FoldIsInDeclarationOrder
  EveryHookIsCounted
PROPERTIES
  RejectionIsFinal
  StagesEnd
