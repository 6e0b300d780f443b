SPECIFICATION FairSpec
CONSTANTS
  h1 = h1
  h2 = h2
  h3 = h3
  m1 = m1
  m2 = m2
  Nothing = Nothing
  Hook = {h1, h2, h3}
  Mod = {m1, m2}
  ModuleOf <- OneHookPerModule
  Plan <- TwoGroups
INVARIANTS
  PayloadMatchesOutcomes
PROPERTIES
  KeepsPromise
  StageCompletes
