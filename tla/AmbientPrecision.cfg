CONSTANTS
  Threads = {t1, t2}
  UsizeMax = 3
  MaxDepth = 2
  MaxCatches = 1
SPECIFICATION FairSpec
INVARIANT ScopesHold
PROPERTIES
  ScopeIsolation
  ImplementsScopedPolicies
  UnwindingEnds
