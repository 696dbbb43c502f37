CONSTANTS
  Callers = {t1, t2}
  Libraries = {mp, ntt}
  None = None
  MaxWidth = 2
SPECIFICATION FairPools
INVARIANT PoolsSound
PROPERTIES
  CreatedFromOutside
  ResolutionsEnd
