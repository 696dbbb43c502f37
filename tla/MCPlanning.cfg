CONSTANTS
  t1 = t1
  t2 = t2
  None = None
  Threads <- MCThreads
  RingWidths <- MCRingWidths
  PowersOfTwo <- MCPowersOfTwo
  SetOf <- MCSetOf
  Inner <- MCInner
  BaseBits = 2
  LimbBits = 2
  BaseLimbs = 3
  LevelLimbs <- MCLevelLimbs
  HalfWidth <- MCHalfWidth
  Rings <- MCRings
  Recursions <- MCRecursions
  Products <- MCProducts
  Ways = 2
  PlanSlots = 2
  WidthSlots = 1
SPECIFICATION RunSpec
INVARIANTS
  PlansExact
  PlannerSound
PROPERTIES
  CachesKeepLatest
CHECK_DEADLOCK FALSE
