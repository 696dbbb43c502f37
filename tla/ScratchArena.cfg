CONSTANTS
  Threads = {t1, t2}
  Handles = {h1, h2}
  Ids = {v1, v2, v3}
  None = None
  Sizes = {1, 2, 3, 5, 7}
  Lengths = {3, 7}
  BucketCount = 3
  DropThreshold = 2
  Lookahead = 1
  MaxPerBucket = 8
  LastFullBucket = 0
  LastQuarterBucket = 1
SPECIFICATION Spec
SYMMETRY Symmetry
INVARIANT ArenaShape
PROPERTIES
  ReuseDiscipline
  ImplementsBuffers
