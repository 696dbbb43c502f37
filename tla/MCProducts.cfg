CONSTANTS
  Shapes <- BlockedShapes
SPECIFICATION CallSpec
INVARIANTS
  WorkersApart
  SchoolbookSound
  KaratsubaSound
  TiersSound
  TruncatedSound
PROPERTIES
  BlockedReturns
CHECK_DEADLOCK FALSE
