CONSTANTS
  Sessions = {1, 2}
  Modes = {"All", "FormattingOnly", "ValidateOnly", "ValidateParallelOnly"}
  OtherModes = {"GcdOnly", "ProfileFor"}
  Stamps = {0, 1}
  Comparisons = 2
  MaxPending = 2
  MaxMishaps = 1
SPECIFICATION Spec
INVARIANT FilesSound
PROPERTY InstallsVetted
CHECK_DEADLOCK FALSE
