SPECIFICATION CallSpec
INVARIANTS
  DivisionSound
  MontgomerySound
  InverseSound
  WindowsSound
  ResiduesSound
CHECK_DEADLOCK FALSE
