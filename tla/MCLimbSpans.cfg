CONSTANTS
  Base = 4
  LimbBits = 2
  Junk = Junk
  Inputs <- PortableInputs
  MaxChainLimbs = 13
  MaxRowLimbs = 14
  MaxDoubleLimbs = 9
  MaxShiftLimbs = 17
  MaxShiftOffset = 3
  ChainInputs <- PatternedChains
  RowInputs <- PatternedRows
  DoubleInputs <- PatternedDoubles
  FusedInputs <- FusedPatterns
SPECIFICATION CallSpec
INVARIANTS
  KernelsYieldColumns
  ChainsSound
  RowsSound
  DoubleRowsSound
  ShiftsSound
  FusedSound
CHECK_DEADLOCK FALSE
