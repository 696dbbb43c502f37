CONSTANTS
  r1 = r1
  r2 = r2
  OperandLimbs = 2
  WidestBits = 1
  Regs <- TwoRegisters
  Base = 2
  LimbBits = 1
  Widths = {}
  Inline = 1
  MaxLimbs = 3
  Operands <- StorageOperands
  Junk = Junk
SPECIFICATION SpecStorage
SYMMETRY Symmetry
INVARIANT Representation
PROPERTY StorageSteps
