CONSTANTS
  r1 = r1
  r2 = r2
  OperandLimbs = 2
  WidestBits = 6
  Regs <- OneRegister
  Base = 4
  LimbBits = 2
  Widths <- ArithmeticWidths
  Inline = 1
  MaxLimbs = 3
  Operands <- ArithmeticOperands
  Junk = Junk
SPECIFICATION SpecArithmetic
VIEW MCView
INVARIANT Representation
PROPERTIES
  SumsExact
  AssignmentKeepsBuffer
  WrappingSound
