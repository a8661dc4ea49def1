SPECIFICATION MachineSpec
CONSTANTS
  Packages <- MCPackages
  Expressions <- MCExpressions
  Height <- MCHeight
  Largest <- MCLargest
  Regs <- MCRegs
  MaxErrors = 1
  Bits = 4
  Memory = 16
  Reserved <- MCReserved
INVARIANTS
  GenTypeOK
  
  UnwrittenOnlyIfKnown
  AssemblesUnlessKnown
  CapabilitiesRespected
  StackBalanced
PROPERTY RunsAsWritten
CHECK_DEADLOCK FALSE
