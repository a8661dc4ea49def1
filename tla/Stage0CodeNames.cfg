SPECIFICATION MachineSpec
CONSTANTS
  Packages <- MCClash
  Expressions <- MCExpressions
  Height <- MCHeight
  Largest <- MCLargest
  Regs <- MCRegs
  MaxErrors = 1
  Bits = 4
  Memory = 16
  Reserved <- MCReserved
INVARIANT AlwaysInitialized
CHECK_DEADLOCK FALSE
