SPECIFICATION Spec
CONSTANTS
  ARG_REGS = 3
  MaxNodes = 7
INVARIANTS
  ExprTypeOK
  CodeComputesValue
  InnermostCallsRight
CHECK_DEADLOCK FALSE
