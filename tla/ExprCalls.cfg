SPECIFICATION Spec
CONSTANTS
  ARG_REGS = 3
  MaxNodes = 7
INVARIANT CallsPassTheirArguments
CHECK_DEADLOCK FALSE
