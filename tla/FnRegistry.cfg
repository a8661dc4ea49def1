SPECIFICATION Spec
CONSTANTS
  main = main
  f = f
  g = g
  h = h
  i32 = i32
  bool = bool
  ill = ill
  FnNames <- MCFnNames
  Main <- main
  Types <- MCTypes
  I32 <- i32
  Ill <- ill
  FN_REG_CAP = 3
  ARG_REGS = 2
  MaxArgs = 3
INVARIANTS
  RegistryTypeOK
  RegistryFaithful
  ArityChecked
SYMMETRY MCSymmetry
CHECK_DEADLOCK FALSE
