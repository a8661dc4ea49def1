SPECIFICATION Spec
CONSTANTS
  AST_CAP = 15
  ArraySizes <- MCArraySizes
  MaxTokens = 6
INVARIANTS
  ParserTypeOK
  ChainsEnd
  TreeAsWritten
  AcceptedIsComplete
CHECK_DEADLOCK FALSE
