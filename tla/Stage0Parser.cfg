SPECIFICATION ParseSpec
CONSTANTS
  Sources <- MCSources
  ErrorCap = 3
INVARIANTS
  Stage0ParserTypeOK
  AcceptedReadsBack
  OperatorsBind
  GrammaticalIsAccepted
PROPERTY EndsOrStuckAtUnsafe
CHECK_DEADLOCK FALSE
