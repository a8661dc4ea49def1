SPECIFICATION LexSpec
CONSTANT Texts <- MCTexts
INVARIANTS
  PositionExact
  IntegersAsWritten
PROPERTIES
  TapeSpec
  LexerEnds
CHECK_DEADLOCK FALSE
