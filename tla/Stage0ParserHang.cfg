SPECIFICATION ParseSpec
CONSTANTS
  Sources <- MCShort
  ErrorCap = 3
PROPERTY ParserEnds
CHECK_DEADLOCK FALSE
