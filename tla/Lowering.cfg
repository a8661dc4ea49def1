SPECIFICATION LowerSpec
CONSTANTS
  x = x
  y = y
  Names <- MCNames
  Types <- MCTypes
  SlotCount <- MCSlotCount
  FieldCount <- MCFieldCount
  SYM_CAP = 3
  SCOPE_CAP = 3
  MaxStmts = 6
INVARIANTS
  LowerTypeOK
  LiveSlotsDisjoint
  ResolvesLexically
  AccessesOwnSlots
  JumpsTargetInnermostLoop
  FlatTableFaithful
SYMMETRY MCSymmetry
CHECK_DEADLOCK FALSE
