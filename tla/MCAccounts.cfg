CONSTANTS
  a = a
  b = b
  kim = kim
  Sessions = {a, b}
  Names = {kim}
  ConnectionCount = 1
  MaxCharacters = 2
  MaxPending <- TwiceInLobby
SPECIFICATION Spec
INVARIANTS
  TypeOK
  CopyCurrent
  CountCoversRows
  SlotIsIndex
PROPERTY
  StoreSpec
SYMMETRY Symmetry
CHECK_DEADLOCK FALSE
