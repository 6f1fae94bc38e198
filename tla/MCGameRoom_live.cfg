CONSTANTS
  a = a
  b = b
  Clients = {a, b}
  InitMonsters <- OneMonster
  InitItems <- Nothing
  MaxHp = 1
  MaxObjects = 4
  SendErrors = FALSE
SPECIFICATION Spec
INVARIANT
  NoGhost
PROPERTIES
  RevivedOrCrashed
  LeaverIsRemoved
CHECK_DEADLOCK FALSE
