CONSTANTS
  a = a
  b = b
  Clients = {a, b}
  InitMonsters <- Nothing
  InitItems <- Nothing
  MaxHp = 1
  MaxObjects = 2
  SendErrors = TRUE
SPECIFICATION Spec
PROPERTY
  DisconnectedIsSaved
CHECK_DEADLOCK FALSE
