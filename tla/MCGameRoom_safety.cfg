CONSTANTS
  a = a
  b = b
  Clients = {a, b}
  InitMonsters <- OneMonster
  InitItems <- Nothing
  MaxHp = 2
  MaxObjects = 4
  SendErrors = TRUE
SPECIFICATION Spec
INVARIANTS
  TypeOK
  NoCorpse
  OnePlayer
  PickedOnce
  ViewAgrees
SYMMETRY Symmetry
CHECK_DEADLOCK FALSE
