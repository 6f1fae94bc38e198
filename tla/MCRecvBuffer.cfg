CONSTANTS
  BufferSize = 8
  BufferCount = 10
  HeaderSize = 4
  MaxPacket = 7
  Frames <- Cycles
SPECIFICATION Spec
INVARIANTS
  CursorsOK
  RoomToReceive
  MoveDisjoint
  StreamIntact
  NothingWithheld
