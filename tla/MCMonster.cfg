CONSTANTS
  Players <- OnePlayer
  Visitors <- OneEach
  AttackTicks = 1
  CoolTicks = 0
  CastTicks = 1
  PatrolTicks = 1
SPECIFICATION Spec
INVARIANTS
  TypeOK
  AttackHasTarget
PROPERTIES
  CastEnds
  IdleEnds
  DeadTargetDropped
CHECK_DEADLOCK FALSE
