---------------------------- MODULE MonsterProofs ----------------------------
(* Proofs about a monster, for any players, classes and timers.  In the    *)
(* state Attack it has a target, or had one until a worker took it:        *)
(* handlers overwrite the state behind the main thread's back, but none    *)
(* leaves it at Attack, and the target they take is remembered as Taken.   *)
EXTENDS Monster, WellFoundedInduction, TLAPS

(* The monster may fight: it has a target and is not on patrol.            *)
Engaged == target # NoTarget /\ (kind = "Monster" => ~isPatrol)

(* Where the main thread may bind or drop a target, or begin a patrol,     *)
(* though the state is not what it read.                                   *)
Calm == {"Idle", "Move", "Dead", "Casting", "reach", "strike"}

(* AttackHasTarget, strengthened: while the main thread is in the branch   *)
(* of another state the state is not Attack, but in the middle of          *)
(* C_MonsterMove; and it only looks whether it can attack, and strikes,    *)
(* when it is engaged.                                                     *)
IInv ==
  /\ state \in States
  /\ state = "Attack" /\ ~moved => Engaged
  /\ pc \in Calm => state # "Attack" \/ moved
  /\ pc \in {"reach", "strike"} => Engaged

(* Nobody fights initially.                                                *)
LEMMA InitHolds == Init => IInv
BY DEF Init, IInv, States, Calm

(* Update reads the state three times and writes none.                     *)
LEMMA ReadKeeps ==
  ASSUME IInv, Update \/ UpdatePatrolTime \/ UpdateController
  PROVE IInv'
<1>1. /\ UNCHANGED <<kind, state, target, isPatrol, moved>>
      /\ pc' \in {"update", "switch", state}
  BY Zenon DEF Update, UpdatePatrolTime, UpdateController, ai, timers
<1> QED BY <1>1 DEF IInv, Engaged, States, Calm

(* A branch that ends the tick in a state that is not Attack, or in the    *)
(* one it found.                                                           *)
LEMMA EndKeeps ==
  ASSUME IInv, pc \in Calm, pc' = "sleep", moved' = moved,
         state' \in {"Idle", "Move", "Casting", state}
  PROVE IInv'
BY DEF IInv, States, Calm

(* Being idle, walking, casting and being dead.                            *)
LEMMA TickKeeps ==
  ASSUME IInv, \/ UpdateIdle \/ Patrol \/ LoseTarget
               \/ UpdateCasting \/ UpdateDead
  PROVE IInv'
<1>1. pc \in Calm /\ pc' = "sleep" /\ moved' = moved
  BY Zenon DEF UpdateIdle, Patrol, LoseTarget, UpdateCasting, UpdateDead, Running, Calm
<1>2. state' \in {"Idle", "Move", state}
  <2>1. CASE UpdateIdle
    BY <2>1, SMT DEF UpdateIdle, SetState
  <2>2. CASE UpdateCasting
    BY <2>2, SMT DEF UpdateCasting, SetState
  <2>3. CASE Patrol \/ LoseTarget \/ UpdateDead
    BY <2>3, Zenon DEF Patrol, LoseTarget, UpdateDead, SetState
  <2> QED BY <2>1, <2>2, <2>3
<1> QED BY <1>1, <1>2, EndKeeps

(* No player's id is null's.                                               *)
LEMMA NullIsNobody == NoTarget \notin Players /\ Taken \notin Players
BY MonsterAssumption DEF NoTarget, Taken

(* Chase leaves the main thread engaged, Reach keeps it so until it        *)
(* strikes.                                                                *)
LEMMA ReachKeeps ==
  ASSUME IInv, Chase \/ Reach \/ Strike
  PROVE IInv'
<1>1. CASE Chase
  <2>1. /\ pc = "Move" /\ pc' = "reach" /\ state' = state
        /\ UNCHANGED <<target, isPatrol, kind, moved>>
    BY <1>1, Zenon DEF Chase, Running, ai
  <2>2. Engaged
    BY <1>1, NullIsNobody, Zenon DEF Chase, Engaged, InSight, TargetLost, OnPatrol
  <2> QED BY <2>1, <2>2 DEF IInv, Engaged, States, Calm
<1>2. CASE Reach
  <2>1. /\ pc = "reach" /\ UNCHANGED <<isPatrol, kind, moved>>
    BY <1>2, Zenon DEF Reach, Running
  <2>2. Engaged /\ pc \in Calm
    BY <2>1 DEF IInv, Calm
  <2>3. CASE CanAttack /\ pc' = "strike" /\ state' = state
    <3>1. target' = target
      BY <1>2, <2>3, Zenon DEF Reach, CanAttack
    <3> QED BY <2>1, <2>2, <2>3, <3>1 DEF IInv, Engaged, Calm
  <2>4. CASE pc' = "sleep" /\ state' \in {"Idle", "Casting", state}
    BY <2>1, <2>2, <2>4, EndKeeps
  <2> QED BY <1>2, <2>3, <2>4, Zenon DEF Reach, SetState, UseSkill
<1>3. CASE Strike
  <2>1. /\ pc = "strike" /\ pc' = "sleep" /\ state' = "Attack"
        /\ UNCHANGED <<target, isPatrol, kind, moved>>
    BY <1>3, Zenon DEF Strike, Running, SetState, ai
  <2> QED BY <2>1 DEF IInv, Engaged, States, Calm
<1> QED BY <1>1, <1>2, <1>3

(* Attacking.                                                              *)
LEMMA FightKeeps ==
  ASSUME IInv, UpdateAttack \/ StopAttack
  PROVE IInv'
<1>1. CASE UpdateAttack
  <2>1. /\ pc' = "sleep" /\ UNCHANGED <<target, isPatrol, kind, moved>>
        /\ state' \in {"Casting", state}
    BY <1>1, Zenon DEF UpdateAttack, Attack, SetState, UseSkill
  <2> QED BY <2>1 DEF IInv, Engaged, States, Calm
<1>2. CASE StopAttack
  <2>1. pc' = "sleep" /\ state' \in {"Idle", "Move"} /\ moved' = moved
    BY <1>2, SMT DEF StopAttack, SetState
  <2> QED BY <2>1 DEF IInv, States, Calm
<1> QED BY <1>1, <1>2

(* A step of a worker keeps the invariant if it does not leave the state   *)
(* at Attack, and takes the target only as Taken.                          *)
LEMMA OthersKeep ==
  ASSUME IInv,
         kind' = kind, pc' = pc, isPatrol' = isPatrol, target' \in {target, Taken},
         \/ state' \in {"Dead", "Idle"}
         \/ state' = state /\ moved' = moved
         \/ state' \in States /\ moved'
  PROVE IInv'
<1>1. Taken # NoTarget
  BY DEF Taken, NoTarget
<1> QED BY <1>1 DEF IInv, Engaged, States, Calm

(* Every step keeps the invariant.                                         *)
LEMMA NextKeeps == IInv /\ TypeOK /\ [Next]_vars => IInv'
<1> SUFFICES ASSUME IInv, TypeOK, [Next]_vars PROVE IInv'
  OBVIOUS
<1>1. CASE Main
  BY <1>1, ReadKeeps, TickKeeps, ReachKeeps, FightKeeps DEF Main
<1>2. CASE OnDead \/ Remove \/ SetIdle
  <2>1. UNCHANGED <<kind, pc, target, isPatrol>>
    BY <1>2, Zenon DEF OnDead, Remove, SetIdle, ai
  <2>2. state' \in {"Dead", "Idle"} \/ UNCHANGED <<state, moved>>
    BY <1>2, Zenon DEF OnDead, Remove, SetIdle, SetState
  <2> QED BY <2>1, <2>2, OthersKeep
<1>3. CASE HandleMonsterMoveByClient
  <2>1. UNCHANGED <<kind, pc, target, isPatrol>>
    BY <1>3, Zenon DEF HandleMonsterMoveByClient, ai
  <2>2. due \in States \cup {NoMove}
    BY DEF TypeOK
  <2>3. \/ state' = due /\ due # NoMove /\ moved'
        \/ state' = state /\ moved' = moved
    BY <1>3, Zenon DEF HandleMonsterMoveByClient
  <2> QED BY <2>1, <2>2, <2>3, OthersKeep
<1>4. ASSUME NEW p \in Players,
             \/ EnterPlayer(p) \/ HandleMove(p) \/ PlayerDies(p)
             \/ RemovePlayer(p) \/ UnBindKiller(p) \/ PlayerLeaves(p)
      PROVE IInv'
  <2>1. UNCHANGED <<kind, pc, isPatrol, state, moved>>
    BY <1>4, Zenon DEF EnterPlayer, HandleMove, PlayerDies, RemovePlayer, UnBindKiller,
       PlayerLeaves, ai
  <2>2. target' \in {target, Taken}
    <3>1. CASE UnBindKiller(p)
      BY <3>1, SMT DEF UnBindKiller
    <3> QED BY <1>4, <3>1, Zenon DEF EnterPlayer, HandleMove, PlayerDies, RemovePlayer,
              PlayerLeaves, ai
  <2> QED BY <2>1, <2>2, OthersKeep
<1>5. CASE UNCHANGED vars
  BY <1>5, OthersKeep DEF vars, ai
<1> QED BY <1>1, <1>2, <1>3, <1>4, <1>5 DEF Next

-----------------------------------------------------------------------------
(* Types.                                                                  *)

(* The variables of TypeOK in groups, so that a step is followed by what   *)
(* it disturbs.                                                            *)
MindOK ==
  /\ state \in States
  /\ pc \in States \cup {"sleep", "update", "switch", "reach", "strike"}
  /\ target \in Players \cup {NoTarget, Taken} /\ isPatrol \in BOOLEAN
  /\ due \in States \cup {NoMove}

TicksOK ==
  /\ attackCool \in 0..(CoolTicks + 1)
  /\ castingTime \in 0..(CastTicks + 1) /\ patrolTime \in 0..PatrolTicks

WorldOK ==
  /\ kind \in Kinds
  /\ present \in BOOLEAN /\ dying \in BOOLEAN
  /\ player \in [Players -> {"new", "in", "dead", "removed", "past", "gone"}]
  /\ zone \in [Players -> Zones] /\ moved \in BOOLEAN /\ crashed \in BOOLEAN

LEMMA Groups ==
  /\ TypeOK <=> MindOK /\ TicksOK /\ WorldOK
  /\ TypeOK' <=> MindOK' /\ TicksOK' /\ WorldOK'
BY DEF TypeOK, MindOK, TicksOK, WorldOK

(* A set of ids that is not empty has a least one.                         *)
LEMMA MinIs ==
  ASSUME NEW S \in SUBSET Nat, S # {}
  PROVE  Min(S) \in S
<1> DEFINE R == OpToRel(<, Nat)
<1>1. \A x, y \in Nat : x < y => <<x, y>> \in R
  BY DEF OpToRel
<1>2. IsWellFoundedOn(R, Nat)
  BY NatLessThanWellFounded
<1> HIDE DEF R
<1>3. \E x \in S : \A y \in S : ~ (<<y, x>> \in R)
  BY <1>2, WFMin
<1>4. PICK x \in S : \A y \in S : ~ (<<y, x>> \in R)
  BY <1>3
<1>5. \A y \in S : y \in Nat /\ x \in Nat /\ ~ (y < x)
  BY <1>1, <1>4
<1>6. \A y \in S : x <= y
  BY <1>5
<1> QED BY <1>6 DEF Min

(* A search finds a player or nobody.                                      *)
LEMMA SearchFinds ==
  ASSUME SearchTarget
  PROVE  target' \in Players \cup {NoTarget}
<1>1. Found \in SUBSET Players /\ Players \subseteq Nat
  BY MonsterAssumption DEF Found, InRoom
<1>2. CASE Found = {}
  BY <1>2 DEF SearchTarget
<1>3. CASE Found # {}
  <2>1. Min(Found) \in Found
    BY <1>1, <1>3, MinIs
  <2> QED BY <1>1, <1>3, <2>1 DEF SearchTarget
<1> QED BY <1>2, <1>3

(* A timer that has run down to its limit stops there.                     *)
LEMMA TimerStops ==
  ASSUME NEW n \in Nat, NEW limit \in Nat
  PROVE  Min({n + 1, limit}) \in 0..limit
<1> DEFINE S == {n + 1, limit}
<1>1. \E x \in S : \A y \in S : x =< y
  OBVIOUS
<1>2. Min(S) \in S /\ \A y \in S : Min(S) =< y
  BY <1>1 DEF Min
<1> QED BY <1>2

(* What a client is shown is a state.                                      *)
LEMMA InfoTyped ==
  ASSUME MindOK, NEW s \in States, SetState(s)
  PROVE  state' = s /\ due' \in States \cup {NoMove}
<1>1. due' \in {due, s}
  BY SMT DEF SetState, UpdateInfo, Shown
<1> QED BY <1>1 DEF MindOK, SetState

LEMMA WorldStays ==
  ASSUME WorldOK, UNCHANGED <<kind, present, dying, player, zone, moved, crashed>>
  PROVE  WorldOK'
BY DEF WorldOK

LEMMA TicksStay ==
  ASSUME TicksOK, attackCool' \in {attackCool, 0},
         UNCHANGED <<castingTime, patrolTime>>
  PROVE  TicksOK'
<1>1. CoolTicks \in Nat
  BY MonsterAssumption
<1> QED BY <1>1 DEF TicksOK

-----------------------------------------------------------------------------
(* The main thread, one lemma per branch.                                  *)

LEMMA UpdateTyped ==
  ASSUME TypeOK, Update \/ UpdatePatrolTime \/ UpdateController
  PROVE  TypeOK'
<1>0. MindOK /\ TicksOK /\ WorldOK
  BY Groups
<1>1. /\ pc' \in {"update", "switch", state}
      /\ UNCHANGED <<state, target, isPatrol, due>>
      /\ UNCHANGED <<kind, present, dying, player, zone, moved, crashed>>
  BY Zenon DEF Update, UpdatePatrolTime, UpdateController, Running, room, ai
<1>2. MindOK'
  BY <1>0, <1>1 DEF MindOK
<1>3. TicksOK'
  <2>0. CoolTicks \in Nat /\ CastTicks \in Nat /\ PatrolTicks \in Nat
    BY MonsterAssumption
  <2>1. CASE Update
    <3>1. attackCool' \in 0..(CoolTicks + 1) /\ patrolTime' = patrolTime
      BY <1>0, <2>0, <2>1 DEF Update, TicksOK
    <3>2. Min({castingTime + 1, CastTicks + 1}) \in 0..(CastTicks + 1)
      BY <1>0, <2>0, TimerStops DEF TicksOK
    <3>3. castingTime' \in 0..(CastTicks + 1)
      BY <1>0, <2>1, <3>2 DEF Update, TicksOK
    <3> QED BY <1>0, <3>1, <3>3 DEF TicksOK
  <2>2. CASE UpdatePatrolTime
    <3>1. UNCHANGED <<attackCool, castingTime>>
      BY <2>2 DEF UpdatePatrolTime
    <3>2. Min({patrolTime + 1, PatrolTicks}) \in 0..PatrolTicks
      BY <1>0, <2>0, TimerStops DEF TicksOK
    <3>3. patrolTime' \in 0..PatrolTicks
      BY <1>0, <2>2, <3>2 DEF UpdatePatrolTime, TicksOK
    <3> QED BY <1>0, <3>1, <3>3 DEF TicksOK
  <2>3. CASE UpdateController
    BY <1>0, <2>3, TicksStay DEF UpdateController, ai, timers
  <2> QED BY <2>1, <2>2, <2>3
<1> QED BY <1>0, <1>1, <1>2, <1>3, WorldStays, Groups

LEMMA UpdateIdleTyped ==
  ASSUME TypeOK, UpdateIdle
  PROVE  TypeOK'
<1>0. MindOK /\ TicksOK /\ WorldOK
  BY Groups
<1>1. /\ pc' = "sleep"
      /\ UNCHANGED <<kind, attackCool, castingTime>>
      /\ UNCHANGED <<present, dying, player, zone, moved, crashed>>
  BY Zenon DEF UpdateIdle, room
<1>2. target' \in Players \cup {NoTarget}
  BY SearchFinds DEF UpdateIdle
<1>3. state' \in States /\ due' \in States \cup {NoMove}
  <2>1. SetState("Move") \/ UNCHANGED <<state, due>>
    BY Zenon DEF UpdateIdle
  <2> QED BY <1>0, <2>1, InfoTyped DEF MindOK, States
<1>4. isPatrol' \in BOOLEAN
  BY Zenon DEF UpdateIdle
<1>5. MindOK'
  BY <1>1, <1>2, <1>3, <1>4 DEF MindOK
<1>6. TicksOK'
  <2>1. patrolTime' = IF patrolTime >= PatrolTicks THEN 0 ELSE patrolTime
    BY DEF UpdateIdle
  <2>2. PatrolTicks \in Nat
    BY MonsterAssumption
  <2> QED BY <1>0, <1>1, <2>1, <2>2 DEF TicksOK
<1> QED BY <1>0, <1>1, <1>5, <1>6, WorldStays, Groups

LEMMA MoveTyped ==
  ASSUME TypeOK, Patrol \/ LoseTarget
  PROVE  TypeOK'
<1>0. MindOK /\ TicksOK /\ WorldOK
  BY Groups
<1>1. /\ pc' = "sleep"
      /\ UNCHANGED <<kind, attackCool, castingTime, patrolTime>>
      /\ UNCHANGED <<present, dying, player, zone, moved, crashed>>
  BY Zenon DEF Patrol, LoseTarget, room, timers
<1>2. /\ state' \in States /\ due' \in States \cup {NoMove} /\ isPatrol' \in BOOLEAN
      /\ target' \in Players \cup {NoTarget, Taken}
  <2>1. CASE SetState("Idle") /\ isPatrol' \in BOOLEAN /\ target' \in {NoTarget, target}
    BY <1>0, <2>1, InfoTyped DEF MindOK, States
  <2>2. CASE SearchTarget /\ isPatrol' = (Found = {}) /\ UNCHANGED <<state, due>>
    BY <1>0, <2>2, SearchFinds DEF MindOK
  <2>3. isPatrol \in BOOLEAN
    BY <1>0 DEF MindOK
  <2> QED BY <2>1, <2>2, <2>3, Zenon DEF Patrol, LoseTarget
<1>3. MindOK'
  BY <1>1, <1>2 DEF MindOK
<1>4. TicksOK'
  BY <1>0, <1>1, TicksStay
<1> QED BY <1>0, <1>1, <1>3, <1>4, WorldStays, Groups

LEMMA ChaseTyped ==
  ASSUME TypeOK, Chase
  PROVE  TypeOK'
<1>0. MindOK /\ TicksOK /\ WorldOK
  BY Groups
<1>1. /\ pc' = "reach"
      /\ UNCHANGED <<kind, state, target, isPatrol, due>>
      /\ UNCHANGED <<attackCool, castingTime, patrolTime>>
      /\ UNCHANGED <<present, dying, player, moved, crashed>>
  BY Zenon DEF Chase, ai, timers
<1>2. zone' \in [Players -> Zones]
  <2>1. PICK z \in Zones : zone' = [zone EXCEPT ![target] = z]
    BY DEF Chase, MoveTo
  <2> QED BY <1>0, <2>1 DEF WorldOK
<1>3. MindOK' /\ WorldOK'
  BY <1>0, <1>1, <1>2 DEF MindOK, WorldOK
<1>4. TicksOK'
  BY <1>0, <1>1, TicksStay
<1> QED BY <1>3, <1>4, Groups

LEMMA ReachTyped ==
  ASSUME TypeOK, Reach \/ Strike
  PROVE  TypeOK'
<1>0. MindOK /\ TicksOK /\ WorldOK
  BY Groups
<1>1. /\ pc' \in {"sleep", "strike"}
      /\ UNCHANGED <<kind, isPatrol, castingTime, patrolTime>>
      /\ UNCHANGED <<present, dying, player, zone, moved, crashed>>
  BY Zenon DEF Reach, Strike, room, ai, timers
<1>2. target' \in Players \cup {NoTarget, Taken}
  <2>1. target' \in {NoTarget, target}
    BY Zenon DEF Reach, Strike, ai
  <2> QED BY <1>0, <2>1 DEF MindOK
<1>3. /\ state' \in States /\ due' \in States \cup {NoMove}
      /\ attackCool' \in {attackCool, 0}
  <2>1. CASE UseSkill
    BY <1>0, <2>1, InfoTyped DEF UseSkill, States
  <2>2. CASE \E s \in {"Attack", "Idle"} : SetState(s) /\ UNCHANGED attackCool
    BY <1>0, <2>2, InfoTyped DEF States
  <2>3. CASE UNCHANGED <<state, due, attackCool>>
    BY <1>0, <2>3 DEF MindOK
  <2> QED BY <2>1, <2>2, <2>3, Zenon DEF Reach, Strike, ai, timers
<1>4. MindOK'
  BY <1>0, <1>1, <1>2, <1>3 DEF MindOK
<1>5. TicksOK'
  BY <1>0, <1>1, <1>3, TicksStay
<1> QED BY <1>0, <1>1, <1>4, <1>5, WorldStays, Groups

LEMMA AttackTyped ==
  ASSUME TypeOK, UpdateAttack \/ StopAttack
  PROVE  TypeOK'
<1>0. MindOK /\ TicksOK /\ WorldOK
  BY Groups
<1>1. /\ pc' = "sleep"
      /\ UNCHANGED <<kind, isPatrol, castingTime, patrolTime>>
      /\ UNCHANGED <<present, dying, player, zone, moved, crashed>>
  BY Zenon DEF UpdateAttack, StopAttack, room, timers
<1>2. target' \in Players \cup {NoTarget, Taken}
  <2>1. target' \in {NoTarget, target}
    BY Zenon DEF UpdateAttack, StopAttack
  <2> QED BY <1>0, <2>1 DEF MindOK
<1>3. /\ state' \in States /\ due' \in States \cup {NoMove}
      /\ attackCool' \in {attackCool, 0}
  <2>1. CASE UpdateAttack
    <3>1. CASE UseSkill
      BY <1>0, <3>1, InfoTyped DEF UseSkill, States
    <3>2. CASE Attack
      <4>1. attackCool' \in {attackCool, 0} /\ UNCHANGED <<state, due>>
        BY <3>2, Zenon DEF Attack
      <4> QED BY <1>0, <4>1 DEF MindOK
    <3> QED BY <2>1, <3>1, <3>2, Zenon DEF UpdateAttack
  <2>2. CASE StopAttack
    <3>1. attackCool' = attackCool /\ (SetState("Idle") \/ SetState("Move"))
      BY <2>2, Zenon DEF StopAttack, timers
    <3> QED BY <1>0, <3>1, InfoTyped DEF States
  <2> QED BY <2>1, <2>2
<1>4. MindOK'
  BY <1>0, <1>1, <1>2, <1>3 DEF MindOK
<1>5. TicksOK'
  BY <1>0, <1>1, <1>3, TicksStay
<1> QED BY <1>0, <1>1, <1>4, <1>5, WorldStays, Groups

LEMMA CastTyped ==
  ASSUME TypeOK, UpdateCasting \/ UpdateDead
  PROVE  TypeOK'
<1>0. MindOK /\ TicksOK /\ WorldOK
  BY Groups
<1>1. /\ pc' = "sleep"
      /\ UNCHANGED <<kind, target, isPatrol, attackCool, patrolTime>>
      /\ UNCHANGED <<present, dying, player, zone, moved, crashed>>
  BY Zenon DEF UpdateCasting, UpdateDead, room, ai, timers
<1>2. state' \in States /\ due' \in States \cup {NoMove}
  <2>1. SetState("Idle") \/ UNCHANGED <<state, due>>
    BY Zenon DEF UpdateCasting, UpdateDead
  <2> QED BY <1>0, <2>1, InfoTyped DEF MindOK, States
<1>3. castingTime' \in {castingTime, 0}
  BY Zenon DEF UpdateCasting, UpdateDead, ai, timers
<1>4. MindOK'
  BY <1>0, <1>1, <1>2 DEF MindOK
<1>5. TicksOK'
  <2>1. CastTicks \in Nat
    BY MonsterAssumption
  <2> QED BY <1>0, <1>1, <1>3, <2>1 DEF TicksOK
<1> QED BY <1>0, <1>1, <1>4, <1>5, WorldStays, Groups

-----------------------------------------------------------------------------
(* The handlers leave the timers and the main thread alone.                *)

LEMMA PlayersTyped ==
  ASSUME TypeOK, NEW p \in Players,
         \/ EnterPlayer(p) \/ HandleMove(p) \/ PlayerDies(p)
         \/ RemovePlayer(p) \/ UnBindKiller(p) \/ PlayerLeaves(p)
  PROVE  TypeOK'
<1>0. MindOK /\ TicksOK /\ WorldOK
  BY Groups
<1>1. /\ UNCHANGED <<kind, pc, state, isPatrol, moved>>
      /\ UNCHANGED <<attackCool, castingTime, patrolTime, present, dying>>
  BY Zenon DEF EnterPlayer, HandleMove, PlayerDies, RemovePlayer, UnBindKiller,
     PlayerLeaves, ai, timers
<1>2. \/ player' = player
      \/ \E s \in {"in", "dead", "removed", "past", "gone"} :
           player' = [player EXCEPT ![p] = s]
  BY Zenon DEF EnterPlayer, HandleMove, PlayerDies, RemovePlayer, UnBindKiller, PlayerLeaves
<1>3. zone' = zone \/ \E z \in Zones : zone' = [zone EXCEPT ![p] = z]
  BY Zenon DEF EnterPlayer, HandleMove, PlayerDies, RemovePlayer, UnBindKiller, PlayerLeaves
<1>4. crashed' \in BOOLEAN
  <2>1. Torn \/ crashed' = crashed \/ crashed' = ~present \/ crashed' \in BOOLEAN
    BY Zenon DEF EnterPlayer, HandleMove, PlayerDies, RemovePlayer, UnBindKiller, PlayerLeaves
  <2> QED BY <1>0, <2>1 DEF Torn, WorldOK
<1>5. player' \in [Players -> {"new", "in", "dead", "removed", "past", "gone"}]
  BY <1>0, <1>2 DEF WorldOK
<1>6. zone' \in [Players -> Zones]
  BY <1>0, <1>3 DEF WorldOK
<1>7. WorldOK'
  BY <1>0, <1>1, <1>4, <1>5, <1>6 DEF WorldOK
<1>8. target' \in {target, Taken} /\ due' \in {due, state}
  <2>1. CASE UnBindKiller(p)
    BY <2>1, SMT DEF UnBindKiller
  <2>2. CASE EnterPlayer(p)
    BY <2>2, SMT DEF EnterPlayer, Shown, ai
  <2> QED BY <2>1, <2>2, Zenon DEF HandleMove, PlayerDies, RemovePlayer, PlayerLeaves, ai
<1>9. MindOK'
  BY <1>0, <1>1, <1>8 DEF MindOK
<1> QED BY <1>0, <1>1, <1>7, <1>9, TicksStay, Groups

LEMMA MonsterTyped ==
  ASSUME TypeOK, OnDead \/ Remove \/ HandleMonsterMoveByClient \/ SetIdle
  PROVE  TypeOK'
<1>0. MindOK /\ TicksOK /\ WorldOK
  BY Groups
<1>1. UNCHANGED <<kind, pc, target, isPatrol, player, attackCool, castingTime, patrolTime>>
  BY Zenon DEF OnDead, Remove, HandleMonsterMoveByClient, SetIdle, room, ai, timers
<1>2. TicksOK'
  BY <1>0, <1>1, TicksStay
<1>3. /\ state' \in States /\ due' \in States \cup {NoMove}
      /\ moved' \in BOOLEAN /\ zone' \in [Players -> Zones]
  <2>1. CASE OnDead \/ SetIdle
    <3>1. moved' \in {moved, FALSE} /\ zone' = zone
      BY <2>1, Zenon DEF OnDead, SetIdle, room
    <3>2. SetState("Dead") \/ SetState("Idle")
      BY <2>1, Zenon DEF OnDead, SetIdle
    <3> QED BY <1>0, <3>1, <3>2, InfoTyped DEF WorldOK, States
  <2>2. CASE Remove
    BY <1>0, <2>2 DEF Remove, MindOK, WorldOK
  <2>3. CASE HandleMonsterMoveByClient
    <3>1. /\ due' = NoMove /\ moved' \in {moved, TRUE}
          /\ (state' = due /\ due # NoMove) \/ state' = state
      BY <2>3, Zenon DEF HandleMonsterMoveByClient
    <3>2. \/ zone' = zone
          \/ \E p \in Players, z \in Zones : zone' = [zone EXCEPT ![p] = z]
      BY <2>3, Zenon DEF HandleMonsterMoveByClient
    <3>3. zone' \in [Players -> Zones]
      BY <1>0, <3>2 DEF WorldOK
    <3> QED BY <1>0, <3>1, <3>3 DEF MindOK, WorldOK
  <2> QED BY <2>1, <2>2, <2>3
<1>4. present' \in BOOLEAN /\ dying' \in BOOLEAN /\ crashed' \in BOOLEAN
  <2>1. /\ present' \in {present, FALSE} /\ dying' \in {dying, TRUE, FALSE}
        /\ Torn \/ crashed' = crashed \/ crashed' = TRUE
    BY Zenon DEF OnDead, Remove, HandleMonsterMoveByClient, SetIdle, room
  <2> QED BY <1>0, <2>1 DEF WorldOK, Torn
<1>5. MindOK' /\ WorldOK'
  BY <1>0, <1>1, <1>3, <1>4 DEF MindOK, WorldOK
<1> QED BY <1>2, <1>5, Groups

(* Init has the types, and every step keeps them.                          *)
LEMMA TypesHold == (Init => TypeOK) /\ (TypeOK /\ [Next]_vars => TypeOK')
<1>1. ASSUME Init PROVE TypeOK
  <2>1. CoolTicks \in Nat /\ CastTicks \in Nat /\ PatrolTicks \in Nat
    BY MonsterAssumption
  <2>2. TicksOK
    BY <1>1, <2>1 DEF Init, TicksOK
  <2>3. MindOK /\ WorldOK
    BY <1>1 DEF Init, MindOK, WorldOK, States, Zones
  <2> QED BY <2>2, <2>3, Groups
<1>2. ASSUME TypeOK, [Next]_vars PROVE TypeOK'
  <2>1. CASE Main
    BY <1>2, <2>1, UpdateTyped, UpdateIdleTyped, MoveTyped, ChaseTyped, ReachTyped,
       AttackTyped, CastTyped DEF Main
  <2>2. CASE OnDead \/ Remove \/ HandleMonsterMoveByClient \/ SetIdle
    BY <1>2, <2>2, MonsterTyped
  <2>3. CASE \E p \in Players : \/ EnterPlayer(p) \/ HandleMove(p) \/ PlayerDies(p)
                                \/ RemovePlayer(p) \/ UnBindKiller(p) \/ PlayerLeaves(p)
    BY <1>2, <2>3, PlayersTyped
  <2>4. CASE UNCHANGED vars
    BY <1>2, <2>4 DEF TypeOK, vars, ai, timers, room
  <2> QED BY <1>2, <2>1, <2>2, <2>3, <2>4 DEF Next
<1> QED BY <1>1, <1>2

(* TypeOK holds of every run, for all constants; in particular Update      *)
(* stops counting the cool time, however long a monster does not attack.   *)
THEOREM TypeCorrect == Spec => []TypeOK
BY TypesHold, PTL DEF Spec

(* AttackHasTarget holds of every run, for all constants.                  *)
THEOREM AttackerHasTarget == Spec => []AttackHasTarget
<1>1. IInv => AttackHasTarget
  BY DEF IInv, Engaged, AttackHasTarget
<1> QED BY <1>1, InitHolds, NextKeeps, TypesHold, PTL DEF Spec
=============================================================================
