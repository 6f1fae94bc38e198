------------------------------- MODULE Monster -------------------------------
(***************************************************************************)
(* The AI of one monster: an ordinary Monster or the boss, Grux.           *)
(*                                                                         *)
(* The main thread updates it, without the room's mutex, once per tick:    *)
(* Update reads the state three times, and what it decides is written      *)
(* later.  In between, workers run the handlers that move players, let     *)
(* them enter, die and leave, clear the target of who killed a player,     *)
(* kill the monster, and apply a client's C_MonsterMove.  Distances are    *)
(* reduced to the three zones the code compares them with, and timers that *)
(* are only compared with a limit stop there.  Whether a skill has cooled  *)
(* down is left open.                                                      *)
(***************************************************************************)
EXTENDS Integers, FiniteSets, FiniteSetsExt

CONSTANTS
  Players,      \* ids of player objects
  Visitors,     \* for each class considered, who comes to the room (bound)
  AttackTicks,  \* ticks between two attacks
  CoolTicks,    \* ticks up to which Update counts them
  CastTicks,    \* ticks a cast lasts
  PatrolTicks   \* ticks a monster idles before it walks somewhere

ASSUME MonsterAssumption ==
  /\ Players \subseteq Nat \ {0}
  /\ DOMAIN Visitors \subseteq {"Monster", "Grux"}
  /\ \A k \in DOMAIN Visitors : Visitors[k] \subseteq Players
  /\ CoolTicks \in Nat /\ AttackTicks \in 1..(CoolTicks + 1)
  /\ CastTicks \in Nat /\ PatrolTicks \in Nat

Kinds == DOMAIN Visitors
NoTarget == 0  \* null
Taken == -1    \* null too: a worker's UnBindTarget took a player's place
NoMove == "none"
States == {"Idle", "Move", "Attack", "Dead", "Casting"}
Zones == {"attack", "search", "out"}

VARIABLES
  kind,                                \* its class
  state, target, isPatrol,             \* GetState(), _target, _isPatrol
  attackCool, castingTime, patrolTime, \* _attackCoolTime, ... in ticks
  pc,       \* the main thread: "sleep", "update", "switch", the state
            \* it read, "reach" or "strike"
  present,  \* the monster is in _monsters
  dying,    \* a handler is between SetState(Dead) and Remove
  player,   \* each player: "new", "in", "dead", "removed", "past" or "gone"
  zone,     \* how far it is from the monster
  due,      \* the state in a client's C_MonsterMove on its way, or NoMove
  moved,    \* a handler is between SetInfo and SetState(Idle)
  crashed   \* the server is over: null was dereferenced, shared data torn,
            \* or the main thread waits for ever

timers == <<attackCool, castingTime, patrolTime>>
ai == <<target, isPatrol, timers>>
room == <<player, zone, present, dying>>
vars == <<kind, state, ai, pc, room, due, moved, crashed>>

InRoom == {p \in Players : player[p] \in {"in", "dead"}}  \* _players
IsDead(p) == player[p] \in {"dead", "removed", "past"}

Init ==
  /\ kind \in Kinds
  /\ state = "Idle" /\ target = NoTarget /\ isPatrol = FALSE
  /\ attackCool = 0 /\ castingTime = 0 /\ patrolTime = 0
  /\ pc = "sleep"
  /\ present = TRUE /\ dying = FALSE
  /\ player = [p \in Players |-> "new"] /\ zone = [p \in Players |-> "out"]
  /\ due = NoMove /\ moved = FALSE /\ crashed = FALSE

-----------------------------------------------------------------------------
(* The monster in state s, shown to some client.  If it has not placed the *)
(* monster yet, or sees it fall, it answers with a C_MonsterMove.          *)
Shown(s) == due' \in {due, s}

(* S_UpdateInfo to the players in the room.                                *)
UpdateInfo == IF InRoom = {} THEN UNCHANGED due ELSE Shown(state')

SetState(s) == state' = s /\ UpdateInfo

(* SearchTarget: the first player in the map that is in range.             *)
Found == {p \in InRoom : zone[p] # "out"}
SearchTarget == target' = IF Found = {} THEN NoTarget ELSE Min(Found)

(* Fault: a dead target is not noticed.                                    *)
TargetLost_NotDead == target \notin Players

(* There is no target any more, or it is dead.                             *)
TargetLost == target \notin {p \in Players : ~IsDead(p)}

InSight == ~TargetLost /\ zone[target] # "out"
CanAttack == ~TargetLost /\ zone[target] = "attack"

(* The monster walks towards p.                                            *)
MoveTo(p) ==
  \E z \in Zones :
    /\ z = "out" => zone[p] = "out"
    /\ z = "search" => zone[p] # "attack"
    /\ zone' = [zone EXCEPT ![p] = z]

-----------------------------------------------------------------------------
(* The main thread.                                                        *)

Running(label) == ~crashed /\ pc = label

(* Fault: the cool time is counted without a limit.                        *)
Update_NoLimit ==
  /\ Running("sleep") /\ present
  /\ attackCool' = attackCool + 1
  /\ castingTime' = IF state = "Casting" THEN Min({castingTime + 1, CastTicks + 1})
                    ELSE castingTime
  /\ pc' = "update"
  /\ UNCHANGED <<kind, state, target, isPatrol, patrolTime, room, due, moved, crashed>>

(* Update: the timers.  The state is read for the first time ...           *)
Update ==
  /\ Running("sleep") /\ present
  /\ attackCool' = IF attackCool <= CoolTicks THEN attackCool + 1 ELSE attackCool
  /\ castingTime' = IF state = "Casting" THEN Min({castingTime + 1, CastTicks + 1})
                    ELSE castingTime
  /\ pc' = "update"
  /\ UNCHANGED <<kind, state, target, isPatrol, patrolTime, room, due, moved, crashed>>

(* Fault: the time a monster idles is not counted.                         *)
UpdatePatrolTime_Not ==
  /\ Running("update")
  /\ pc' = "switch"
  /\ UNCHANGED <<kind, state, ai, room, due, moved, crashed>>

(* ... and for the second time ...                                         *)
UpdatePatrolTime ==
  /\ Running("update")
  /\ patrolTime' = IF state = "Idle" THEN Min({patrolTime + 1, PatrolTicks})
                   ELSE patrolTime
  /\ pc' = "switch"
  /\ UNCHANGED <<kind, state, target, isPatrol, attackCool, castingTime, room,
                 due, moved, crashed>>

(* ... and for the third.                                                  *)
UpdateController ==
  /\ Running("switch")
  /\ pc' = state
  /\ UNCHANGED <<kind, state, ai, room, due, moved, crashed>>

UpdateIdle ==
  /\ Running("Idle")
  /\ SearchTarget
  /\ IF Found # {} \/ patrolTime >= PatrolTicks
       THEN SetState("Move") ELSE UNCHANGED <<state, due>>
  /\ isPatrol' = (isPatrol \/ patrolTime >= PatrolTicks)
  /\ patrolTime' = IF patrolTime >= PatrolTicks THEN 0 ELSE patrolTime
  /\ pc' = "sleep"
  /\ UNCHANGED <<kind, attackCool, castingTime, room, moved, crashed>>

(* UpdateMove on patrol; Grux's UpdateMove does not look at _isPatrol.     *)
OnPatrol == kind = "Monster" /\ isPatrol

Patrol ==
  /\ Running("Move") /\ OnPatrol
  /\ \/ SetState("Idle") /\ isPatrol' = FALSE /\ UNCHANGED target
     \/ SearchTarget /\ isPatrol' = (Found = {}) /\ UNCHANGED <<state, due>>
  /\ pc' = "sleep"
  /\ UNCHANGED <<kind, timers, room, moved, crashed>>

(* UpdateMove: the target is lost or too far.                              *)
LoseTarget ==
  /\ Running("Move") /\ ~OnPatrol
  /\ ~InSight
  /\ target' = NoTarget
  /\ SetState("Idle")
  /\ pc' = "sleep"
  /\ UNCHANGED <<kind, isPatrol, timers, room, moved, crashed>>

(* UpdateMove: the monster walks towards its target ...                    *)
Chase ==
  /\ Running("Move") /\ ~OnPatrol
  /\ InSight
  /\ MoveTo(target)
  /\ pc' = "reach"
  /\ UNCHANGED <<kind, state, ai, player, present, dying, due, moved, crashed>>

(* Grux::UseSkill, of a skill that has cooled down.                        *)
UseSkill ==
  /\ kind = "Grux"
  /\ attackCool' = 0
  /\ SetState("Casting")

(* Fault: an attack begins whether or not the target is there.             *)
Reach_Blindly ==
  /\ Running("reach")
  /\ target' = IF TargetLost THEN NoTarget ELSE target
  /\ pc' = "strike"
  /\ UNCHANGED <<kind, state, isPatrol, timers, room, due, moved, crashed>>

(* ... and looks if it can attack; Grux may leap at a target that is far.  *)
Reach ==
  /\ Running("reach")
  /\ \/ CanAttack /\ pc' = "strike" /\ UNCHANGED <<state, due, attackCool>>
     \/ /\ ~CanAttack /\ pc' = "sleep"
        /\ \/ TargetLost /\ SetState("Idle") /\ UNCHANGED attackCool
           \/ ~TargetLost /\ UNCHANGED <<state, due, attackCool>>
           \/ UseSkill
  /\ target' = IF TargetLost THEN NoTarget ELSE target
  /\ UNCHANGED <<kind, isPatrol, castingTime, patrolTime, room, moved, crashed>>

(* CanAttack was true.                                                     *)
Strike ==
  /\ Running("strike")
  /\ SetState("Attack")
  /\ pc' = "sleep"
  /\ UNCHANGED <<kind, ai, room, moved, crashed>>

(* S_Skill to the clients, which show the blow, once it has cooled down.   *)
Attack ==
  /\ attackCool' = IF attackCool < AttackTicks THEN attackCool ELSE 0
  /\ UNCHANGED <<state, due>>

(* UpdateAttack on a target in reach; Grux prefers its skills.             *)
UpdateAttack ==
  /\ Running("Attack") /\ CanAttack
  /\ UseSkill \/ Attack
  /\ pc' = "sleep"
  /\ UNCHANGED <<kind, target, isPatrol, castingTime, patrolTime, room, moved, crashed>>

(* UpdateAttack when the target is lost, or out of reach.                  *)
StopAttack ==
  /\ Running("Attack") /\ ~CanAttack
  /\ target' = IF TargetLost THEN NoTarget ELSE target
  /\ SetState(IF kind = "Grux" THEN "Idle" ELSE "Move")
  /\ pc' = "sleep"
  /\ UNCHANGED <<kind, isPatrol, timers, room, moved, crashed>>

(* Fault: the casting time is reset at every tick.                         *)
UpdateCasting_AlwaysReset ==
  /\ Running("Casting")
  /\ castingTime' = 0
  /\ IF castingTime > CastTicks THEN SetState("Idle") ELSE UNCHANGED <<state, due>>
  /\ pc' = "sleep"
  /\ UNCHANGED <<kind, target, isPatrol, attackCool, patrolTime, room, moved, crashed>>

UpdateCasting ==
  /\ Running("Casting")
  /\ IF castingTime > CastTicks
       THEN castingTime' = 0 /\ SetState("Idle")
       ELSE UNCHANGED <<castingTime, state, due>>
  /\ pc' = "sleep"
  /\ UNCHANGED <<kind, target, isPatrol, attackCool, patrolTime, room, moved, crashed>>

UpdateDead ==
  /\ Running("Dead")
  /\ pc' = "sleep"
  /\ UNCHANGED <<kind, state, ai, room, due, moved, crashed>>

Main ==
  \/ Update \/ UpdatePatrolTime \/ UpdateController
  \/ UpdateIdle \/ Patrol \/ LoseTarget \/ Chase \/ Reach \/ Strike
  \/ UpdateAttack \/ StopAttack \/ UpdateCasting \/ UpdateDead

-----------------------------------------------------------------------------
(* Worker threads.  A handler that changes _players, _monsters or _target  *)
(* may pull it away under the main thread, which holds no mutex while it   *)
(* updates the monster.                                                    *)
Torn == crashed' \in IF pc = "sleep" THEN {FALSE} ELSE BOOLEAN

(* EnterPlayer, which shows the monster to the client; a revived player is *)
(* a new object.                                                           *)
EnterPlayer(p) ==
  /\ ~crashed /\ ~moved /\ player[p] = "new" /\ p \in Visitors[kind]
  /\ player' = [player EXCEPT ![p] = "in"]
  /\ \E z \in Zones : zone' = [zone EXCEPT ![p] = z]
  /\ IF present THEN Shown(state) ELSE UNCHANGED due
  /\ Torn
  /\ UNCHANGED <<kind, state, ai, pc, present, dying, moved>>

(* C_Move, and the monster's own walking seen from other players.          *)
HandleMove(p) ==
  /\ ~crashed /\ player[p] = "in"
  /\ \E z \in Zones : zone' = [zone EXCEPT ![p] = z]
  /\ UNCHANGED <<kind, state, ai, pc, player, present, dying, due, moved, crashed>>

(* The player dies: SetState(Dead); later Remove ...                       *)
PlayerDies(p) ==
  /\ ~crashed /\ player[p] = "in"
  /\ player' = [player EXCEPT ![p] = "dead"]
  /\ UNCHANGED <<kind, state, ai, pc, zone, present, dying, due, moved, crashed>>

RemovePlayer(p) ==
  /\ ~crashed /\ ~moved /\ player[p] = "dead"
  /\ player' = [player EXCEPT ![p] = "removed"]
  /\ Torn
  /\ UNCHANGED <<kind, state, ai, pc, zone, present, dying, due, moved>>

(* ... and then UnBindTarget of who killed it: this monster, or another    *)
(* creature.  The result of FindObjectById is not checked.                 *)
UnBindKiller(p) ==
  /\ ~crashed /\ player[p] = "removed"
  /\ player' = [player EXCEPT ![p] = "past"]
  /\ \/ /\ present
        /\ target' = IF target \in Players THEN Taken ELSE target
        /\ Torn
     \/ UNCHANGED target /\ crashed' = ~present
     \/ UNCHANGED target /\ UNCHANGED crashed
  /\ UNCHANGED <<kind, state, isPatrol, timers, pc, zone, present, dying, due, moved>>

(* Player::Disconnect removes the player, whose state stays what it is.    *)
(* The main thread may be the one that does it, in the middle of a         *)
(* broadcast, and tear its own iterator or wait for the mutex for ever.    *)
PlayerLeaves(p) ==
  /\ ~crashed /\ ~moved /\ player[p] = "in"
  /\ player' = [player EXCEPT ![p] = "gone"]
  /\ crashed' \in BOOLEAN
  /\ UNCHANGED <<kind, state, ai, pc, zone, present, dying, due, moved>>

(* A hit kills the monster: SetState(Dead); later Remove.                  *)
OnDead ==
  /\ ~crashed /\ present /\ state # "Dead" /\ InRoom # {}
  /\ SetState("Dead")
  /\ dying' = TRUE
  /\ UNCHANGED <<kind, ai, pc, player, zone, present, moved, crashed>>

Remove ==
  /\ ~crashed /\ ~moved /\ dying
  /\ present' = FALSE /\ dying' = FALSE
  /\ Torn
  /\ UNCHANGED <<kind, state, ai, pc, player, zone, due, moved>>

(* C_MonsterMove: SetInfo writes the client's copy over the monster's, its *)
(* state and its place with it.  Again FindObjectById is not checked ...   *)
HandleMonsterMoveByClient ==
  /\ ~crashed /\ ~moved /\ due # NoMove
  /\ due' = NoMove
  /\ \/ /\ present /\ moved' = TRUE
        /\ state' = due
        /\ \/ UNCHANGED zone
           \/ \E p \in Players, z \in Zones :
                player[p] # "new" /\ zone' = [zone EXCEPT ![p] = z]
        /\ Torn
     \/ ~present /\ crashed' = TRUE /\ UNCHANGED <<state, zone, moved>>
  /\ UNCHANGED <<kind, ai, pc, player, present, dying>>

(* ... and then SetState(Idle).                                            *)
SetIdle ==
  /\ ~crashed /\ moved
  /\ SetState("Idle")
  /\ moved' = FALSE
  /\ UNCHANGED <<kind, ai, pc, room, crashed>>

Next ==
  \/ Main \/ OnDead \/ Remove \/ HandleMonsterMoveByClient \/ SetIdle
  \/ \E p \in Players :
       \/ EnterPlayer(p) \/ HandleMove(p) \/ PlayerDies(p) \/ RemovePlayer(p)
       \/ UnBindKiller(p) \/ PlayerLeaves(p)

(* The main thread loops for ever, and C_MonsterMove does not wait between *)
(* its two writes.  Nothing is assumed of handlers that wait for the       *)
(* mutex, which may never be given back.                                   *)
Fairness == WF_vars(Main) /\ WF_vars(SetIdle)

Spec == Init /\ [][Next]_vars /\ Fairness

-----------------------------------------------------------------------------
(* Properties.                                                             *)

(* Types; and Update stops counting the cool time.                         *)
TypeOK ==
  /\ kind \in Kinds /\ state \in States
  /\ pc \in States \cup {"sleep", "update", "switch", "reach", "strike"}
  /\ target \in Players \cup {NoTarget, Taken} /\ isPatrol \in BOOLEAN
  /\ attackCool \in 0..(CoolTicks + 1)
  /\ castingTime \in 0..(CastTicks + 1) /\ patrolTime \in 0..PatrolTicks
  /\ present \in BOOLEAN /\ dying \in BOOLEAN
  /\ player \in [Players -> {"new", "in", "dead", "removed", "past", "gone"}]
  /\ zone \in [Players -> Zones] /\ due \in States \cup {NoMove}
  /\ moved \in BOOLEAN /\ crashed \in BOOLEAN

(* Whoever wrote the state in the meantime, a monster that attacks has a   *)
(* target, or had one until it killed a player and a worker took it; and   *)
(* an ordinary one has given up its patrol, or it would walk away from the *)
(* fight.  In the middle of C_MonsterMove the state may be any.            *)
AttackHasTarget ==
  state = "Attack" /\ ~moved =>
    target # NoTarget /\ (kind = "Monster" => ~isPatrol)

Gone == ~present \/ crashed

(* A cast ends.                                                            *)
CastEnds == state = "Casting" ~> state # "Casting" \/ Gone

(* An idle monster does something in the end: it finds somebody, or it     *)
(* goes on patrol.                                                         *)
IdleEnds == state = "Idle" ~> state # "Idle" \/ Gone

(* A monster that lives lets go of a target that died and was removed:     *)
(* drops it or, if a worker took it, does not go on attacking nobody.      *)
Clings ==
  IF target \in Players THEN IsDead(target) /\ target \notin InRoom
                        ELSE state = "Attack"
DeadTargetDropped == Clings ~> ~Clings \/ state = "Dead" \/ Gone
=============================================================================
