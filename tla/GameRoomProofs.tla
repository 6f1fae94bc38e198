---------------------------- MODULE GameRoomProofs ----------------------------
(* Proofs about the room, for any clients, hp and number of objects.       *)
EXTENDS GameRoom, FiniteSetTheorems, TLAPS

(* The ids that were handed out.                                           *)
Given == 1..(nextId - 1)

Labels == {"idle", "enter", "spawn", "check", "mark", "remove", "find",
           "revive", "respawn", "drop", "sethp", "hung"}
Resting == {"idle", "enter", "spawn", "hung"}  \* no target is needed
Handlers == [at : Labels, target : Nat, causer : Nat, left : 0..MaxHp]

(* Each handler is about an object that was made, once it is about one.    *)
Aimed(p, made) ==
  /\ p \in [Clients -> Handlers]
  /\ \A c \in Clients :
       /\ p[c].target \in {NoObject} \cup made
       /\ p[c].at \in Resting \/ p[c].target \in made

(* TypeOK, with what it leaves out.                                        *)
Types ==
  /\ nextId \in 1..(MaxObjects + 1)
  /\ players \in [DOMAIN players -> Clients]
  /\ Objects \subseteq Given
  /\ hp \in [DOMAIN hp -> 0..MaxHp] /\ DOMAIN hp \subseteq Given
  /\ DOMAIN players \cup monsters \subseteq DOMAIN hp /\ dead \subseteq DOMAIN hp
  /\ myPlayer \in [Clients -> {NoObject} \cup Given]
  /\ \A c \in Clients : myPlayer[c] # NoObject => myPlayer[c] \in DOMAIN hp
  /\ connected \in [Clients -> BOOLEAN]
  /\ leaving \subseteq Clients
  /\ Aimed(pc, DOMAIN hp)
  /\ lock \in {Free, Hung} \cup Clients
  /\ view \in [Clients -> SUBSET Given] /\ gap \in [Clients -> SUBSET Given]
  /\ bag \in [Clients -> SUBSET Given]

(* Who makes a player has the mutex, and the player is the last object     *)
(* made, in no map yet, and nobody's target.                               *)
Makers ==
  \A c \in Clients : pc[c].at \in {"spawn", "respawn"} =>
    /\ lock = c /\ myPlayer[c] = Created /\ Created \notin Objects
    /\ Created # NoObject
    /\ \A d \in Clients : pc[d].target # Created

(* Who is about to make a player has none in the room.                     *)
Departed ==
  \A c \in Clients :
    /\ pc[c].at = "enter" => myPlayer[c] = NoObject
    /\ pc[c].at \in {"find", "revive"} => pc[c].target \notin DOMAIN players
    /\ pc[c].at = "revive" => pc[c].target = myPlayer[c]

(* Items are items: no creature is ever one.                               *)
Apart ==
  /\ items \cap (DOMAIN players \cup monsters) = {}
  /\ \A c \in Clients : myPlayer[c] \notin items \cup monsters
                        /\ pc[c].target \notin items

(* What a client that has entered does not know of is in its gap.          *)
Stale(c) == (view[c] \ Objects) \cup (Objects \ view[c])
Informed ==
  \A c \in Clients :
    myPlayer[c] # NoObject /\ pc[c].at # "spawn" => Stale(c) \subseteq gap[c]

(* A monster without hp is marked dead, and of one that is marked some     *)
(* handler is about to clear the room.                                     *)
Cleared ==
  /\ \A m \in monsters : hp[m] = 0 => m \in dead
  /\ \A m \in monsters \cap dead :
       \E c \in Clients : pc[c].at = "remove" /\ pc[c].target = m
  /\ \A c \in Clients :
       /\ pc[c].at \in {"remove", "find", "revive", "respawn", "drop"} =>
            pc[c].target \in dead
       /\ pc[c].at = "sethp" /\ pc[c].left = 0 => pc[c].target \in dead

RoomInv ==
  Makers /\ Departed /\ OnePlayer /\ Apart /\ Informed /\ PickedOnce /\ Cleared

IInv == Types /\ RoomInv

(* Without failing sends, who is disconnected runs no handler, and its     *)
(* player leaves the room before it is forgotten.                          *)
Quits ==
  \A c \in Clients : ~connected[c] =>
    pc[c].at = "idle" /\ (c \in leaving \/ c \notin Reached(players))

-----------------------------------------------------------------------------
(* Ids, maps and handlers.                                                 *)

(* Handing out an id makes it given, and it was not before.                *)
LEMMA GivenGrows ==
  ASSUME nextId \in Nat \ {0}, nextId' = nextId + 1
  PROVE  Given' = Given \cup {nextId} /\ nextId \notin Given /\ nextId # NoObject
BY DEF Given, NoObject

(* No object is not an id.                                                 *)
LEMMA NoObjectNotGiven == NoObject \notin Given
BY DEF Given, NoObject

LEMMA PutFacts ==
  ASSUME NEW f, NEW k, NEW v
  PROVE  /\ DOMAIN Put(f, k, v) = DOMAIN f \cup {k}
         /\ Put(f, k, v)[k] = v
         /\ \A i \in DOMAIN f \ {k} : Put(f, k, v)[i] = f[i]
BY DEF Put

LEMMA PutType ==
  ASSUME NEW S, NEW f, f \in [DOMAIN f -> S], NEW k, NEW v \in S
  PROVE  Put(f, k, v) \in [DOMAIN f \cup {k} -> S]
<1>1. \A i \in DOMAIN f \cup {k} : (IF i = k THEN v ELSE f[i]) \in S
  OBVIOUS
<1> QED BY <1>1 DEF Put

LEMMA DropFacts ==
  ASSUME NEW f, NEW k
  PROVE  /\ DOMAIN Drop(f, k) = DOMAIN f \ {k}
         /\ \A i \in DOMAIN f \ {k} : Drop(f, k)[i] = f[i]
BY DEF Drop

LEMMA DropType ==
  ASSUME NEW S, NEW f, f \in [DOMAIN f -> S], NEW k
  PROVE  Drop(f, k) \in [DOMAIN f \ {k} -> S]
BY DEF Drop

(* What is left of the hp: no more than there was, and nothing if the      *)
(* damage is no less.                                                      *)
LEMMA LeftFacts ==
  ASSUME NEW h \in 0..MaxHp, NEW d \in 1..MaxHp
  PROVE  /\ Max({h - d, 0}) \in 0..MaxHp
         /\ d < h => Max({h - d, 0}) # 0
<1>1. MaxHp \in Nat
  BY RoomAssumption
<1>2. CASE d < h
  <2>1. Max({h - d, 0}) = h - d
    BY <1>1, <1>2 DEF Max
  <2> QED BY <1>1, <1>2, <2>1
<1>3. CASE ~(d < h)
  <2>1. Max({h - d, 0}) = 0
    BY <1>1, <1>3 DEF Max
  <2> QED BY <1>1, <1>3, <2>1
<1> QED BY <1>2, <1>3

(* A handler that goes on to another place changes nothing else.           *)
LEMMA GotoFacts ==
  ASSUME Types, NEW c \in Clients, NEW label \in Labels,
         pc' = [pc EXCEPT ![c].at = label]
  PROVE  /\ pc' \in [Clients -> Handlers]
         /\ pc'[c].at = label
         /\ \A d \in Clients : /\ d # c => pc'[d] = pc[d]
                              /\ pc'[d].target = pc[d].target
                              /\ pc'[d].left = pc[d].left
BY DEF Types, Aimed, Handlers

(* It stays aimed, if it was or has no target yet.                         *)
LEMMA GotoAimed ==
  ASSUME Types, NEW c \in Clients, NEW label \in Labels, NEW made,
         pc' = [pc EXCEPT ![c].at = label], DOMAIN hp \subseteq made,
         label \in {"enter", "spawn"} \/ pc[c].at \notin Resting
  PROVE  Aimed(pc', made)
<1>1. \A d \in Clients :
        /\ pc[d].target \in {NoObject} \cup made
        /\ pc[d].at \in Resting \/ pc[d].target \in made
  BY DEF Types, Aimed
<1>2. /\ pc' \in [Clients -> Handlers] /\ pc'[c].at = label
      /\ \A d \in Clients : pc'[d].target = pc[d].target /\ (d # c => pc'[d] = pc[d])
  BY GotoFacts
<1> QED BY <1>1, <1>2 DEF Aimed, Resting

(* A handler that is through, or hangs in its broadcast, has no target.    *)
LEMMA Halts ==
  /\ Idle \in Handlers /\ Idle.target = NoObject /\ Idle.at = "idle"
  /\ Stuck \in Handlers /\ Stuck.target = NoObject /\ Stuck.at = "hung"
<1>1. /\ Idle = [at |-> "idle", target |-> 0, causer |-> 0, left |-> 0]
      /\ Stuck = [at |-> "hung", target |-> 0, causer |-> 0, left |-> 0]
  BY DEF Idle, Stuck, NoObject
<1>2. 0 \in 0..MaxHp
  BY RoomAssumption
<1> QED BY <1>1, <1>2 DEF Handlers, Labels, NoObject

Halted(c) ==
  /\ \A d \in Clients \ {c} : pc'[d] = pc[d]
  /\ pc'[c].at \in {"idle", "hung"} /\ pc'[c].target = NoObject

LEMMA FinishFacts ==
  ASSUME Types, NEW c \in Clients, Finish(c, Idle)
  PROVE  pc' \in [Clients -> Handlers] /\ Halted(c)
<1>1. pc' = [pc EXCEPT ![c] = Idle] \/ pc' = [pc EXCEPT ![c] = Stuck]
  BY DEF Finish
<1> QED BY <1>1, Halts DEF Types, Aimed, Halted

(* It goes on, or hangs.                                                   *)
Advanced(c, label) ==
  /\ \A d \in Clients \ {c} : pc'[d] = pc[d]
  /\ pc'[c].at = label /\ pc'[c].target = pc[c].target /\ pc'[c].left = pc[c].left

LEMMA ProceedFacts ==
  ASSUME Types, NEW c \in Clients, NEW label \in Labels, Proceed(c, label)
  PROVE  pc' \in [Clients -> Handlers] /\ (Halted(c) \/ Advanced(c, label))
<1>1. pc' = [pc EXCEPT ![c] = [pc[c] EXCEPT !.at = label]] \/ pc' = [pc EXCEPT ![c] = Stuck]
  BY DEF Proceed, Finish
<1>2. CASE pc' = [pc EXCEPT ![c] = [pc[c] EXCEPT !.at = label]]
  BY <1>2 DEF Types, Aimed, Handlers, Advanced
<1>3. CASE pc' = [pc EXCEPT ![c] = Stuck]
  BY <1>3, Halts DEF Types, Aimed, Halted
<1> QED BY <1>1, <1>2, <1>3

LEMMA HaltAimed ==
  ASSUME Types, NEW c \in Clients, NEW made, DOMAIN hp \subseteq made,
         pc' \in [Clients -> Handlers],
         Halted(c) \/ \E label : Advanced(c, label) /\ pc[c].at \notin Resting
  PROVE  Aimed(pc', made)
<1>1. \A d \in Clients :
        /\ pc[d].target \in {NoObject} \cup made
        /\ pc[d].at \in Resting \/ pc[d].target \in made
  BY DEF Types, Aimed
<1>2. CASE Halted(c)
  BY <1>1, <1>2 DEF Aimed, Halted, Resting
<1>3. CASE \E label : Advanced(c, label) /\ pc[c].at \notin Resting
  BY <1>1, <1>3 DEF Aimed, Advanced
<1> QED BY <1>2, <1>3

-----------------------------------------------------------------------------
(* Broadcasts: they get to their end, or leave the mutex locked.           *)

LEMMA SendFailsFacts ==
  ASSUME Types, NEW d \in Clients, SendFails(d)
  PROVE  lock' = Hung /\ connected' \in [Clients -> BOOLEAN] /\ leaving' \subseteq Clients
BY DEF Types, SendFails

LEMMA BroadCastFacts ==
  ASSUME Types, NEW ps, ps \in [DOMAIN ps -> Clients], NEW reached,
         NEW left \in SUBSET Clients, BroadCast(ps, reached, left)
  PROVE  /\ lock' \in {Free, Hung}
         /\ connected' \in [Clients -> BOOLEAN] /\ leaving' \subseteq Clients
<1>1. CASE lock' = Free /\ leaving' = left /\ connected' = connected
  BY <1>1 DEF Types
<1>2. CASE \E i \in DOMAIN ps : SendFails(ps[i])
  BY <1>2, SendFailsFacts
<1> QED BY <1>1, <1>2 DEF BroadCast

LEMMA BroadCastPlayerFacts ==
  ASSUME Types, NEW ps, ps \in [DOMAIN ps -> Clients],
         players' \in [DOMAIN players' -> Clients], NEW reached,
         BroadCastPlayer(ps, reached)
  PROVE  /\ lock' \in {Free, Hung}
         /\ connected' \in [Clients -> BOOLEAN] /\ leaving' \subseteq Clients
<1>1. CASE BroadCast(ps, reached, leaving)
  BY <1>1, BroadCastFacts DEF Types
<1>2. CASE \E d \in Reached(players') : SendFails(d)
  <2>1. Reached(players') \subseteq Clients
    BY DEF Reached, Range
  <2> QED BY <1>2, <2>1, SendFailsFacts
<1> QED BY <1>1, <1>2 DEF BroadCastPlayer

(* A client is told of a change, or misses it.                             *)
Added(d, i) ==
  \/ view'[d] = view[d] \cup {i} /\ gap'[d] = gap[d]
  \/ view'[d] = view[d] /\ gap'[d] = gap[d] \cup {i}
Removed(d, i) ==
  \/ view'[d] = view[d] \ {i} /\ gap'[d] = gap[d]
  \/ view'[d] = view[d] /\ gap'[d] = gap[d] \cup {i}

LEMMA ToldFacts ==
  ASSUME NEW i, NEW reached
  PROVE  /\ AddObject(i, reached) => \A d \in Clients : Added(d, i)
         /\ RemoveObject(i, reached) => \A d \in Clients : Removed(d, i)
BY DEF AddObject, RemoveObject, Miss, Added, Removed

-----------------------------------------------------------------------------
(* Types.                                                                  *)

(* A step that makes no object: the ids stay, and what the maps lose does  *)
(* not matter.                                                             *)
LEMMA TypesNoObject ==
  ASSUME Types, nextId' = nextId,
         players' \in [DOMAIN players' -> Clients], Objects' \subseteq Objects,
         DOMAIN players' \cup monsters' \subseteq DOMAIN players \cup monsters,
         hp' \in [DOMAIN hp -> 0..MaxHp], dead' \subseteq DOMAIN hp,
         myPlayer' = myPlayer, connected' \in [Clients -> BOOLEAN],
         leaving' \subseteq Clients, Aimed(pc', DOMAIN hp),
         lock' \in {Free, Hung} \cup Clients,
         view' \in [Clients -> SUBSET Given], gap' \in [Clients -> SUBSET Given],
         bag' \in [Clients -> SUBSET Given]
  PROVE  Types'
<1>1. Given' = Given
  BY DEF Given
<1> QED BY <1>1 DEF Types

(* The packets of AddObject and RemoveObject name an id that was given.    *)
LEMMA ToldTypes ==
  ASSUME NEW S, NEW i \in S, NEW reached,
         view \in [Clients -> SUBSET S], gap \in [Clients -> SUBSET S],
         AddObject(i, reached) \/ RemoveObject(i, reached)
  PROVE  view' \in [Clients -> SUBSET S] /\ gap' \in [Clients -> SUBSET S]
BY DEF AddObject, RemoveObject, Miss

(* The handler's steps that touch no map.                                  *)
LEMMA TypesQuiet ==
  ASSUME Types, NEW c \in Clients,
         \/ Handle_C_EnterRoom(c) \/ CheckDead(c) \/ MarkDead(c)
         \/ FindCauser(c) \/ SetHP(c)
  PROVE  Types'
<1> USE DEF maps, creatures, sessions, told
<1>1. UNCHANGED <<players, monsters, items, nextId, myPlayer, connected, leaving, lock,
                  view, gap, bag>>
  BY DEF Handle_C_EnterRoom, CheckDead, MarkDead, FindCauser, SetHP
<1>2. Objects' = Objects
  BY <1>1 DEF Objects
<1>3. /\ pc[c].left \in 0..MaxHp
      /\ pc[c].at \in Resting \/ pc[c].target \in DOMAIN hp
  BY DEF Types, Aimed, Handlers
<1>4. Aimed(pc', DOMAIN hp)
  <2>1. CASE SetHP(c)
    BY <2>1, Halts DEF SetHP, Types, Aimed, Resting
  <2>2. CASE pc' = pc
    BY <2>2 DEF Types
  <2>3. ASSUME NEW l \in Labels, pc' = [pc EXCEPT ![c].at = l],
               l = "enter" \/ pc[c].at \notin Resting
        PROVE  Aimed(pc', DOMAIN hp)
    BY <2>3, GotoAimed
  <2>4. Handle_C_EnterRoom(c) => pc' = [pc EXCEPT ![c].at = "enter"]
    BY DEF Handle_C_EnterRoom
  <2>5. CheckDead(c) => \E l \in {"sethp", "mark"} : pc' = [pc EXCEPT ![c].at = l]
    BY DEF CheckDead, Goto
  <2>6. MarkDead(c) => pc' = [pc EXCEPT ![c].at = "remove"]
    BY DEF MarkDead, Goto
  <2>7. FindCauser(c) => \/ pc' = pc
                         \/ \E l \in {"revive", "drop"} : pc' = [pc EXCEPT ![c].at = l]
    BY Zenon DEF FindCauser, Goto
  <2>8. CheckDead(c) \/ MarkDead(c) \/ FindCauser(c) =>
          pc[c].at \notin Resting
    BY DEF CheckDead, MarkDead, FindCauser, At, Resting
  <2> QED BY <2>1, <2>2, <2>3, <2>4, <2>5, <2>6, <2>7, <2>8 DEF Labels
<1>5. hp' \in [DOMAIN hp -> 0..MaxHp] /\ dead' \subseteq DOMAIN hp
  <2>1. CASE SetHP(c)
    BY <1>3, <2>1 DEF SetHP, Types
  <2>2. CASE MarkDead(c)
    BY <1>3, <2>2 DEF MarkDead, At, Types, Resting
  <2>3. CASE Handle_C_EnterRoom(c) \/ CheckDead(c) \/ FindCauser(c)
    BY <2>3 DEF Handle_C_EnterRoom, CheckDead, FindCauser, Types
  <2> QED BY <2>1, <2>2, <2>3
<1> QED BY <1>1, <1>2, <1>4, <1>5, TypesNoObject DEF Types

(* A step that makes an object.                                            *)
LEMMA TypesNewObject ==
  ASSUME Types, nextId \in Ids, nextId' = nextId + 1,
         players' = players, Objects' \subseteq Objects \cup {nextId},
         hp' \in [DOMAIN hp' -> 0..MaxHp], monsters' \subseteq DOMAIN hp',
         DOMAIN hp \subseteq DOMAIN hp', DOMAIN hp' \subseteq DOMAIN hp \cup {nextId},
         dead' = dead,
         myPlayer' \in [Clients -> {NoObject} \cup DOMAIN hp'],
         connected' \in [Clients -> BOOLEAN], leaving' \subseteq Clients, bag' = bag,
         Aimed(pc', DOMAIN hp'),
         lock' \in {Free, Hung} \cup Clients,
         view' \in [Clients -> SUBSET (Given \cup {nextId})],
         gap' \in [Clients -> SUBSET (Given \cup {nextId})]
  PROVE  Types'
<1>1. nextId' \in 1..(MaxObjects + 1) /\ nextId \in Nat \ {0}
  BY RoomAssumption DEF Ids, Types
<1>2. Given' = Given \cup {nextId}
  BY <1>1, GivenGrows
<1>3. Objects' \subseteq Given'
  BY <1>2 DEF Types
<1> QED BY <1>1, <1>2, <1>3 DEF Types

(* CreatePlayer gives the session a new player.                            *)
LEMMA TypesCreatePlayer ==
  ASSUME Types, NEW c \in Clients,
         \/ At(c, "enter") /\ CreatePlayer(c, "spawn")
         \/ At(c, "revive") /\ CreatePlayer(c, "respawn")
  PROVE  Types'
<1>1. MaxHp \in 0..MaxHp
  BY RoomAssumption
<1>2. /\ hp' \in [DOMAIN hp' -> 0..MaxHp]
      /\ DOMAIN hp' = DOMAIN hp \cup {nextId}
  <2>1. hp' = Put(hp, nextId, MaxHp)
    BY DEF CreatePlayer
  <2>2. Put(hp, nextId, MaxHp) \in [DOMAIN hp \cup {nextId} -> 0..MaxHp]
    BY <1>1, PutType DEF Types
  <2> QED BY <2>1, <2>2, PutFacts
<1>3. myPlayer' \in [Clients -> {NoObject} \cup DOMAIN hp']
  BY <1>2 DEF CreatePlayer, Types
<1>4. Aimed(pc', DOMAIN hp')
  <2>1. \E l \in {"spawn", "respawn"} :
          /\ pc' = [pc EXCEPT ![c].at = l]
          /\ l = "respawn" => pc[c].at = "revive"
    BY DEF CreatePlayer, At
  <2> QED BY <1>2, <2>1, GotoAimed DEF Labels, Resting
<1>5. /\ nextId \in Ids /\ nextId' = nextId + 1 /\ lock' = c
      /\ UNCHANGED <<players, monsters, items, dead, connected, leaving, view, gap, bag>>
  BY DEF CreatePlayer, told
<1>6. Objects' = Objects
  BY <1>5 DEF Objects
<1>7. monsters' \subseteq DOMAIN hp'
  BY <1>2, <1>5 DEF Types
<1>8. /\ view' \in [Clients -> SUBSET (Given \cup {nextId})]
      /\ gap' \in [Clients -> SUBSET (Given \cup {nextId})]
  BY <1>5 DEF Types
<1> QED BY <1>2, <1>3, <1>4, <1>5, <1>6, <1>7, <1>8, TypesNewObject DEF Types

(* EnterBoss and EnterItem put a new object into the room.                 *)
LEMMA TypesEnter ==
  ASSUME Types, NEW c \in Clients, EnterBoss(c) \/ EnterItem(c)
  PROVE  Types'
<1>1. PICK reached \in SUBSET Clients :
        BroadCast(players, reached, leaving) /\ AddObject(nextId, reached)
  BY DEF EnterBoss, EnterItem, TellDropped
<1>2. /\ nextId \in Ids /\ nextId' = nextId + 1
      /\ UNCHANGED <<players, dead, myPlayer, bag>>
  BY DEF EnterBoss, EnterItem, creatures
<1>3. /\ lock' \in {Free, Hung}
      /\ connected' \in [Clients -> BOOLEAN] /\ leaving' \subseteq Clients
  <2>1. players \in [DOMAIN players -> Clients] /\ leaving \in SUBSET Clients
    BY DEF Types
  <2> QED BY <1>1, <2>1, BroadCastFacts
<1>4. Objects' = Objects \cup {nextId}
  BY <1>2 DEF EnterBoss, EnterItem, Objects
<1>5. MaxHp \in 0..MaxHp
  BY RoomAssumption
<1>6. /\ hp' \in [DOMAIN hp' -> 0..MaxHp] /\ monsters' \subseteq DOMAIN hp'
      /\ DOMAIN hp \subseteq DOMAIN hp' /\ DOMAIN hp' \subseteq DOMAIN hp \cup {nextId}
  <2>1. CASE EnterBoss(c)
    <3>1. hp' = Put(hp, nextId, MaxHp) /\ monsters' = monsters \cup {nextId}
      BY <2>1 DEF EnterBoss
    <3>2. Put(hp, nextId, MaxHp) \in [DOMAIN hp \cup {nextId} -> 0..MaxHp]
      BY <1>5, PutType DEF Types
    <3> QED BY <3>1, <3>2, PutFacts DEF Types
  <2>2. CASE EnterItem(c)
    BY <2>2 DEF Types, EnterItem, creatures
  <2> QED BY <2>1, <2>2
<1>7. Aimed(pc', DOMAIN hp')
  <2>1. CASE EnterBoss(c)
    <3>1. Finish(c, Idle)
      BY <2>1 DEF EnterBoss
    <3> QED BY <3>1, <1>6, FinishFacts, HaltAimed
  <2>2. CASE EnterItem(c)
    <3>1. Proceed(c, "sethp") /\ pc[c].at \notin Resting
      BY <2>2 DEF EnterItem, TellDropped, At, Resting
    <3>2. pc' \in [Clients -> Handlers] /\ (Halted(c) \/ Advanced(c, "sethp"))
      BY <3>1, ProceedFacts DEF Labels
    <3> QED BY <3>1, <3>2, <1>6, HaltAimed
  <2> QED BY <2>1, <2>2
<1>8. /\ view \in [Clients -> SUBSET (Given \cup {nextId})]
      /\ gap \in [Clients -> SUBSET (Given \cup {nextId})]
  BY DEF Types
<1>9. /\ view' \in [Clients -> SUBSET (Given \cup {nextId})]
      /\ gap' \in [Clients -> SUBSET (Given \cup {nextId})]
  BY <1>1, <1>8, ToldTypes
<1>10. myPlayer' \in [Clients -> {NoObject} \cup DOMAIN hp']
  BY <1>2, <1>6 DEF Types
<1> QED BY <1>2, <1>3, <1>4, <1>6, <1>7, <1>9, <1>10, TypesNewObject DEF Types

(* SpawnPlayer and SpawnRevived put the player made into the room.         *)
LEMMA TypesSpawn ==
  ASSUME Types, Makers, NEW c \in Clients, SpawnPlayer(c) \/ SpawnRevived(c)
  PROVE  Types'
<1>1. /\ players' = Put(players, Created, c)
      /\ UNCHANGED <<monsters, items, nextId, hp, dead, myPlayer, bag>>
  BY DEF SpawnPlayer, SpawnRevived, creatures
<1>2. Created \in DOMAIN hp /\ Created \in Given
  BY DEF SpawnPlayer, SpawnRevived, At, Makers, Types
<1>3. /\ players' \in [DOMAIN players' -> Clients]
      /\ DOMAIN players' = DOMAIN players \cup {Created}
  <2>1. Put(players, Created, c) \in [DOMAIN players \cup {Created} -> Clients]
    BY PutType DEF Types
  <2> QED BY <1>1, <2>1, PutFacts
<1>4. Objects' = Objects \cup {Created}
  BY <1>1, <1>3 DEF Objects
<1>5. /\ view' \in [Clients -> SUBSET Given] /\ gap' \in [Clients -> SUBSET Given]
      /\ lock' \in {Free, Hung}
      /\ connected' \in [Clients -> BOOLEAN] /\ leaving' \subseteq Clients
  <2>1. CASE SpawnPlayer(c)
    <3>1. PICK reached \in SUBSET Clients :
            /\ BroadCastPlayer(players, reached)
            /\ view' = [d \in Clients |-> IF d = c THEN Objects \cup {Created}
                                          ELSE IF d \in reached THEN view[d] \cup {Created}
                                          ELSE view[d]]
            /\ gap' = [Miss(Created, reached) EXCEPT ![c] = {}]
      BY <2>1 DEF SpawnPlayer
    <3>2. Miss(Created, reached) \in [Clients -> SUBSET Given]
      BY <1>2 DEF Miss, Types
    <3>3. players \in [DOMAIN players -> Clients]
      BY DEF Types
    <3>4. /\ lock' \in {Free, Hung}
          /\ connected' \in [Clients -> BOOLEAN] /\ leaving' \subseteq Clients
      BY <3>1, <3>3, <1>3, BroadCastPlayerFacts
    <3> QED BY <3>1, <3>2, <3>4, <1>2 DEF Types
  <2>2. CASE SpawnRevived(c)
    <3>1. PICK reached \in SUBSET Clients :
            BroadCastPlayer(players', reached) /\ AddObject(Created, reached)
      BY <2>2 DEF SpawnRevived
    <3>2. /\ lock' \in {Free, Hung}
          /\ connected' \in [Clients -> BOOLEAN] /\ leaving' \subseteq Clients
      BY <3>1, <1>3, BroadCastPlayerFacts
    <3> QED BY <3>1, <3>2, <1>2, ToldTypes DEF Types
  <2> QED BY <2>1, <2>2
<1>6. Aimed(pc', DOMAIN hp)
  <2>1. CASE SpawnPlayer(c)
    <3>1. Finish(c, Idle)
      BY <2>1 DEF SpawnPlayer
    <3> QED BY <3>1, FinishFacts, HaltAimed
  <2>2. CASE SpawnRevived(c)
    <3>1. Proceed(c, "sethp") /\ pc[c].at \notin Resting
      BY <2>2 DEF SpawnRevived, At, Resting
    <3>2. pc' \in [Clients -> Handlers] /\ (Halted(c) \/ Advanced(c, "sethp"))
      BY <3>1, ProceedFacts DEF Labels
    <3> QED BY <3>1, <3>2, HaltAimed
  <2> QED BY <2>1, <2>2
<1>7. Given' = Given
  BY <1>1 DEF Given
<1> QED BY <1>1, <1>2, <1>3, <1>4, <1>5, <1>6, <1>7 DEF Types

(* RemoveDead, OnDisconnected and HandlePickUpItem take an object out.     *)
LEMMA TypesRemove ==
  ASSUME Types, NEW c \in Clients,
         \/ RemoveDead(c) \/ OnDisconnected(c)
         \/ \E i \in items : HandlePickUpItem(c, i)
  PROVE  Types'
<1>1. CASE RemoveDead(c)
  <2>1. /\ players' = Drop(players, pc[c].target)
        /\ monsters' = monsters \ {pc[c].target}
        /\ Proceed(c, "find") /\ pc[c].at = "remove"
        /\ UNCHANGED <<items, nextId, hp, dead, myPlayer, bag>>
    BY <1>1 DEF RemoveDead, TellRemoved, At, creatures
  <2>2. PICK reached \in SUBSET Clients :
          BroadCast(players', reached, leaving) /\ RemoveObject(pc[c].target, reached)
    BY <1>1 DEF RemoveDead, TellRemoved
  <2>3. /\ players' \in [DOMAIN players' -> Clients]
        /\ DOMAIN players' = DOMAIN players \ {pc[c].target}
    <3>1. Drop(players, pc[c].target) \in [DOMAIN players \ {pc[c].target} -> Clients]
      BY DropType DEF Types
    <3> QED BY <2>1, <3>1, DropFacts
  <2>4. Objects' \subseteq Objects
    BY <2>1, <2>3 DEF Objects
  <2>5. Aimed(pc', DOMAIN hp)
    <3>1. pc' \in [Clients -> Handlers] /\ (Halted(c) \/ Advanced(c, "find"))
      BY <2>1, ProceedFacts DEF Labels
    <3> QED BY <2>1, <3>1, HaltAimed DEF Resting
  <2>6. pc[c].target \in Given
    BY <2>1 DEF Types, Aimed, Resting
  <2>7. view' \in [Clients -> SUBSET Given] /\ gap' \in [Clients -> SUBSET Given]
    BY <2>2, <2>6, ToldTypes DEF Types
  <2>8. /\ lock' \in {Free, Hung}
        /\ connected' \in [Clients -> BOOLEAN] /\ leaving' \subseteq Clients
    <3>1. leaving \in SUBSET Clients
      BY DEF Types
    <3> QED BY <2>2, <2>3, <3>1, BroadCastFacts
  <2> QED BY <2>1, <2>3, <2>4, <2>5, <2>7, <2>8, TypesNoObject DEF Types
<1>2. CASE OnDisconnected(c)
  <2>1. UNCHANGED <<monsters, items, nextId, hp, dead, myPlayer, pc, bag>>
    BY <1>2 DEF OnDisconnected, creatures
  <2>2. CASE /\ UNCHANGED <<players, connected, lock, view, gap>>
             /\ leaving' \subseteq leaving
    <3>1. Objects' = Objects
      BY <2>1, <2>2 DEF Objects
    <3> QED BY <2>1, <2>2, <3>1, TypesNoObject DEF Types
  <2>3. CASE /\ myPlayer[c] # NoObject /\ players' = Drop(players, myPlayer[c])
             /\ \E reached \in SUBSET Clients :
                  /\ BroadCast(players', reached, leaving \ {c})
                  /\ RemoveObject(myPlayer[c], reached)
    <3>1. /\ players' \in [DOMAIN players' -> Clients]
          /\ DOMAIN players' = DOMAIN players \ {myPlayer[c]}
      <4>1. Drop(players, myPlayer[c]) \in [DOMAIN players \ {myPlayer[c]} -> Clients]
        BY DropType DEF Types
      <4> QED BY <2>3, <4>1, DropFacts
    <3>2. Objects' \subseteq Objects
      BY <2>1, <3>1 DEF Objects
    <3>3. PICK reached \in SUBSET Clients :
            /\ BroadCast(players', reached, leaving \ {c})
            /\ RemoveObject(myPlayer[c], reached)
      BY <2>3
    <3>4. view' \in [Clients -> SUBSET Given] /\ gap' \in [Clients -> SUBSET Given]
      BY <2>3, <3>3, ToldTypes DEF Types
    <3>5. /\ lock' \in {Free, Hung}
          /\ connected' \in [Clients -> BOOLEAN] /\ leaving' \subseteq Clients
      <4>1. leaving \ {c} \in SUBSET Clients
        BY DEF Types
      <4> QED BY <3>1, <3>3, <4>1, BroadCastFacts
    <3> QED BY <2>1, <3>1, <3>2, <3>4, <3>5, TypesNoObject DEF Types
  <2> QED BY <1>2, <2>2, <2>3 DEF OnDisconnected, told
<1>3. ASSUME NEW i \in items, HandlePickUpItem(c, i) PROVE Types'
  <2>1. /\ items' = items \ {i} /\ Finish(c, Idle)
        /\ bag' \in {bag, [bag EXCEPT ![c] = @ \cup {i}]}
        /\ UNCHANGED <<players, monsters, nextId, hp, dead, myPlayer>>
    BY <1>3 DEF HandlePickUpItem, creatures
  <2>2. PICK reached \in SUBSET Clients :
          /\ BroadCast(players, reached, leaving)
          /\ RemoveObject(i, {d \in reached : myPlayer[c] \in view[d]})
    BY <1>3 DEF HandlePickUpItem, PickItem
  <2>3. Objects' \subseteq Objects /\ i \in Given
    BY <2>1 DEF Objects, Types
  <2>4. bag' \in [Clients -> SUBSET Given]
    BY <2>1, <2>3 DEF Types
  <2>5. view' \in [Clients -> SUBSET Given] /\ gap' \in [Clients -> SUBSET Given]
    BY <2>2, <2>3, ToldTypes DEF Types
  <2>6. /\ lock' \in {Free, Hung}
        /\ connected' \in [Clients -> BOOLEAN] /\ leaving' \subseteq Clients
    <3>1. players \in [DOMAIN players -> Clients] /\ leaving \in SUBSET Clients
      BY DEF Types
    <3> QED BY <2>2, <3>1, BroadCastFacts
  <2>7. Aimed(pc', DOMAIN hp)
    BY <2>1, FinishFacts, HaltAimed
  <2> QED BY <2>1, <2>3, <2>4, <2>5, <2>6, <2>7, TypesNoObject DEF Types
<1> QED BY <1>1, <1>2, <1>3

(* HandleChangedHP begins; connections break; HandleMove's send fails.     *)
LEMMA TypesOthers ==
  ASSUME Types, NEW c \in Clients,
         \/ PeerClose(c) \/ Disconnect(c) \/ HandleMove(c)
         \/ \E target, causer \in Objects, damage \in 1..MaxHp :
              HandleChangedHP(c, target, causer, damage)
  PROVE  Types'
<1>1. CASE PeerClose(c) \/ Disconnect(c) \/ HandleMove(c)
  <2>1. /\ UNCHANGED <<players, monsters, items, nextId, hp, dead, myPlayer, view, gap, bag>>
        /\ lock' \in {Free, Hung} \cup Clients
        /\ connected' \in [Clients -> BOOLEAN] /\ leaving' \subseteq Clients
        /\ Aimed(pc', DOMAIN hp)
    <3>1. CASE PeerClose(c)
      BY <3>1 DEF PeerClose, maps, creatures, told, Types
    <3>2. CASE Disconnect(c)
      BY <3>2 DEF Disconnect, maps, creatures, told, Types
    <3>3. CASE HandleMove(c)
      <4>1. /\ UNCHANGED <<players, monsters, items, nextId, hp, dead, myPlayer, view, gap, bag>>
            /\ Finish(c, Idle)
        BY <3>3 DEF HandleMove, maps, creatures, told
      <4>2. PICK d \in Reached(players) : SendFails(d)
        BY <3>3 DEF HandleMove
      <4>3. d \in Clients
        BY DEF Reached, Range, Types
      <4>4. /\ lock' = Hung
            /\ connected' \in [Clients -> BOOLEAN] /\ leaving' \subseteq Clients
        BY <4>2, <4>3, SendFailsFacts
      <4>5. Aimed(pc', DOMAIN hp)
        BY <4>1, FinishFacts, HaltAimed
      <4> QED BY <4>1, <4>4, <4>5
    <3> QED BY <1>1, <3>1, <3>2, <3>3
  <2>2. Objects' = Objects
    BY <2>1 DEF Objects
  <2> QED BY <2>1, <2>2, TypesNoObject DEF Types
<1>2. ASSUME NEW target \in Objects, NEW causer \in Objects, NEW damage \in 1..MaxHp,
             HandleChangedHP(c, target, causer, damage)
      PROVE  Types'
  <2> DEFINE left == Max({hp[target] - damage, 0})
             at == IF damage < hp[target] THEN "sethp" ELSE "check"
  <2>1. /\ UNCHANGED <<players, monsters, items, nextId, hp, dead, myPlayer, connected,
                       leaving, lock, view, gap, bag>>
        /\ pc' = [pc EXCEPT ![c] = [at |-> at, target |-> target, causer |-> causer,
                                    left |-> left]]
        /\ target = myPlayer[c] \/ target \in monsters
        /\ myPlayer[c] \in DOMAIN players
    BY <1>2 DEF HandleChangedHP, Playing, maps, creatures, sessions, told
  <2>2. target \in DOMAIN hp /\ hp[target] \in 0..MaxHp
    BY <2>1 DEF Types
  <2>3. left \in 0..MaxHp
    BY <2>2, LeftFacts
  <2>4. target \in Nat /\ causer \in Nat
    BY DEF Types, Given
  <2> HIDE DEF left
  <2>5. [at |-> at, target |-> target, causer |-> causer, left |-> left] \in Handlers
    BY <2>3, <2>4 DEF Handlers, Labels
  <2>6. Aimed(pc', DOMAIN hp)
    BY <2>1, <2>2, <2>5 DEF Types, Aimed
  <2>7. Objects' = Objects
    BY <2>1 DEF Objects
  <2> QED BY <2>1, <2>6, <2>7, TypesNoObject DEF Types
<1> QED BY <1>1, <1>2

-----------------------------------------------------------------------------
(* The rest of the invariant, one part after the other.  What a step does  *)
(* to the variables that the parts are about:                              *)

(* HandleChangedHP, whose target is a creature in the room.                *)
LEMMA HitStep ==
  ASSUME Types, NEW c \in Clients, NEW target, NEW causer, NEW damage \in 1..MaxHp,
         HandleChangedHP(c, target, causer, damage)
  PROVE  /\ UNCHANGED <<players, monsters, items, nextId, hp, dead, myPlayer, lock,
                        view, gap, bag>>
         /\ target \in DOMAIN players \cup monsters
         /\ pc[c].at = "idle" /\ pc'[c].at \in {"sethp", "check"}
         /\ pc'[c].target = target
         /\ pc'[c].at = "sethp" => pc'[c].left # 0
         /\ \A d \in Clients \ {c} : pc'[d] = pc[d]
<1> DEFINE left == Max({hp[target] - damage, 0})
           at == IF damage < hp[target] THEN "sethp" ELSE "check"
<1>1. /\ UNCHANGED <<players, monsters, items, nextId, hp, dead, myPlayer, lock,
                     view, gap, bag>>
      /\ pc[c].at = "idle"
      /\ pc' = [pc EXCEPT ![c] = [at |-> at, target |-> target, causer |-> causer,
                                  left |-> left]]
      /\ target \in DOMAIN players \cup monsters
  BY DEF HandleChangedHP, Playing, Ready, maps, creatures, sessions, told
<1>2. at = "sethp" => left # 0
  <2>1. hp[target] \in 0..MaxHp
    BY <1>1 DEF Types
  <2> QED BY <2>1, LeftFacts
<1> HIDE DEF left
<1>3. pc'[c] = [at |-> at, target |-> target, causer |-> causer, left |-> left]
      /\ \A d \in Clients \ {c} : pc'[d] = pc[d]
  BY <1>1 DEF Types, Aimed
<1> QED BY <1>1, <1>2, <1>3

(* The steps of a handler from one place to another that touch no map.     *)
Quiet(c, from, to) ==
  /\ UNCHANGED <<players, monsters, items, nextId, myPlayer, lock, view, gap, bag>>
  /\ pc[c].at = from /\ pc'[c].at = to
  /\ pc'[c].target = pc[c].target /\ pc'[c].left = pc[c].left
  /\ \A d \in Clients \ {c} : pc'[d] = pc[d]

LEMMA QuietSteps ==
  ASSUME Types, NEW c \in Clients
  PROVE  /\ Handle_C_EnterRoom(c) =>
              Quiet(c, "idle", "enter") /\ UNCHANGED creatures /\ myPlayer[c] = NoObject
         /\ CheckDead(c) =>
              /\ UNCHANGED creatures
              /\ \/ Quiet(c, "check", "mark")
                 \/ Quiet(c, "check", "sethp") /\ pc[c].target \in dead
         /\ MarkDead(c) =>
              Quiet(c, "mark", "remove") /\ hp' = hp /\ dead' = dead \cup {pc[c].target}
         /\ FindCauser(c) =>
              /\ UNCHANGED creatures
              /\ \/ /\ pc' = pc
                    /\ UNCHANGED <<players, monsters, items, nextId, myPlayer, lock,
                                   view, gap, bag>>
                 \/ Quiet(c, "find", "revive") /\ pc[c].target = myPlayer[c]
                 \/ Quiet(c, "find", "drop")
<1>1. ASSUME NEW l \in Labels, pc' = [pc EXCEPT ![c].at = l],
             UNCHANGED <<players, monsters, items, nextId, myPlayer, lock, view, gap, bag>>
      PROVE  Quiet(c, pc[c].at, l)
  BY <1>1, GotoFacts DEF Quiet
<1>2. Handle_C_EnterRoom(c) =>
        Quiet(c, "idle", "enter") /\ UNCHANGED creatures /\ myPlayer[c] = NoObject
  <2> SUFFICES ASSUME Handle_C_EnterRoom(c)
               PROVE  Quiet(c, "idle", "enter") /\ UNCHANGED creatures /\ myPlayer[c] = NoObject
    OBVIOUS
  <2>1. /\ pc' = [pc EXCEPT ![c].at = "enter"] /\ UNCHANGED creatures
        /\ UNCHANGED <<players, monsters, items, nextId, myPlayer, lock, view, gap, bag>>
        /\ pc[c].at = "idle" /\ myPlayer[c] = NoObject
    BY DEF Handle_C_EnterRoom, Ready, maps, sessions, told
  <2> QED BY <2>1, <1>1 DEF Labels
<1>3. CheckDead(c) =>
        /\ UNCHANGED creatures
        /\ \/ Quiet(c, "check", "mark")
           \/ Quiet(c, "check", "sethp") /\ pc[c].target \in dead
  <2> SUFFICES ASSUME CheckDead(c)
               PROVE  /\ UNCHANGED creatures
                      /\ \/ Quiet(c, "check", "mark")
                         \/ Quiet(c, "check", "sethp") /\ pc[c].target \in dead
    OBVIOUS
  <2>1. /\ UNCHANGED <<players, monsters, items, nextId, myPlayer, lock, view, gap, bag>>
        /\ UNCHANGED creatures /\ pc[c].at = "check"
        /\ pc' = [pc EXCEPT ![c].at = IF pc[c].target \in dead THEN "sethp" ELSE "mark"]
    BY DEF CheckDead, At, Goto, maps, sessions, told
  <2>2. CASE pc[c].target \in dead
    BY <2>1, <2>2, <1>1 DEF Labels
  <2>3. CASE pc[c].target \notin dead
    BY <2>1, <2>3, <1>1 DEF Labels
  <2> QED BY <2>2, <2>3
<1>4. MarkDead(c) =>
        Quiet(c, "mark", "remove") /\ hp' = hp /\ dead' = dead \cup {pc[c].target}
  <2> SUFFICES ASSUME MarkDead(c)
               PROVE  Quiet(c, "mark", "remove") /\ hp' = hp /\ dead' = dead \cup {pc[c].target}
    OBVIOUS
  <2>1. /\ UNCHANGED <<players, monsters, items, nextId, myPlayer, lock, view, gap, bag>>
        /\ hp' = hp /\ dead' = dead \cup {pc[c].target} /\ pc[c].at = "mark"
        /\ pc' = [pc EXCEPT ![c].at = "remove"]
    BY DEF MarkDead, At, Goto, maps, sessions, told
  <2> QED BY <2>1, <1>1 DEF Labels
<1>5. FindCauser(c) =>
        /\ UNCHANGED creatures
        /\ \/ /\ pc' = pc
              /\ UNCHANGED <<players, monsters, items, nextId, myPlayer, lock,
                             view, gap, bag>>
           \/ Quiet(c, "find", "revive") /\ pc[c].target = myPlayer[c]
           \/ Quiet(c, "find", "drop")
  <2> SUFFICES ASSUME FindCauser(c)
               PROVE  /\ UNCHANGED creatures
                      /\ \/ /\ pc' = pc
                            /\ UNCHANGED <<players, monsters, items, nextId, myPlayer, lock,
                                           view, gap, bag>>
                         \/ Quiet(c, "find", "revive") /\ pc[c].target = myPlayer[c]
                         \/ Quiet(c, "find", "drop")
    OBVIOUS
  <2>1. /\ UNCHANGED <<players, monsters, items, nextId, myPlayer, lock, view, gap, bag>>
        /\ UNCHANGED creatures /\ pc[c].at = "find"
        /\ \/ pc' = pc
           \/ pc' = [pc EXCEPT ![c].at = "revive"] /\ pc[c].target = myPlayer[c]
           \/ pc' = [pc EXCEPT ![c].at = "drop"]
    BY Zenon DEF FindCauser, DeadIsPlayer, At, Goto, maps, sessions, told
  <2> QED BY <2>1, <1>1 DEF Labels
<1> QED BY <1>2, <1>3, <1>4, <1>5

-----------------------------------------------------------------------------
(* The parts of RoomInv under the handler's steps that touch no map.       *)

LEMMA NothingKeeps ==
  ASSUME RoomInv, UNCHANGED <<players, monsters, items, nextId, myPlayer, lock, view, gap,
                              bag, hp, dead, pc>>
  PROVE  RoomInv'
BY DEF RoomInv, Makers, Departed, OnePlayer, Apart, Informed, Stale, PickedOnce, Cleared,
       Objects, Created

(* What a step between two places must bring along.                        *)
Goes(c, from, to) ==
  /\ Quiet(c, from, to) /\ hp' = hp
  /\ dead' = IF to = "remove" THEN dead \cup {pc[c].target} ELSE dead
  /\ from \notin {"remove", "spawn"} /\ to \notin {"spawn", "respawn"}
  /\ to = "enter" => myPlayer[c] = NoObject
  /\ to = "find" => from = "find"
  /\ to = "revive" => from = "find" /\ pc[c].target = myPlayer[c]
  /\ to = "drop" => from = "find"
  /\ to = "sethp" => pc[c].target \in dead

LEMMA GoesKeeps ==
  ASSUME Types, RoomInv, NEW c \in Clients, NEW from, NEW to, Goes(c, from, to)
  PROVE  RoomInv'
<1> USE DEF RoomInv, Goes, Quiet
<1>1. Objects' = Objects /\ Created' = Created
  BY DEF Objects, Created
<1>2. \A d \in Clients : pc'[d].target = pc[d].target
  OBVIOUS
<1>3. Makers'
  BY <1>1, <1>2 DEF Makers
<1>4. Departed'
  BY <1>2 DEF Departed
<1>5. OnePlayer' /\ Apart' /\ PickedOnce'
  BY <1>2 DEF OnePlayer, Apart, PickedOnce
<1>6. Informed'
  BY <1>1 DEF Informed, Stale
<1>7. Cleared'
  <2>1. ASSUME NEW m \in monsters', m \in dead'
        PROVE  \E d \in Clients : pc'[d].at = "remove" /\ pc'[d].target = m
    <3>1. CASE m \in dead
      <4>1. PICK d \in Clients : pc[d].at = "remove" /\ pc[d].target = m
        BY <2>1, <3>1 DEF Cleared
      <4> QED BY <4>1
    <3>2. CASE m \notin dead
      BY <2>1, <3>2
    <3> QED BY <3>1, <3>2
  <2>2. dead \subseteq dead'
    OBVIOUS
  <2>3. ASSUME NEW d \in Clients
        PROVE  /\ pc'[d].at \in {"remove", "find", "revive", "respawn", "drop"} =>
                    pc'[d].target \in dead'
               /\ pc'[d].at = "sethp" /\ pc'[d].left = 0 => pc'[d].target \in dead'
    BY <2>2 DEF Cleared
  <2> QED BY <2>1, <2>2, <2>3 DEF Cleared
<1> QED BY <1>3, <1>4, <1>5, <1>6, <1>7

LEMMA QuietKeeps ==
  ASSUME Types, RoomInv, NEW c \in Clients,
         Handle_C_EnterRoom(c) \/ CheckDead(c) \/ MarkDead(c) \/ FindCauser(c)
  PROVE  RoomInv'
<1>1. CASE Handle_C_EnterRoom(c)
  <2>1. Goes(c, "idle", "enter")
    BY <1>1, QuietSteps DEF Goes, creatures
  <2> QED BY <2>1, GoesKeeps
<1>2. CASE CheckDead(c)
  <2>1. Goes(c, "check", "mark") \/ Goes(c, "check", "sethp")
    BY <1>2, QuietSteps DEF Goes, creatures
  <2> QED BY <2>1, GoesKeeps
<1>3. CASE MarkDead(c)
  <2>1. Goes(c, "mark", "remove")
    BY <1>3, QuietSteps DEF Goes, creatures
  <2> QED BY <2>1, GoesKeeps
<1>4. CASE FindCauser(c)
  <2>1. \/ Goes(c, "find", "revive") \/ Goes(c, "find", "drop")
        \/ UNCHANGED <<players, monsters, items, nextId, myPlayer, lock, view, gap, bag,
                       hp, dead, pc>>
    BY <1>4, QuietSteps DEF Goes, creatures
  <2>2. CASE UNCHANGED <<players, monsters, items, nextId, myPlayer, lock, view, gap, bag,
                         hp, dead, pc>>
    BY <2>2, NothingKeeps
  <2> QED BY <2>1, <2>2, GoesKeeps
<1> QED BY <1>1, <1>2, <1>3, <1>4

(* HandleChangedHP: the target is a creature in the room.                  *)
LEMMA HitKeeps ==
  ASSUME Types, RoomInv, NEW c \in Clients, NEW target, NEW causer,
         NEW damage \in 1..MaxHp, HandleChangedHP(c, target, causer, damage)
  PROVE  RoomInv'
<1> USE DEF RoomInv
<1>1. /\ UNCHANGED <<players, monsters, items, nextId, hp, dead, myPlayer, lock,
                     view, gap, bag>>
      /\ target \in DOMAIN players \cup monsters
      /\ pc[c].at = "idle" /\ pc'[c].at \in {"sethp", "check"} /\ pc'[c].target = target
      /\ pc'[c].at = "sethp" => pc'[c].left # 0
      /\ \A d \in Clients \ {c} : pc'[d] = pc[d]
  BY HitStep
<1>2. Objects' = Objects /\ Created' = Created
  BY <1>1 DEF Objects, Created
<1>3. Makers'
  BY <1>1, <1>2 DEF Makers, Objects
<1>4. Departed' /\ OnePlayer' /\ PickedOnce'
  BY <1>1 DEF Departed, OnePlayer, PickedOnce
<1>5. Apart'
  BY <1>1 DEF Apart
<1>6. Informed'
  BY <1>1, <1>2 DEF Informed, Stale
<1>7. Cleared'
  <2>1. ASSUME NEW m \in monsters', m \in dead'
        PROVE  \E d \in Clients : pc'[d].at = "remove" /\ pc'[d].target = m
    <3>1. PICK d \in Clients : pc[d].at = "remove" /\ pc[d].target = m
      BY <1>1, <2>1 DEF Cleared
    <3> QED BY <1>1, <3>1
  <2> QED BY <1>1, <2>1 DEF Cleared
<1> QED BY <1>3, <1>4, <1>5, <1>6, <1>7

(* SetHP: nothing is left only of what is marked dead.                     *)
LEMMA SetHPKeeps ==
  ASSUME Types, RoomInv, NEW c \in Clients, SetHP(c)
  PROVE  RoomInv'
<1> USE DEF RoomInv
<1>1. /\ UNCHANGED <<players, monsters, items, nextId, dead, myPlayer, lock, view, gap, bag>>
      /\ hp' = [hp EXCEPT ![pc[c].target] = pc[c].left]
      /\ pc[c].at = "sethp" /\ pc' = [pc EXCEPT ![c] = Idle]
  BY DEF SetHP, At, maps, sessions, told
<1>2. pc'[c] = Idle /\ \A d \in Clients \ {c} : pc'[d] = pc[d]
  BY <1>1 DEF Types, Aimed
<1>3. Idle.at = "idle" /\ Idle.target = NoObject
  BY DEF Idle
<1>4. Objects' = Objects /\ Created' = Created
  BY <1>1 DEF Objects, Created
<1>5. Makers' /\ Departed'
  BY <1>1, <1>2, <1>3, <1>4 DEF Makers, Departed
<1>6. OnePlayer' /\ PickedOnce'
  BY <1>1 DEF OnePlayer, PickedOnce
<1>7. Apart'
  BY <1>1, <1>2, <1>3, NoObjectNotGiven DEF Apart, Types, Objects
<1>8. Informed'
  BY <1>1, <1>2, <1>3, <1>4 DEF Informed, Stale
<1>9. Cleared'
  <2>1. ASSUME NEW m \in monsters', m \in dead'
        PROVE  \E d \in Clients : pc'[d].at = "remove" /\ pc'[d].target = m
    <3>1. PICK d \in Clients : pc[d].at = "remove" /\ pc[d].target = m
      BY <1>1, <2>1 DEF Cleared
    <3> QED BY <1>1, <1>2, <3>1
  <2>2. ASSUME NEW m \in monsters', hp'[m] = 0
        PROVE  m \in dead'
    BY <1>1, <2>2 DEF Cleared, Types
  <2> QED BY <1>1, <1>2, <1>3, <2>1, <2>2 DEF Cleared
<1> QED BY <1>5, <1>6, <1>7, <1>8, <1>9

-----------------------------------------------------------------------------
(* The parts of RoomInv under the steps that change the maps.              *)

(* EnterPlayer and Revive: the new player is in no map yet.                *)
LEMMA CreateKeeps ==
  ASSUME Types, RoomInv, NEW c \in Clients, EnterPlayer(c) \/ Revive(c)
  PROVE  RoomInv'
<1> USE DEF RoomInv
<1>1. PICK l \in {"spawn", "respawn"} :
        /\ UNCHANGED <<players, monsters, items, dead, view, gap, bag>>
        /\ nextId \in Ids /\ nextId' = nextId + 1 /\ hp' = Put(hp, nextId, MaxHp)
        /\ lock = Free /\ lock' = c
        /\ myPlayer' = [myPlayer EXCEPT ![c] = nextId]
        /\ pc' = [pc EXCEPT ![c].at = l]
        /\ pc[c].at = IF l = "spawn" THEN "enter" ELSE "revive"
  BY DEF EnterPlayer, Revive, CreatePlayer, At, told
<1>2. /\ pc'[c].at = l
      /\ \A d \in Clients : /\ d # c => pc'[d] = pc[d]
                            /\ pc'[d].target = pc[d].target
  BY <1>1, GotoFacts DEF Labels
<1>3. Objects' = Objects /\ Created' = nextId
  BY <1>1 DEF Objects, Created, Ids, Types
<1>4. nextId \notin Given /\ nextId # NoObject
  BY <1>1, GivenGrows DEF Ids
<1>5. /\ myPlayer'[c] = nextId
      /\ \A d \in Clients \ {c} : myPlayer'[d] = myPlayer[d]
  BY <1>1 DEF Types
<1>6. \A d \in Clients : pc[d].target # nextId
  BY <1>4 DEF Types, Aimed
<1>7. Makers'
  <2>1. \A d \in Clients : pc[d].at \notin {"spawn", "respawn"}
    BY <1>1, RoomAssumption DEF Makers
  <2>2. nextId \notin Objects
    BY <1>4 DEF Types
  <2> QED BY <1>1, <1>2, <1>3, <1>4, <1>5, <1>6, <2>1, <2>2 DEF Makers
<1>8. Departed'
  BY <1>1, <1>2, <1>5 DEF Departed
<1>9. OnePlayer'
  <2>1. \A i \in DOMAIN players : players[i] # c
    <3>1. myPlayer[c] = NoObject \/ myPlayer[c] \notin DOMAIN players
      BY <1>1 DEF Departed
    <3> QED BY <3>1, NoObjectNotGiven DEF OnePlayer, Types, Objects
  <2>2. \A i \in DOMAIN players : players[i] \in Clients
    BY DEF Types
  <2> QED BY <1>1, <1>5, <2>1, <2>2 DEF OnePlayer
<1>10. Apart'
  <2>1. nextId \notin items \cup monsters
    BY <1>4 DEF Types, Objects
  <2> QED BY <1>1, <1>2, <1>5, <2>1 DEF Apart
<1>11. Informed'
  <2>1. l = "respawn" => myPlayer[c] # NoObject
    BY <1>1, NoObjectNotGiven DEF Departed, Types, Aimed, Resting
  <2> QED BY <1>1, <1>2, <1>3, <1>5, <2>1 DEF Informed, Stale
<1>12. PickedOnce'
  BY <1>1 DEF PickedOnce
<1>13. Cleared'
  <2>1. \A m \in monsters : hp'[m] = hp[m]
    BY <1>1, <1>4 DEF Types, Put
  <2>2. ASSUME NEW m \in monsters', m \in dead'
        PROVE  \E d \in Clients : pc'[d].at = "remove" /\ pc'[d].target = m
    <3>1. PICK d \in Clients : pc[d].at = "remove" /\ pc[d].target = m
      BY <1>1, <2>2 DEF Cleared
    <3> QED BY <1>1, <1>2, <3>1
  <2>3. ASSUME NEW d \in Clients
        PROVE  /\ pc'[d].at \in {"remove", "find", "revive", "respawn", "drop"} =>
                    pc'[d].target \in dead'
               /\ pc'[d].at = "sethp" /\ pc'[d].left = 0 => pc'[d].target \in dead'
    BY <1>1, <1>2 DEF Cleared
  <2> QED BY <1>1, <2>1, <2>2, <2>3 DEF Cleared
<1> QED BY <1>7, <1>8, <1>9, <1>10, <1>11, <1>12, <1>13

(* SpawnPlayer and SpawnRevived: the player is the session's, and who has  *)
(* entered knows of it or has missed it.                                   *)
LEMMA SpawnKeeps ==
  ASSUME Types, RoomInv, NEW c \in Clients, SpawnPlayer(c) \/ SpawnRevived(c)
  PROVE  RoomInv'
<1> USE DEF RoomInv
<1>1. /\ UNCHANGED <<monsters, items, nextId, hp, dead, myPlayer, bag>>
      /\ players' = Put(players, Created, c)
      /\ pc[c].at \in {"spawn", "respawn"}
  BY DEF SpawnPlayer, SpawnRevived, At, creatures
<1>2. /\ lock = c /\ myPlayer[c] = Created /\ Created \notin Objects /\ Created # NoObject
      /\ \A d \in Clients : pc[d].target # Created
  BY <1>1 DEF Makers
<1>3. \A d \in Clients \ {c} : pc[d].at \notin {"spawn", "respawn"}
  BY <1>2 DEF Makers
<1>4. /\ \A d \in Clients \ {c} : pc'[d] = pc[d]
      /\ \/ pc'[c].at \in {"idle", "hung"} /\ pc'[c].target = NoObject
         \/ /\ pc[c].at = "respawn" /\ pc'[c].at = "sethp"
            /\ pc'[c].target = pc[c].target
  <2>1. CASE SpawnPlayer(c)
    <3>1. Finish(c, Idle)
      BY <2>1 DEF SpawnPlayer
    <3> QED BY <3>1, FinishFacts DEF Halted
  <2>2. CASE SpawnRevived(c)
    <3>1. Proceed(c, "sethp") /\ pc[c].at = "respawn"
      BY <2>2 DEF SpawnRevived, At
    <3>2. Halted(c) \/ Advanced(c, "sethp")
      BY <3>1, ProceedFacts DEF Labels
    <3> QED BY <3>1, <3>2 DEF Halted, Advanced
  <2> QED BY <2>1, <2>2
<1>5. /\ DOMAIN players' = DOMAIN players \cup {Created} /\ players'[Created] = c
      /\ \A i \in DOMAIN players : players'[i] = players[i]
  BY <1>1, <1>2 DEF Objects, Put
<1>6. Objects' = Objects \cup {Created}
  BY <1>1, <1>5 DEF Objects
<1>7. /\ SpawnPlayer(c) => /\ view'[c] = Objects \cup {Created}
                          /\ \A d \in Clients \ {c} : Added(d, Created)
      /\ SpawnRevived(c) => \A d \in Clients : Added(d, Created)
  <2>1. CASE SpawnPlayer(c)
    <3>1. PICK reached \in SUBSET Clients :
            /\ view' = [d \in Clients |-> IF d = c THEN Objects \cup {Created}
                                          ELSE IF d \in reached THEN view[d] \cup {Created}
                                          ELSE view[d]]
            /\ gap' = [Miss(Created, reached) EXCEPT ![c] = {}]
      BY <2>1 DEF SpawnPlayer
    <3>2. \A d \in Clients : Miss(Created, reached)[d] =
                             IF d \in reached THEN gap[d] ELSE gap[d] \cup {Created}
      BY DEF Miss
    <3>3. ~SpawnRevived(c)
      BY <2>1 DEF SpawnPlayer, SpawnRevived, At
    <3>4. \A d \in Clients \ {c} : gap'[d] = Miss(Created, reached)[d]
      BY <3>1 DEF Miss
    <3>5. \A d \in Clients \ {c} : Added(d, Created)
      BY <3>1, <3>2, <3>4 DEF Added
    <3> QED BY <3>1, <3>3, <3>5
  <2>2. CASE SpawnRevived(c)
    <3>1. PICK reached \in SUBSET Clients : AddObject(Created, reached)
      BY <2>2 DEF SpawnRevived
    <3>2. ~SpawnPlayer(c)
      BY <2>2 DEF SpawnPlayer, SpawnRevived, At
    <3> QED BY <3>1, <3>2, ToldFacts
  <2> QED BY <2>1, <2>2
<1>8. Makers'
  BY <1>3, <1>4 DEF Makers
<1>9. Departed'
  BY <1>1, <1>2, <1>4, <1>5 DEF Departed
<1>10. OnePlayer'
  BY <1>1, <1>2, <1>5 DEF OnePlayer
<1>11. Apart'
  <2>1. Created \notin items
    BY <1>2 DEF Objects
  <2>2. NoObject \notin items
    BY NoObjectNotGiven DEF Types, Objects
  <2> QED BY <1>1, <1>4, <1>5, <2>1, <2>2 DEF Apart
<1>12. Informed'
  <2> SUFFICES ASSUME NEW d \in Clients, myPlayer[d] # NoObject, pc'[d].at # "spawn"
               PROVE  Stale(d)' \subseteq gap'[d]
    BY <1>1 DEF Informed
  <2>1. CASE d = c /\ SpawnPlayer(c)
    BY <2>1, <1>6, <1>7 DEF Stale
  <2>2. CASE d = c /\ SpawnRevived(c)
    <3>1. pc[c].at = "respawn"
      BY <2>2 DEF SpawnRevived, At
    <3>2. Stale(c) \subseteq gap[c]
      BY <2>2, <3>1 DEF Informed
    <3> QED BY <2>2, <3>2, <1>6, <1>7 DEF Stale, Added
  <2>3. CASE d # c
    <3>1. Stale(d) \subseteq gap[d]
      BY <2>3, <1>4 DEF Informed
    <3>2. Added(d, Created)
      BY <2>3, <1>7
    <3> QED BY <3>1, <3>2, <1>6 DEF Stale, Added
  <2> QED BY <2>1, <2>2, <2>3
<1>13. PickedOnce'
  BY <1>1 DEF PickedOnce
<1>14. Cleared'
  <2>1. ASSUME NEW m \in monsters', m \in dead'
        PROVE  \E d \in Clients : pc'[d].at = "remove" /\ pc'[d].target = m
    <3>1. PICK d \in Clients : pc[d].at = "remove" /\ pc[d].target = m
      BY <1>1, <2>1 DEF Cleared
    <3> QED BY <1>1, <1>4, <3>1
  <2>2. ASSUME NEW d \in Clients
        PROVE  /\ pc'[d].at \in {"remove", "find", "revive", "respawn", "drop"} =>
                    pc'[d].target \in dead'
               /\ pc'[d].at = "sethp" /\ pc'[d].left = 0 => pc'[d].target \in dead'
    BY <1>1, <1>4 DEF Cleared
  <2> QED BY <1>1, <2>1, <2>2 DEF Cleared
<1> QED BY <1>8, <1>9, <1>10, <1>11, <1>12, <1>13, <1>14

(* EnterBoss and EnterItem: the id is new to everybody.                    *)
LEMMA EnterKeeps ==
  ASSUME Types, RoomInv, NEW c \in Clients, EnterBoss(c) \/ EnterItem(c)
  PROVE  RoomInv'
<1> USE DEF RoomInv
<1>1. /\ UNCHANGED <<players, dead, myPlayer, bag>> /\ lock = Free
      /\ nextId \in Ids /\ nextId' = nextId + 1
      /\ \/ monsters' = monsters \cup {nextId} /\ items' = items
         \/ monsters' = monsters /\ items' = items \cup {nextId}
      /\ \E reached : AddObject(nextId, reached)
      /\ \/ hp' = Put(hp, nextId, MaxHp)
         \/ hp' = hp /\ monsters' = monsters
  BY DEF EnterBoss, EnterItem, TellDropped, creatures
<1>2. /\ \A d \in Clients \ {c} : pc'[d] = pc[d]
      /\ pc[c].at \in {"idle", "drop"}
      /\ \/ pc'[c].at \in {"idle", "hung"} /\ pc'[c].target = NoObject
         \/ pc[c].at = "drop" /\ pc'[c].at = "sethp" /\ pc'[c].target = pc[c].target
  <2>1. CASE EnterBoss(c)
    <3>1. Finish(c, Idle) /\ pc[c].at = "idle"
      BY <2>1 DEF EnterBoss, Playing, Ready
    <3> QED BY <3>1, FinishFacts DEF Halted
  <2>2. CASE EnterItem(c)
    <3>1. Proceed(c, "sethp") /\ pc[c].at = "drop"
      BY <2>2 DEF EnterItem, TellDropped, At
    <3>2. Halted(c) \/ Advanced(c, "sethp")
      BY <3>1, ProceedFacts DEF Labels
    <3> QED BY <3>1, <3>2 DEF Halted, Advanced
  <2> QED BY <2>1, <2>2
<1>3. nextId \notin Given /\ nextId # NoObject
  BY <1>1, GivenGrows DEF Ids
<1>4. Objects' = Objects \cup {nextId} /\ nextId \notin Objects
  BY <1>1, <1>3 DEF Objects, Types
<1>5. Makers'
  <2>1. \A d \in Clients : pc[d].at \notin {"spawn", "respawn"}
    BY <1>1, RoomAssumption DEF Makers
  <2> QED BY <1>2, <2>1 DEF Makers
<1>6. Departed' /\ OnePlayer'
  BY <1>1, <1>2 DEF Departed, OnePlayer
<1>7. Apart'
  <2>1. \A d \in Clients : myPlayer[d] # nextId /\ pc[d].target # nextId
    BY <1>3 DEF Types, Aimed
  <2>2. NoObject \notin items \cup {nextId}
    BY <1>3, NoObjectNotGiven DEF Types, Objects
  <2> QED BY <1>1, <1>2, <1>4, <2>1, <2>2 DEF Apart, Objects
<1>8. Informed'
  <2> SUFFICES ASSUME NEW d \in Clients, myPlayer[d] # NoObject, pc'[d].at # "spawn"
               PROVE  Stale(d)' \subseteq gap'[d]
    BY <1>1 DEF Informed
  <2>1. Stale(d) \subseteq gap[d]
    BY <1>2 DEF Informed
  <2>2. Added(d, nextId)
    BY <1>1, ToldFacts
  <2> QED BY <2>1, <2>2, <1>4 DEF Stale, Added
<1>9. PickedOnce'
  <2>1. \A d \in Clients : nextId \notin bag[d]
    BY <1>3 DEF Types
  <2> QED BY <1>1, <2>1 DEF PickedOnce
<1>10. Cleared'
  <2>1. \A m \in monsters : hp'[m] = hp[m]
    BY <1>1, <1>3 DEF Types, Put
  <2>2. ASSUME nextId \in monsters'
        PROVE  nextId \notin dead /\ hp'[nextId] # 0
    <3>1. nextId \notin monsters /\ nextId \notin dead
      BY <1>3 DEF Types
    <3>2. hp'[nextId] = MaxHp
      BY <2>2, <3>1, <1>1 DEF Put
    <3> QED BY <3>1, <3>2, RoomAssumption
  <2>3. ASSUME NEW m \in monsters, m \in dead
        PROVE  \E d \in Clients : pc'[d].at = "remove" /\ pc'[d].target = m
    <3>1. PICK d \in Clients : pc[d].at = "remove" /\ pc[d].target = m
      BY <2>3 DEF Cleared
    <3> QED BY <1>2, <3>1
  <2>4. ASSUME NEW d \in Clients
        PROVE  /\ pc'[d].at \in {"remove", "find", "revive", "respawn", "drop"} =>
                    pc'[d].target \in dead'
               /\ pc'[d].at = "sethp" /\ pc'[d].left = 0 => pc'[d].target \in dead'
    BY <1>1, <1>2 DEF Cleared
  <2> QED BY <1>1, <2>1, <2>2, <2>3, <2>4 DEF Cleared
<1> QED BY <1>5, <1>6, <1>7, <1>8, <1>9, <1>10

(* Something is taken out of the maps under the mutex, and whoever plays   *)
(* is told.  All that a handler c may do meanwhile is to go from "remove"  *)
(* to "find", to end, or to hang.                                          *)
Takes(c, i) ==
  /\ UNCHANGED <<nextId, hp, dead, myPlayer>> /\ lock = Free
  /\ DOMAIN players' \subseteq DOMAIN players
  /\ \A j \in DOMAIN players' : players'[j] = players[j]
  /\ monsters' \subseteq monsters /\ items' \subseteq items
  /\ Objects' = Objects \ {i} /\ \A d \in Clients : Removed(d, i)
  /\ \A d \in Clients \ {c} : pc'[d] = pc[d]
  /\ \/ pc'[c] = pc[c]
     \/ Halted(c)
     \/ pc[c].at = "remove" /\ Advanced(c, "find")
  /\ pc'[c] # pc[c] /\ pc[c].at = "remove" =>
       pc[c].target = i /\ i \notin DOMAIN players' \cup monsters'

LEMMA TakesKeeps ==
  ASSUME Types, RoomInv, NEW c \in Clients, NEW i, Takes(c, i), PickedOnce'
  PROVE  RoomInv'
<1> USE DEF RoomInv, Takes
<1>1. \/ pc'[c] = pc[c]
      \/ pc'[c].at \in {"idle", "hung"} /\ pc'[c].target = NoObject
      \/ pc[c].at = "remove" /\ pc'[c].at = "find" /\ pc'[c].target = pc[c].target
  BY DEF Halted, Advanced
<1>2. Makers'
  <2>1. \A d \in Clients : pc[d].at \notin {"spawn", "respawn"}
    BY RoomAssumption DEF Makers
  <2> QED BY <1>1, <2>1 DEF Makers
<1>3. Departed'
  BY <1>1 DEF Departed
<1>4. OnePlayer'
  BY DEF OnePlayer
<1>5. Apart'
  <2>1. NoObject \notin items
    BY NoObjectNotGiven DEF Types, Objects
  <2> QED BY <1>1, <2>1 DEF Apart
<1>6. Informed'
  <2>0. \A d \in Clients : pc[d].at # "spawn"
    BY RoomAssumption DEF Makers
  <2> SUFFICES ASSUME NEW d \in Clients, myPlayer[d] # NoObject, pc'[d].at # "spawn"
               PROVE  Stale(d)' \subseteq gap'[d]
    BY DEF Informed
  <2>1. Stale(d) \subseteq gap[d]
    BY <2>0 DEF Informed
  <2>2. Removed(d, i)
    OBVIOUS
  <2> QED BY <2>1, <2>2 DEF Stale, Removed
<1>7. Cleared'
  <2>1. ASSUME NEW m \in monsters', m \in dead'
        PROVE  \E d \in Clients : pc'[d].at = "remove" /\ pc'[d].target = m
    <3>1. PICK d \in Clients : pc[d].at = "remove" /\ pc[d].target = m
      BY <2>1 DEF Cleared
    <3> QED BY <2>1, <3>1
  <2>2. ASSUME NEW d \in Clients
        PROVE  /\ pc'[d].at \in {"remove", "find", "revive", "respawn", "drop"} =>
                    pc'[d].target \in dead'
               /\ pc'[d].at = "sethp" /\ pc'[d].left = 0 => pc'[d].target \in dead'
    BY <1>1 DEF Cleared
  <2> QED BY <2>1, <2>2 DEF Cleared
<1> QED BY <1>2, <1>3, <1>4, <1>5, <1>6, <1>7

LEMMA RemoveKeeps ==
  ASSUME Types, RoomInv, NEW c \in Clients,
         \/ RemoveDead(c) \/ OnDisconnected(c)
         \/ \E i \in items : HandlePickUpItem(c, i)
  PROVE  RoomInv'
<1> USE DEF RoomInv
<1>1. CASE RemoveDead(c)
  <2> DEFINE i == pc[c].target
  <2>1. /\ UNCHANGED <<items, nextId, hp, dead, myPlayer, bag>> /\ lock = Free
        /\ players' = Drop(players, i) /\ monsters' = monsters \ {i}
        /\ \E reached : RemoveObject(i, reached)
        /\ pc[c].at = "remove" /\ Proceed(c, "find")
    BY <1>1 DEF RemoveDead, TellRemoved, At, creatures
  <2>2. Halted(c) \/ Advanced(c, "find")
    BY <2>1, ProceedFacts DEF Labels
  <2>3. i \notin items
    BY DEF Apart
  <2> HIDE DEF i
  <2>4. /\ DOMAIN players' = DOMAIN players \ {i}
        /\ \A j \in DOMAIN players' : players'[j] = players[j]
    BY <2>1 DEF Drop
  <2>5. Objects' = Objects \ {i}
    BY <2>1, <2>3, <2>4 DEF Objects
  <2>6. \A d \in Clients \ {c} : pc'[d] = pc[d]
    BY <2>2 DEF Halted, Advanced
  <2>7. PickedOnce'
    BY <2>1 DEF PickedOnce
  <2>8. \A d \in Clients : Removed(d, i)
    BY <2>1, ToldFacts
  <2>9. Takes(c, i)
    BY <2>1, <2>2, <2>4, <2>5, <2>6, <2>8 DEF Takes, i
  <2> QED BY <2>7, <2>9, TakesKeeps
<1>2. CASE OnDisconnected(c)
  <2>1. UNCHANGED <<monsters, items, nextId, hp, dead, myPlayer, pc, bag>>
    BY <1>2 DEF OnDisconnected, creatures
  <2>2. CASE UNCHANGED <<players, lock, view, gap>>
    BY <2>1, <2>2, NothingKeeps
  <2>3. CASE /\ lock = Free /\ players' = Drop(players, myPlayer[c])
             /\ \E reached : RemoveObject(myPlayer[c], reached)
    <3> DEFINE i == myPlayer[c]
    <3>1. i \notin items \cup monsters
      BY DEF Apart
    <3>2. /\ lock = Free /\ players' = Drop(players, i)
          /\ \E reached : RemoveObject(i, reached)
      BY <2>3
    <3> HIDE DEF i
    <3>3. /\ DOMAIN players' = DOMAIN players \ {i}
          /\ \A j \in DOMAIN players' : players'[j] = players[j]
      BY <3>2 DEF Drop
    <3>4. Objects' = Objects \ {i}
      BY <2>1, <3>1, <3>3 DEF Objects
    <3>5. \A d \in Clients : Removed(d, i)
      BY <3>2, ToldFacts
    <3>6. PickedOnce'
      BY <2>1 DEF PickedOnce
    <3>7. Takes(c, i)
      BY <2>1, <3>2, <3>3, <3>4, <3>5 DEF Takes
    <3> QED BY <3>6, <3>7, TakesKeeps
  <2> QED BY <1>2, <2>2, <2>3 DEF OnDisconnected, told
<1>3. ASSUME NEW i \in items, HandlePickUpItem(c, i) PROVE RoomInv'
  <2>1. /\ UNCHANGED <<players, monsters, nextId, hp, dead, myPlayer>>
        /\ lock = Free /\ pc[c].at = "idle" /\ Finish(c, Idle)
        /\ items' = items \ {i} /\ \E reached : RemoveObject(i, reached)
        /\ bag' \in {bag, [bag EXCEPT ![c] = @ \cup {i}]}
    BY <1>3 DEF HandlePickUpItem, PickItem, Playing, Ready, creatures
  <2>2. i \notin DOMAIN players \cup monsters
    BY DEF Apart
  <2>3. Objects' = Objects \ {i}
    BY <2>1, <2>2 DEF Objects
  <2>4. PickedOnce'
    <3>1. \A d \in Clients : i \notin bag[d]
      BY DEF PickedOnce
    <3>2. \A d \in Clients \ {c} : bag'[d] = bag[d]
      BY <2>1 DEF Types
    <3>3. bag'[c] \subseteq bag[c] \cup {i}
      BY <2>1 DEF Types
    <3> QED BY <2>1, <3>1, <3>2, <3>3 DEF PickedOnce
  <2>5. /\ Halted(c) /\ \A d \in Clients \ {c} : pc'[d] = pc[d]
        /\ \A d \in Clients : Removed(d, i)
    BY <2>1, FinishFacts, ToldFacts DEF Halted
  <2>6. Takes(c, i)
    BY <2>1, <2>3, <2>5 DEF Takes
  <2> QED BY <2>4, <2>6, TakesKeeps
<1> QED BY <1>1, <1>2, <1>3

(* Connections break; HandleMove's broadcast hangs with the mutex.         *)
LEMMA ConnectionKeeps ==
  ASSUME Types, RoomInv, NEW c \in Clients,
         PeerClose(c) \/ Disconnect(c) \/ HandleMove(c)
  PROVE  RoomInv'
<1>1. CASE PeerClose(c) \/ Disconnect(c)
  <2>1. UNCHANGED <<players, monsters, items, nextId, myPlayer, lock, view, gap, bag,
                    hp, dead, pc>>
    BY <1>1 DEF PeerClose, Disconnect, maps, creatures, told
  <2> QED BY <2>1, NothingKeeps
<1>2. CASE HandleMove(c)
  <2> USE DEF RoomInv
  <2>1. /\ UNCHANGED <<players, monsters, items, nextId, myPlayer, view, gap, bag,
                       hp, dead>>
        /\ lock = Free /\ pc[c].at = "idle" /\ Finish(c, Idle)
    BY <1>2 DEF HandleMove, Playing, Ready, maps, creatures, told
  <2>2. \A d \in Clients : pc[d].at \notin {"spawn", "respawn"}
    BY <2>1, RoomAssumption DEF Makers
  <2>3. /\ \A d \in Clients \ {c} : pc'[d] = pc[d]
        /\ pc'[c].at \in {"idle", "hung"} /\ pc'[c].target = NoObject
    BY <2>1, FinishFacts DEF Halted
  <2>4. NoObject \notin items
    BY NoObjectNotGiven DEF Types, Objects
  <2>5. Makers' /\ Departed' /\ OnePlayer' /\ PickedOnce'
    BY <2>1, <2>2, <2>3 DEF Makers, Departed, OnePlayer, PickedOnce
  <2>6. Apart'
    BY <2>1, <2>3, <2>4 DEF Apart
  <2>7. Informed'
    BY <2>1, <2>2, <2>3 DEF Informed, Stale, Objects
  <2>8. Cleared'
    <3>1. ASSUME NEW m \in monsters, m \in dead
          PROVE  \E d \in Clients : pc'[d].at = "remove" /\ pc'[d].target = m
      <4>1. PICK d \in Clients : pc[d].at = "remove" /\ pc[d].target = m
        BY <3>1 DEF Cleared
      <4> QED BY <2>1, <2>3, <4>1
    <3> QED BY <2>1, <2>3, <3>1 DEF Cleared
  <2> QED BY <2>5, <2>6, <2>7, <2>8
<1> QED BY <1>1, <1>2

-----------------------------------------------------------------------------
(* The theorems.                                                           *)

(* What main() puts into the room has the first ids.                       *)
LEMMA InitHolds == Init => IInv
<1> SUFFICES ASSUME Init PROVE IInv
  OBVIOUS
<1> DEFINE n == Cardinality(InitMonsters \cup InitItems)
<1>1. n \in 0..MaxObjects
  <2>1. /\ IsFiniteSet(1..MaxObjects) /\ Cardinality(1..MaxObjects) = MaxObjects
    BY FS_Interval, RoomAssumption
  <2>2. /\ IsFiniteSet(InitMonsters \cup InitItems)
        /\ Cardinality(InitMonsters \cup InitItems) <= MaxObjects
    BY <2>1, FS_Subset, RoomAssumption DEF Ids
  <2>3. n \in Nat
    BY <2>2, FS_CardinalityType
  <2> QED BY <2>2, <2>3, RoomAssumption
<1>2. InitMonsters \cup InitItems = 1..n
  BY RoomAssumption
<1>3. nextId = n + 1
  BY DEF Init
<1> HIDE DEF n
<1>4. nextId \in 1..(MaxObjects + 1) /\ Given = 1..n
  BY <1>1, <1>3, RoomAssumption DEF Given
<1>5. /\ players = [i \in {} |-> i] /\ monsters = InitMonsters /\ items = InitItems
      /\ hp = [i \in InitMonsters |-> MaxHp] /\ dead = {} /\ leaving = {} /\ lock = Free
      /\ myPlayer = [c \in Clients |-> NoObject] /\ connected = [c \in Clients |-> TRUE]
      /\ pc = [c \in Clients |-> Idle]
      /\ view = [c \in Clients |-> {}] /\ gap = [c \in Clients |-> {}]
      /\ bag = [c \in Clients |-> {}]
  BY DEF Init
<1>6. DOMAIN players = {} /\ Objects = 1..n /\ NoObject \notin 1..n
  BY <1>2, <1>5 DEF Objects, NoObject
<1>7. Idle \in Handlers /\ Idle.at = "idle" /\ Idle.target = NoObject
  BY Halts
<1>8. Types
  <2>1. Aimed(pc, DOMAIN hp)
    BY <1>5, <1>7 DEF Aimed, Resting
  <2>2. players \in [DOMAIN players -> Clients]
    BY <1>5
  <2>3. hp \in [DOMAIN hp -> 0..MaxHp] /\ DOMAIN hp = InitMonsters
    BY <1>5, RoomAssumption
  <2> QED BY <1>2, <1>4, <1>5, <1>6, <2>1, <2>2, <2>3 DEF Types
<1>9. Makers /\ Departed /\ OnePlayer /\ PickedOnce /\ Informed
  BY <1>5, <1>6, <1>7 DEF Makers, Departed, OnePlayer, PickedOnce, Informed
<1>10. Apart
  BY <1>2, <1>5, <1>6, <1>7, RoomAssumption DEF Apart
<1>11. Cleared
  BY <1>5, <1>7, RoomAssumption DEF Cleared
<1> QED BY <1>8, <1>9, <1>10, <1>11 DEF IInv, RoomInv

(* Every step keeps the invariant.                                         *)
LEMMA NextKeeps == IInv /\ [Next]_vars => IInv'
<1> SUFFICES ASSUME IInv, [Next]_vars PROVE IInv'
  OBVIOUS
<1> USE DEF IInv
<1>1. CASE UNCHANGED vars
  <2>1. UNCHANGED <<players, monsters, items, nextId, hp, dead, myPlayer, connected,
                    leaving, pc, lock, view, gap, bag>>
    BY <1>1 DEF vars, maps, creatures, sessions, told
  <2>2. Types'
    BY <2>1 DEF Types, Objects, Given, Aimed
  <2> QED BY <2>1, <2>2, NothingKeeps
<1>2. ASSUME NEW c \in Clients,
             Handle_C_EnterRoom(c) \/ CheckDead(c) \/ MarkDead(c) \/ FindCauser(c)
      PROVE  IInv'
  BY <1>2, TypesQuiet, QuietKeeps
<1>3. ASSUME NEW c \in Clients, SetHP(c) PROVE IInv'
  BY <1>3, TypesQuiet, SetHPKeeps
<1>4. ASSUME NEW c \in Clients, EnterPlayer(c) \/ Revive(c) PROVE IInv'
  BY <1>4, TypesCreatePlayer, CreateKeeps DEF EnterPlayer, Revive
<1>5. ASSUME NEW c \in Clients, SpawnPlayer(c) \/ SpawnRevived(c) PROVE IInv'
  BY <1>5, TypesSpawn, SpawnKeeps DEF RoomInv
<1>6. ASSUME NEW c \in Clients, EnterBoss(c) \/ EnterItem(c) PROVE IInv'
  BY <1>6, TypesEnter, EnterKeeps
<1>7. ASSUME NEW c \in Clients,
             \/ RemoveDead(c) \/ OnDisconnected(c)
             \/ \E i \in items : HandlePickUpItem(c, i)
      PROVE  IInv'
  BY <1>7, TypesRemove, RemoveKeeps
<1>8. ASSUME NEW c \in Clients,
             PeerClose(c) \/ Disconnect(c) \/ HandleMove(c)
      PROVE  IInv'
  BY <1>8, TypesOthers, ConnectionKeeps
<1>9. ASSUME NEW c \in Clients,
             NEW target \in Objects, NEW causer \in Objects, NEW damage \in 1..MaxHp,
             HandleChangedHP(c, target, causer, damage)
      PROVE  IInv'
  <2>1. Types'
    BY <1>9, TypesOthers
  <2> QED BY <1>9, <2>1, HitKeeps
<1> QED BY <1>1, <1>2, <1>3, <1>4, <1>5, <1>6, <1>7, <1>8, <1>9 DEF Next, Handler

(* IInv holds in every state.                                              *)
THEOREM Invariance == Spec => []IInv
BY InitHolds, NextKeeps, PTL DEF Spec

(* The ids, positions of handlers and maps have their types.               *)
THEOREM TypeCorrect == Spec => []TypeOK
<1>1. IInv => TypeOK
  <2> SUFFICES ASSUME IInv PROVE TypeOK
    OBVIOUS
  <2>1. Range(players) \subseteq Clients /\ Range(hp) \subseteq 0..MaxHp
    BY DEF IInv, Types, Range
  <2>2. \A c \in Clients : /\ view[c] \cup gap[c] \subseteq 1..(nextId - 1)
                           /\ myPlayer[c] \in 0..(nextId - 1)
    <3>1. NoObject \in 0..(nextId - 1) /\ Given \subseteq 0..(nextId - 1)
      BY DEF IInv, Types, NoObject, Given
    <3> QED BY <3>1 DEF IInv, Types, Given
  <2> QED BY <2>1, <2>2 DEF IInv, Types, TypeOK, Given
<1> QED BY <1>1, Invariance, PTL

(* A session has one player at most, however its handlers, its revivals    *)
(* and the other clients' hits interleave.                                 *)
THEOREM PlayerIsOne == Spec => []OnePlayer
<1>1. IInv => OnePlayer
  BY DEF IInv, RoomInv
<1> QED BY <1>1, Invariance, PTL

(* An item is picked up once.                                              *)
THEOREM PickUpsAreApart == Spec => []PickedOnce
<1>1. IInv => PickedOnce
  BY DEF IInv, RoomInv
<1> QED BY <1>1, Invariance, PTL

(* Who plays sees what is in the room, but for what it missed: while its   *)
(* player was dead, behind a send that failed in a broadcast, or because   *)
(* it did not know who picked an item up.                                  *)
THEOREM ViewsAgree == Spec => []ViewAgrees
<1>1. IInv => ViewAgrees
  <2> SUFFICES ASSUME IInv, NEW c \in Reached(players)
               PROVE  Stale(c) \subseteq gap[c]
    BY DEF ViewAgrees, Stale
  <2>1. PICK i \in DOMAIN players : c = players[i]
    BY DEF Reached, Range
  <2>2. c \in Clients /\ myPlayer[c] = i /\ i \in Objects
    BY <2>1 DEF IInv, RoomInv, OnePlayer, Types, Objects
  <2>3. i # NoObject
    BY <2>2, NoObjectNotGiven DEF IInv, Types
  <2>4. pc[c].at # "spawn"
    BY <2>2 DEF IInv, RoomInv, Makers
  <2> QED BY <2>2, <2>3, <2>4 DEF IInv, RoomInv, Informed
<1> QED BY <1>1, Invariance, PTL

(* When no handler is under way, no dead monster stands in the room.       *)
THEOREM CorpsesAreCleared == Spec => []NoCorpse
<1>1. IInv => NoCorpse
  <2> SUFFICES ASSUME IInv, \A c \in Clients : pc[c].at = "idle", NEW m \in monsters
               PROVE  hp[m] > 0 /\ m \notin dead
    BY DEF NoCorpse
  <2>1. m \notin dead
    BY DEF IInv, RoomInv, Cleared
  <2>2. hp[m] # 0
    BY <2>1 DEF IInv, RoomInv, Cleared
  <2>3. hp[m] \in 0..MaxHp
    BY DEF IInv, Types
  <2> QED BY <2>1, <2>2, <2>3, RoomAssumption
<1> QED BY <1>1, Invariance, PTL

(* With sends that do not fail, only a client that runs no handler is      *)
(* disconnected, and it is out of the room once that is dealt with.        *)
LEMMA QuitsKept ==
  ASSUME IInv, Quits, SendErrors = FALSE, [Next]_vars
  PROVE  Quits'
<1>1. CASE UNCHANGED vars
  BY <1>1 DEF vars, maps, sessions, Quits, Reached, Range
<1>2. ASSUME NEW c \in Clients, NEW i,
             connected[c], players' = Put(players, i, c),
             UNCHANGED <<connected, leaving>>,
             \A d \in Clients \ {c} : pc'[d] = pc[d]
      PROVE  Quits'
  <2>1. Reached(players') \subseteq Reached(players) \cup {c}
    BY <1>2 DEF Reached, Range, Put
  <2> QED BY <1>2, <2>1 DEF Quits
<1>3. ASSUME NEW c \in Clients, connected[c], UNCHANGED <<connected, leaving>>,
             Reached(players') \subseteq Reached(players),
             \A d \in Clients \ {c} : pc'[d] = pc[d]
      PROVE  Quits'
  BY <1>3 DEF Quits
<1>4. \A i : Reached(Drop(players, i)) \subseteq Reached(players)
  BY DropFacts DEF Reached, Range
<1>0. /\ \A ps, reached, left : BroadCast(ps, reached, left) =>
                                 connected' = connected /\ leaving' = left
      /\ \A ps, reached : BroadCastPlayer(ps, reached) => UNCHANGED <<connected, leaving>>
  BY DEF BroadCast, BroadCastPlayer, SendFails
<1> Types
  BY DEF IInv
<1>5. ASSUME NEW c \in Clients, SpawnPlayer(c) \/ SpawnRevived(c) PROVE Quits'
  <2>1. /\ pc[c].at # "idle" /\ players' = Put(players, Created, c)
        /\ UNCHANGED <<connected, leaving>>
        /\ Finish(c, Idle) \/ Proceed(c, "sethp")
    BY <1>0, <1>5 DEF SpawnPlayer, SpawnRevived, At
  <2>3. \A d \in Clients \ {c} : pc'[d] = pc[d]
    BY <2>1, FinishFacts, ProceedFacts DEF Labels, Halted, Advanced
  <2>2. connected[c]
    BY <2>1 DEF Quits
  <2> QED BY <1>2, <2>1, <2>2, <2>3
<1>6. ASSUME NEW c \in Clients, RemoveDead(c) PROVE Quits'
  <2>1. /\ pc[c].at # "idle" /\ players' = Drop(players, pc[c].target)
        /\ UNCHANGED <<connected, leaving>> /\ Proceed(c, "find")
    BY <1>0, <1>6 DEF RemoveDead, TellRemoved, At
  <2>2. connected[c]
    BY <2>1 DEF Quits
  <2>3. \A d \in Clients \ {c} : pc'[d] = pc[d]
    BY <2>1, ProceedFacts DEF Labels, Halted, Advanced
  <2> QED BY <1>3, <1>4, <2>1, <2>2, <2>3
<1>7. ASSUME NEW c \in Clients,
             \/ EnterPlayer(c) \/ Revive(c) \/ CheckDead(c) \/ MarkDead(c)
             \/ FindCauser(c) \/ SetHP(c)
      PROVE  Quits'
  <2>1. /\ pc[c].at # "idle"
        /\ UNCHANGED <<players, connected, leaving>>
        /\ \A d \in Clients \ {c} : pc'[d] = pc[d]
    BY <1>7 DEF EnterPlayer, Revive, CreatePlayer, CheckDead, MarkDead, FindCauser,
                SetHP, At, Goto, maps, sessions, Types, Aimed
  <2>2. connected[c]
    BY <2>1 DEF Quits
  <2> QED BY <1>3, <2>1, <2>2
<1>8. ASSUME NEW c \in Clients,
             \/ Handle_C_EnterRoom(c)
             \/ \E target, causer \in Objects, damage \in 1..MaxHp :
                  HandleChangedHP(c, target, causer, damage)
      PROVE  Quits'
  <2>1. /\ connected[c]
        /\ UNCHANGED <<players, connected, leaving>>
        /\ \A d \in Clients \ {c} : pc'[d] = pc[d]
    BY <1>8 DEF Handle_C_EnterRoom, HandleChangedHP, Playing, Ready, maps, sessions, Types,
                Aimed
  <2> QED BY <1>3, <2>1
<1>9. ASSUME NEW c \in Clients, PeerClose(c) PROVE Quits'
  BY <1>9 DEF PeerClose, Quits, maps
<1>10. ASSUME NEW c \in Clients, Disconnect(c) PROVE Quits'
  <2>1. /\ pc[c].at = "idle" /\ leaving' = leaving \cup {c}
        /\ connected' = [connected EXCEPT ![c] = FALSE]
        /\ UNCHANGED <<players, pc>>
    BY <1>10 DEF Disconnect, maps
  <2> QED BY <2>1 DEF Quits, IInv, Types
<1>11. ASSUME NEW c \in Clients, OnDisconnected(c) PROVE Quits'
  <2>1. UNCHANGED <<connected, pc>>
    BY <1>0, <1>11 DEF OnDisconnected
  <2>2. CASE UNCHANGED <<players, leaving>>
    BY <2>1, <2>2 DEF Quits
  <2>3. CASE /\ leaving' = leaving \ {c} /\ c \notin Reached(players')
             /\ Reached(players') \subseteq Reached(players)
    BY <2>1, <2>3 DEF Quits
  <2>4. CASE myPlayer[c] = NoObject /\ leaving' = leaving \ {c} /\ players' = players
    <3>1. NoObject \notin DOMAIN players
      BY NoObjectNotGiven DEF IInv, Types, Objects
    <3>2. c \notin Reached(players)
      BY <2>4, <3>1 DEF IInv, RoomInv, OnePlayer, Reached, Range
    <3> QED BY <2>3, <2>4, <3>2
  <2>5. CASE leaving' = leaving \ {c} /\ players' = Drop(players, myPlayer[c])
    <3>1. c \notin Reached(Drop(players, myPlayer[c]))
      BY DEF IInv, RoomInv, OnePlayer, Reached, Range, Drop
    <3> QED BY <1>4, <2>3, <2>5, <3>1
  <2> QED BY <1>0, <1>11, <2>2, <2>4, <2>5 DEF OnDisconnected
<1>12. ASSUME NEW c \in Clients, HandleMove(c) PROVE Quits'
  BY <1>12 DEF HandleMove, SendFails
<1>13. ASSUME NEW c \in Clients, EnterBoss(c) \/ \E i \in items : HandlePickUpItem(c, i)
       PROVE  Quits'
  <2>1. /\ connected[c] /\ Finish(c, Idle)
        /\ UNCHANGED <<players, connected, leaving>>
    BY <1>0, <1>13 DEF EnterBoss, HandlePickUpItem, PickItem, Playing, Ready
  <2>2. \A d \in Clients \ {c} : pc'[d] = pc[d]
    BY <2>1, FinishFacts DEF Halted
  <2> QED BY <1>3, <2>1, <2>2
<1>14. ASSUME NEW c \in Clients, EnterItem(c) PROVE Quits'
  <2>1. /\ pc[c].at # "idle" /\ Proceed(c, "sethp")
        /\ UNCHANGED <<players, connected, leaving>>
    BY <1>0, <1>14 DEF EnterItem, TellDropped, At
  <2>2. connected[c]
    BY <2>1 DEF Quits
  <2>3. \A d \in Clients \ {c} : pc'[d] = pc[d]
    BY <2>1, ProceedFacts DEF Labels, Halted, Advanced
  <2> QED BY <1>3, <2>1, <2>2, <2>3
<1> QED BY <1>1, <1>5, <1>6, <1>7, <1>8, <1>9, <1>10, <1>11, <1>12, <1>13, <1>14
        DEF Next, Handler

(* Unless a send can fail, nobody stays in the room whose connection is    *)
(* gone.                                                                   *)
THEOREM NobodyHaunts == ASSUME SendErrors = FALSE PROVE Spec => []NoGhost
<1>1. Init => Quits
  BY DEF Init, Quits
<1>2. IInv /\ Quits /\ [Next]_vars => Quits'
  BY QuitsKept
<1>3. IInv /\ Quits => NoGhost
  <2>1. IInv => Reached(players) \subseteq Clients
    BY DEF IInv, Types, Reached, Range
  <2> QED BY <2>1 DEF Quits, NoGhost
<1> QED BY <1>1, <1>2, <1>3, Invariance, PTL DEF Spec

=============================================================================
