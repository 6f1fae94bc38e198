------------------------------- MODULE GameRoom -------------------------------
(***************************************************************************)
(* The one room of the server, GRoom: its maps of players, monsters and    *)
(* items, the handlers that worker threads run in it, and what each client *)
(* has been told of it.                                                    *)
(*                                                                         *)
(* A session has one receive outstanding, so its packets are handled one   *)
(* at a time: handlers of different clients run in parallel.  A handler    *)
(* that holds the room's mutex is one action, but for EnterPlayer and      *)
(* Revive, which sleep in the middle, and for a broadcast that fails and   *)
(* never gets to its end.  HandleChangedHP does not hold the mutex:        *)
(* its reads and writes are actions of their own, and its calls to Remove, *)
(* Revive and EnterItem take the mutex one by one.                         *)
(*                                                                         *)
(* Packets reach a client in the order they were sent (Session,            *)
(* OrderedStream), so view[c] is what client c has of the room once it has *)
(* read all that was sent to it.                                           *)
(***************************************************************************)
EXTENDS Integers, FiniteSets, FiniteSetsExt, Functions

CONSTANTS
  Clients,
  InitMonsters, InitItems,  \* ids of what main() puts into the room
  MaxHp,                    \* hp of a player or monster
  MaxObjects,               \* bound: object ids ever handed out
  SendErrors                \* a lost connection makes sends fail

Ids == 1..MaxObjects
Free == "free"
Hung == "hung"  \* never to be free again

ASSUME RoomAssumption ==
  /\ MaxObjects \in Nat /\ MaxHp \in Nat \ {0} /\ SendErrors \in BOOLEAN
  /\ InitMonsters \cap InitItems = {}
  /\ InitMonsters \cup InitItems = 1..Cardinality(InitMonsters \cup InitItems)
  /\ InitMonsters \cup InitItems \subseteq Ids
  /\ Free \notin Clients /\ Hung \notin Clients

NoObject == 0
Idle == [at |-> "idle", target |-> NoObject, causer |-> NoObject, left |-> 0]

VARIABLES
  players,    \* _players: the client of each player object in the room
  monsters,   \* _monsters
  items,      \* _items
  nextId,     \* _objectId
  hp, dead,   \* stat().hp() by id; ids whose state is Dead
  myPlayer,   \* GameSession::_myPlayer
  connected,  \* Session::_connected
  leaving,    \* clients whose OnDisconnected has not finished
  broken,     \* clients whose end of the connection is gone
  pc,         \* the handler of each client: where it is, and its locals
  lock,       \* the room's mutex: Free, who keeps it after an action, or Hung
  crashed,    \* a null pointer was dereferenced, or an exception not caught
  view,       \* what each client has been told is in the room
  gap,        \* history: changes a client was not told of, or did not follow
  bag         \* history: items picked up, by client

maps == <<players, monsters, items, nextId>>
creatures == <<hp, dead>>
sessions == <<myPlayer, connected, leaving, broken>>
told == <<view, gap>>
vars == <<maps, creatures, sessions, pc, lock, crashed, told, bag>>

Objects == DOMAIN players \cup monsters \cup items
FindObjectById(i) == i \in Objects

Put(f, k, v) == [i \in DOMAIN f \cup {k} |-> IF i = k THEN v ELSE f[i]]
Drop(f, k) == [i \in DOMAIN f \ {k} |-> f[i]]

Init ==
  /\ players = [i \in {} |-> i]
  /\ monsters = InitMonsters /\ items = InitItems
  /\ nextId = Cardinality(InitMonsters \cup InitItems) + 1
  /\ hp = [i \in InitMonsters |-> MaxHp] /\ dead = {}
  /\ myPlayer = [c \in Clients |-> NoObject]
  /\ connected = [c \in Clients |-> TRUE]
  /\ leaving = {} /\ broken = {}
  /\ pc = [c \in Clients |-> Idle]
  /\ lock = Free /\ crashed = FALSE
  /\ view = [c \in Clients |-> {}] /\ gap = [c \in Clients |-> {}]
  /\ bag = [c \in Clients |-> {}]

(* OnDisconnected is finished, SavePlayerInfo with it.                     *)
Saved(c) == ~connected[c] /\ c \notin leaving

(* Client c runs no handler and can send one more packet.                  *)
Ready(c) == ~crashed /\ connected[c] /\ pc[c].at = "idle" /\ c \notin broken
Playing(c) == Ready(c) /\ myPlayer[c] \in DOMAIN players

(* Client c's handler of C_ChangedHP is at the given statement.            *)
At(c, label) == ~crashed /\ pc[c].at = label

-----------------------------------------------------------------------------
(* What the handlers tell the clients.                                     *)

(* The clients of the players in ps.                                       *)
Reached(ps) == Range(ps)

(* A send to d fails at once, and Send disconnects d then and there:       *)
(* OnDisconnected calls Remove, which locks the mutex the handler holds.   *)
(* That is undefined for a std::mutex: the thread hangs, or an exception   *)
(* that nobody catches ends the server.                                    *)
SendFails(d) ==
  /\ SendErrors /\ connected[d]
  /\ lock' = Hung /\ crashed' \in BOOLEAN
  /\ connected' = [connected EXCEPT ![d] = FALSE]
  /\ leaving' = leaving \cup {d} /\ broken' = broken \cup {d}

(* BroadCast, the last thing done under the mutex, goes to the players in  *)
(* ps in the order of their ids, up to the one whose send fails.  left are *)
(* the clients still leaving when the mutex is given back.                 *)
BroadCast(ps, reached, left) ==
  \/ /\ reached = Reached(ps)
     /\ lock' = Free /\ leaving' = left
     /\ UNCHANGED <<connected, broken, crashed>>
  \/ \E i \in DOMAIN ps :
       /\ reached = {ps[j] : j \in {k \in DOMAIN ps : k < i}}
       /\ SendFails(ps[i])

(* A new player is shown to those in ps, then the weapon it wears to all.  *)
BroadCastPlayer(ps, reached) ==
  \/ BroadCast(ps, reached, leaving)
  \/ /\ reached = Reached(ps)
     /\ \E d \in Reached(players') : SendFails(d)

(* Who is not reached misses the change of i.                              *)
Miss(i, reached) ==
  [c \in Clients |-> IF c \in reached THEN gap[c] ELSE gap[c] \cup {i}]

(* AddObject: i is in the maps already.                                    *)
AddObject(i, reached) ==
  /\ view' = [c \in Clients |-> IF c \in reached THEN view[c] \cup {i} ELSE view[c]]
  /\ gap' = Miss(i, reached)

(* A despawn or pick-up packet: i is out of the maps already.              *)
RemoveObject(i, reached) ==
  /\ view' = [c \in Clients |-> IF c \in reached THEN view[c] \ {i} ELSE view[c]]
  /\ gap' = Miss(i, reached)

(* The worker that handles c's packet goes on, unless it hangs.            *)
Stuck == [Idle EXCEPT !.at = "hung"]
Finish(c, handler) == pc' = [pc EXCEPT ![c] = IF lock' = Hung THEN Stuck ELSE handler]
Proceed(c, label) == Finish(c, [pc[c] EXCEPT !.at = label])

-----------------------------------------------------------------------------
(* Handlers that hold the mutex throughout.                                *)

(* C_EnterRoom: the handler goes for the mutex.                            *)
Handle_C_EnterRoom(c) ==
  /\ Ready(c) /\ myPlayer[c] = NoObject
  /\ pc' = [pc EXCEPT ![c].at = "enter"]
  /\ UNCHANGED <<maps, creatures, sessions, lock, crashed, told, bag>>

(* CreatePlayer: an object with the next id becomes the session's player.  *)
(* Then a second passes, with the mutex held and the player in no room.    *)
CreatePlayer(c, label) ==
  /\ lock = Free /\ lock' = c /\ nextId \in Ids
  /\ nextId' = nextId + 1
  /\ hp' = Put(hp, nextId, MaxHp)
  /\ myPlayer' = [myPlayer EXCEPT ![c] = nextId]
  /\ pc' = [pc EXCEPT ![c].at = label]
  /\ UNCHANGED <<players, monsters, items, dead, connected, leaving, broken, crashed,
                 told, bag>>

(* Who holds the mutex made the last object: all are made under it.        *)
Created == nextId - 1

EnterPlayer(c) == At(c, "enter") /\ CreatePlayer(c, "spawn")

(* Fault: the existing objects are listed without the items.               *)
SpawnPlayer_NoItems(c) ==
  /\ At(c, "spawn") /\ lock = c
  /\ players' = Put(players, Created, c)
  /\ \E reached \in SUBSET Clients :
       /\ BroadCastPlayer(players, reached)
       /\ view' = [d \in Clients |-> IF d = c THEN DOMAIN players \cup monsters \cup {Created}
                                     ELSE IF d \in reached THEN view[d] \cup {Created}
                                     ELSE view[d]]
       /\ gap' = [Miss(Created, reached) EXCEPT ![c] = {}]
  /\ Finish(c, Idle)
  /\ UNCHANGED <<monsters, items, nextId, creatures, myPlayer, bag>>

(* The new player is told all there is, the others of it.                  *)
SpawnPlayer(c) ==
  /\ At(c, "spawn") /\ lock = c
  /\ players' = Put(players, Created, c)
  /\ \E reached \in SUBSET Clients :
       /\ BroadCastPlayer(players, reached)
       /\ view' = [d \in Clients |-> IF d = c THEN Objects \cup {Created}
                                     ELSE IF d \in reached THEN view[d] \cup {Created}
                                     ELSE view[d]]
       /\ gap' = [Miss(Created, reached) EXCEPT ![c] = {}]
  /\ Finish(c, Idle)
  /\ UNCHANGED <<monsters, items, nextId, creatures, myPlayer, bag>>

(* C_SpawnBoss.                                                            *)
EnterBoss(c) ==
  /\ Playing(c)
  /\ lock = Free /\ nextId \in Ids
  /\ monsters' = monsters \cup {nextId}
  /\ nextId' = nextId + 1
  /\ hp' = Put(hp, nextId, MaxHp)
  /\ UNCHANGED <<players, items, dead, myPlayer, bag>>
  /\ \E reached \in SUBSET Clients :
       BroadCast(players, reached, leaving) /\ AddObject(nextId, reached)
  /\ Finish(c, Idle)

(* S_PickUpItem: a client that does not know who picked i up returns, and  *)
(* keeps i on its screen.                                                  *)
PickItem(c, i) ==
  \E reached \in SUBSET Clients :
    /\ BroadCast(players, reached, leaving)
    /\ RemoveObject(i, {d \in reached : myPlayer[c] \in view[d]})

(* Fault: the item is not looked for again under the mutex, and stays.     *)
HandlePickUpItem_NotErased(c, i) ==
  /\ Playing(c) /\ i \in view[c]
  /\ lock = Free
  /\ i \in items
  /\ bag' \in {bag, [bag EXCEPT ![c] = @ \cup {i}]}
  /\ UNCHANGED <<maps, creatures, myPlayer>>
  /\ PickItem(c, i)
  /\ Finish(c, Idle)

(* C_PickUpItem for an item the client sees.  It leaves the room even if   *)
(* the bag is full.                                                        *)
HandlePickUpItem(c, i) ==
  /\ Playing(c) /\ i \in view[c]
  /\ lock = Free
  /\ i \in items
  /\ items' = items \ {i}
  /\ bag' \in {bag, [bag EXCEPT ![c] = @ \cup {i}]}
  /\ UNCHANGED <<players, monsters, nextId, creatures, myPlayer>>
  /\ PickItem(c, i)
  /\ Finish(c, Idle)

(* C_Move, C_Skill, C_Chat and the like change none of this state, but     *)
(* they broadcast, and a send may fail.                                    *)
HandleMove(c) ==
  /\ Playing(c)
  /\ lock = Free
  /\ \E d \in Reached(players) : SendFails(d)
  /\ Finish(c, Idle)
  /\ UNCHANGED <<maps, creatures, myPlayer, told, bag>>

-----------------------------------------------------------------------------
(* C_ChangedHP, without the mutex.                                         *)

Goto(c, label) == pc' = [pc EXCEPT ![c].at = label]

(* The client reports a hit on its own player by a monster, or on a        *)
(* monster by any player (the other clients play the skills too).  The     *)
(* server finds both and reads the target's hp.                            *)
HandleChangedHP(c, target, causer, damage) ==
  /\ Playing(c)
  /\ {target, causer} \subseteq view[c]
  /\ \/ target = myPlayer[c] /\ causer \in monsters
     \/ target \in monsters /\ causer \in DOMAIN players
  /\ pc' = [pc EXCEPT ![c] =
              [at |-> IF damage < hp[target] THEN "sethp" ELSE "check",
               target |-> target, causer |-> causer,
               left |-> Max({hp[target] - damage, 0})]]
  /\ UNCHANGED <<maps, creatures, sessions, lock, crashed, told, bag>>

(* Creature::OnDead: nothing more if the target is dead already.           *)
CheckDead(c) ==
  /\ At(c, "check")
  /\ Goto(c, IF pc[c].target \in dead THEN "sethp" ELSE "mark")
  /\ UNCHANGED <<maps, creatures, sessions, lock, crashed, told, bag>>

(* SetState(Dead), and S_Die.                                              *)
MarkDead(c) ==
  /\ At(c, "mark")
  /\ dead' = dead \cup {pc[c].target}
  /\ Goto(c, "remove")
  /\ UNCHANGED <<maps, hp, sessions, lock, crashed, told, bag>>

TellRemoved(c) ==
  /\ \E reached \in SUBSET Clients :
       BroadCast(players', reached, leaving) /\ RemoveObject(pc[c].target, reached)
  /\ Proceed(c, "find")

(* Fault: only the players' map is cleared.                                *)
RemoveDead_PlayersOnly(c) ==
  /\ At(c, "remove") /\ lock = Free
  /\ players' = Drop(players, pc[c].target)
  /\ TellRemoved(c)
  /\ UNCHANGED <<monsters, items, nextId, creatures, myPlayer, bag>>

(* GameRoom::Remove of the dead creature.                                  *)
RemoveDead(c) ==
  /\ At(c, "remove") /\ lock = Free
  /\ players' = Drop(players, pc[c].target)
  /\ monsters' = monsters \ {pc[c].target}
  /\ TellRemoved(c)
  /\ UNCHANGED <<items, nextId, creatures, myPlayer, bag>>

DeadIsPlayer(c) == pc[c].target = myPlayer[c]

(* Player::OnDead and Monster::OnDead look for the causer, and dereference *)
(* what they get.                                                          *)
FindCauser(c) ==
  /\ At(c, "find")
  /\ IF FindObjectById(pc[c].causer)
       THEN /\ Goto(c, IF DeadIsPlayer(c) THEN "revive" ELSE "drop")
            /\ UNCHANGED crashed
       ELSE crashed' = TRUE /\ UNCHANGED pc
  /\ UNCHANGED <<maps, creatures, sessions, lock, told, bag>>

(* Fault: the session keeps its dead player.                               *)
Revive_KeepsPlayer(c) ==
  /\ At(c, "revive")
  /\ lock = Free /\ lock' = c /\ nextId \in Ids
  /\ nextId' = nextId + 1
  /\ hp' = Put(hp, nextId, MaxHp)
  /\ Goto(c, "respawn")
  /\ UNCHANGED <<players, monsters, items, dead, sessions, crashed, told, bag>>

(* Fault: no new player.                                                   *)
Revive_Forgotten(c) ==
  /\ At(c, "revive") /\ lock = Free /\ nextId \in Ids
  /\ Goto(c, "sethp")
  /\ UNCHANGED <<maps, creatures, sessions, lock, crashed, told, bag>>

(* GameRoom::Revive: a new player object for the session.                  *)
Revive(c) == At(c, "revive") /\ CreatePlayer(c, "respawn")

(* Fault: the mutex is not given back.                                     *)
SpawnRevived_KeepsLock(c) ==
  /\ At(c, "respawn")
  /\ players' = Put(players, Created, c)
  /\ Goto(c, "sethp") /\ UNCHANGED <<sessions, lock, crashed>>
  /\ AddObject(Created, Reached(players'))
  /\ UNCHANGED <<monsters, items, nextId, creatures, bag>>

(* Unlike EnterPlayer, Revive does not tell the client what is in the      *)
(* room.                                                                   *)
SpawnRevived(c) ==
  /\ At(c, "respawn") /\ lock = c
  /\ players' = Put(players, Created, c)
  /\ \E reached \in SUBSET Clients :
       BroadCastPlayer(players', reached) /\ AddObject(Created, reached)
  /\ Proceed(c, "sethp")
  /\ UNCHANGED <<monsters, items, nextId, creatures, myPlayer, bag>>

TellDropped(c) ==
  /\ \E reached \in SUBSET Clients :
       BroadCast(players, reached, leaving) /\ AddObject(nextId, reached)
  /\ Proceed(c, "sethp")

(* Fault: the dropped item gets the id, and _objectId stays.               *)
EnterItem_SameId(c) ==
  /\ At(c, "drop") /\ lock = Free /\ nextId \in Ids
  /\ items' = items \cup {nextId}
  /\ TellDropped(c)
  /\ UNCHANGED <<players, monsters, nextId, creatures, myPlayer, bag>>

(* Monster::OnDead: gold and quest progress are the killer's (Character);  *)
(* EnterItem puts the dropped item into the room.                          *)
EnterItem(c) ==
  /\ At(c, "drop") /\ lock = Free /\ nextId \in Ids
  /\ items' = items \cup {nextId}
  /\ nextId' = nextId + 1
  /\ TellDropped(c)
  /\ UNCHANGED <<players, monsters, creatures, myPlayer, bag>>

(* SetHP, of the object that was found at the start; then the broadcast.   *)
SetHP(c) ==
  /\ At(c, "sethp")
  /\ hp' = [hp EXCEPT ![pc[c].target] = pc[c].left]
  /\ pc' = [pc EXCEPT ![c] = Idle]
  /\ UNCHANGED <<maps, dead, sessions, lock, crashed, told, bag>>

-----------------------------------------------------------------------------
(* Connections, and the main thread.                                       *)

PeerClose(c) ==
  /\ ~crashed /\ connected[c] /\ c \notin broken
  /\ broken' = broken \cup {c}
  /\ UNCHANGED <<maps, creatures, myPlayer, connected, leaving, pc, lock, crashed,
                 told, bag>>

(* Session::Disconnect, after the receive that follows the last handler    *)
(* completes with no bytes; or, if sends fail, at any time.                *)
Disconnect(c) ==
  /\ ~crashed /\ c \in broken /\ connected[c]
  /\ pc[c].at = "idle" \/ SendErrors
  /\ connected' = [connected EXCEPT ![c] = FALSE]
  /\ leaving' = leaving \cup {c}
  /\ UNCHANGED <<maps, creatures, myPlayer, broken, pc, lock, crashed, told, bag>>

(* Fault: nothing is removed.                                              *)
OnDisconnected_Stays(c) ==
  /\ ~crashed /\ c \in leaving /\ lock = Free
  /\ leaving' = leaving \ {c}
  /\ UNCHANGED <<maps, creatures, myPlayer, connected, broken, pc, lock, crashed,
                 told, bag>>

(* GameSession::OnDisconnected: the session's player, if there is one, is  *)
(* removed and saved.  A player that is in no room yet has a null _room.   *)
OnDisconnected(c) ==
  /\ ~crashed /\ c \in leaving
  /\ \/ /\ myPlayer[c] = NoObject
        /\ leaving' = leaving \ {c}
        /\ UNCHANGED <<players, connected, broken, lock, told, crashed>>
     \/ /\ myPlayer[c] # NoObject /\ lock = Free
        /\ players' = Drop(players, myPlayer[c])
        /\ \E reached \in SUBSET Clients :
             /\ BroadCast(players', reached, leaving \ {c})
             /\ RemoveObject(myPlayer[c], reached)
     \/ /\ pc[c].at \in {"spawn", "respawn"} /\ lock = c
        /\ crashed' = TRUE
        /\ UNCHANGED <<players, connected, leaving, broken, lock, told>>
  /\ UNCHANGED <<monsters, items, nextId, creatures, myPlayer, pc, bag>>

Handler(c) ==
  \/ EnterPlayer(c) \/ SpawnPlayer(c)
  \/ CheckDead(c) \/ MarkDead(c) \/ RemoveDead(c) \/ FindCauser(c)
  \/ Revive(c) \/ SpawnRevived(c) \/ EnterItem(c) \/ SetHP(c)

Next ==
  \/ \E c \in Clients :
       \/ Handle_C_EnterRoom(c) \/ EnterBoss(c) \/ HandleMove(c) \/ Handler(c)
       \/ PeerClose(c) \/ Disconnect(c) \/ OnDisconnected(c)
       \/ \E i \in items : HandlePickUpItem(c, i)
       \/ \E target, causer \in Objects, damage \in 1..MaxHp :
            HandleChangedHP(c, target, causer, damage)

(* A worker that is in a handler goes on with it, and the kernel reports   *)
(* a closed connection to the receive that follows a handler.              *)
Fairness ==
  \A c \in Clients :
    /\ WF_vars(Handler(c))
    /\ WF_vars(pc[c].at = "idle" /\ Disconnect(c))
    /\ WF_vars(OnDisconnected(c))

Spec == Init /\ [][Next]_vars /\ Fairness

-----------------------------------------------------------------------------
(* Properties.                                                             *)

(* Types; and the ids handed out are below _objectId.                      *)
TypeOK ==
  /\ nextId \in 1..(MaxObjects + 1)
  /\ Objects \subseteq 1..(nextId - 1)
  /\ Range(players) \subseteq Clients
  /\ DOMAIN players \cup monsters \subseteq DOMAIN hp
  /\ Range(hp) \subseteq 0..MaxHp /\ dead \subseteq DOMAIN hp
  /\ \A c \in Clients : /\ view[c] \cup gap[c] \subseteq 1..(nextId - 1)
                        /\ myPlayer[c] \in 0..(nextId - 1)

(* What a client that plays has on its screen is what is in the room, but  *)
(* for what it missed: what came and went while its player was dead, an    *)
(* item that somebody it does not know has picked up, and, when a send has *)
(* failed, what the others behind it in the broadcast were not told.       *)
ViewAgrees ==
  \A c \in Reached(players) :
    (view[c] \ Objects) \cup (Objects \ view[c]) \subseteq gap[c]

(* A session has at most one player in the room, and it is the one its     *)
(* packets and its disconnection are about.                                *)
OnePlayer == \A i \in DOMAIN players : myPlayer[players[i]] = i

(* Nobody stays in the room whose connection is gone.                      *)
NoGhost == \A c \in Reached(players) : connected[c] \/ c \in leaving

(* Two clients that go for the same item do not both get it, and it is     *)
(* gone from the room.                                                     *)
PickedOnce ==
  \A c \in Clients : /\ bag[c] \cap items = {}
                     /\ \A d \in Clients \ {c} : bag[c] \cap bag[d] = {}

(* Hits of several clients on one monster, in any order: when the handlers *)
(* are done, no monster without hp is left standing.                       *)
NoCorpse ==
  (\A c \in Clients : pc[c].at = "idle") => \A m \in monsters : hp[m] > 0 /\ m \notin dead

(* A player that died plays again, unless its connection is gone or the    *)
(* server crashed.                                                         *)
Dying(c) == pc[c].at \in {"remove", "find", "revive"} /\ DeadIsPlayer(c)
RevivedOrCrashed ==
  \A c \in Clients : Dying(c) ~> (myPlayer[c] \in DOMAIN players \/ ~connected[c]
                                  \/ crashed \/ nextId \notin Ids)

(* A client that is gone is saved and out of the room, unless the server   *)
(* crashed.                                                                *)
LeaverIsRemoved ==
  \A c \in Clients : c \in broken ~> ((Saved(c) /\ c \notin Reached(players)) \/ crashed
                                      \/ nextId \notin Ids)

(* What the code says of itself, and does not keep.                        *)

(* A player whose connection is lost is saved (unless a null pointer, in   *)
(* FindCauser or of a player in no room yet, crashed the server).          *)
DisconnectedIsSaved ==
  \A c \in Clients :
    ~connected[c] ~> Saved(c) \/ (crashed /\ lock # Hung)
=============================================================================
