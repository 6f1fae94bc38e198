------------------------------ MODULE Character ------------------------------
(***************************************************************************)
(* One character and its rows in the database: Player, Inventory, the      *)
(* PlayerDb loaded at login, and the DBConnection calls their handlers     *)
(* make.  The packets of one client are handled one at a time (its session *)
(* has one receive outstanding), so every action is a whole handler.       *)
(*                                                                         *)
(* The character exists three times: its rows; the PlayerDb (snapshot,     *)
(* quests) that login loads; and the Player object (gold, hp, inven,       *)
(* weapon) that entering the room, and every revival, builds from the      *)
(* PlayerDb.  The question is when the three agree.                        *)
(***************************************************************************)
EXTENDS Integers, Sequences, FiniteSets, FiniteSetsExt

CONSTANTS
  Weapons, Potions,  \* item templates, by ItemType
  Price,             \* price of a template
  MaxSlot,           \* slots of the bag (24)
  Quests,            \* quest templates, by id
  Target,            \* the monster template a quest counts
  MaxHp, Heal,       \* stat().maxhp(); what a potion restores (50)
  MaxGold,           \* bound: gold a character can have
  MaxItems,          \* bound: rows ever inserted into [Item]
  MaxProgress,       \* bound: progress of a quest
  MaxDeaths          \* bound: deaths

Templates == Weapons \cup Potions
Monsters == {Target[q] : q \in Quests}

ASSUME CharacterAssumption ==
  /\ Weapons \cap Potions = {}
  /\ Price \in [Templates -> Nat]
  /\ Quests \subseteq Nat /\ DOMAIN Target = Quests
  /\ MaxSlot \in Nat \ {0} /\ MaxHp \in Nat \ {0} /\ Heal \in Nat
  /\ MaxGold \in Nat /\ MaxItems \in Nat /\ MaxProgress \in Nat /\ MaxDeaths \in Nat

NoWeapon == 0
Item == [tmpl : Templates, slot : 0..(MaxSlot - 1), equipped : BOOLEAN]

VARIABLES
  status,      \* "offline", "lobby" (logged in) or "room" (playing)
  row,         \* the [Player] row
  itemRows,    \* the [Item] rows of the character, by ItemDbId
  questRows,   \* the [Quest] rows of the character
  nextId,      \* the next @@IDENTITY of [Item]
  connection,  \* the only connection of the pool is in the pool
  snapshot,    \* PlayerDb: Gold, Hp, Items
  quests,      \* PlayerDb::CurrentQuestList: progress by quest
  gold, hp, inven, weapon,  \* the Player; weapon is _usingWeapon's id
  used,        \* history: items consumed
  deaths       \* history: deaths

dbVars == <<row, itemRows, questRows, nextId>>
playerVars == <<gold, hp, inven, weapon>>
vars == <<status, dbVars, connection, snapshot, quests, playerVars, used, deaths>>

Empty == [i \in {} |-> i]
Put(f, k, v) == [i \in DOMAIN f \cup {k} |-> IF i = k THEN v ELSE f[i]]
Drop(f, k) == [i \in DOMAIN f \ {k} |-> f[i]]

Init ==
  /\ status = "offline"
  /\ row = [gold |-> 0, hp |-> MaxHp]
  /\ itemRows = Empty /\ questRows = <<>> /\ nextId = 1
  /\ connection = TRUE
  /\ snapshot = [gold |-> 0, hp |-> MaxHp, items |-> Empty]
  /\ quests = Empty
  /\ gold = 0 /\ hp = MaxHp /\ inven = Empty /\ weapon = NoWeapon
  /\ used = {} /\ deaths = 0

-----------------------------------------------------------------------------
(* DBConnection.                                                           *)

(* SaveItemInfo, for every item of a bag.                                  *)
SavedItems(rows, bag) ==
  [i \in DOMAIN rows |->
     IF i \in DOMAIN bag
       THEN [rows[i] EXCEPT !.slot = bag[i].slot, !.equipped = bag[i].equipped]
       ELSE rows[i]]

(* SaveQuestInfo: the statement selects by player alone.                   *)
SaveQuestInfo(rows, q, progress) ==
  [r \in DOMAIN rows |-> [quest |-> q, progress |-> progress]]

(* SaveQuestInfo for every quest of qs, in the map's order: what the last  *)
(* one wrote stays.                                                        *)
SavedQuests(rows, qs, list) ==
  IF qs = {} THEN rows ELSE SaveQuestInfo(rows, Max(qs), list[Max(qs)])

(* SavePlayerInfo, on item rows that the handler may have changed already. *)
SavePlayerInfo(rows, g, h, bag) ==
  /\ row' = [gold |-> g, hp |-> h]
  /\ itemRows' = SavedItems(rows, bag)
  /\ questRows' = SavedQuests(questRows, DOMAIN quests, quests)

(* LoadQuestDb: one entry per quest id among the rows.                     *)
LoadedQuests ==
  LET ids == {questRows[r].quest : r \in DOMAIN questRows}
  IN  {f \in [ids -> 0..MaxProgress] :
         \A q \in ids : \E r \in DOMAIN questRows :
           questRows[r] = [quest |-> q, progress |-> f[q]]}

-----------------------------------------------------------------------------
(* Inventory and Player.                                                   *)

(* Fault: the scan of the slots goes one too far.                          *)
GetEmptySlot_OffByOne(bag) ==
  LET free == {s \in 0..MaxSlot : \A i \in DOMAIN bag : bag[i].slot # s}
  IN  IF free = {} THEN -1 ELSE Min(free)

(* Fault: the next slot is the number of items.                            *)
GetEmptySlot_Count(bag) ==
  IF Cardinality(DOMAIN bag) = MaxSlot THEN -1 ELSE Cardinality(DOMAIN bag)

GetEmptySlot(bag) ==
  LET free == {s \in 0..(MaxSlot - 1) : \A i \in DOMAIN bag : bag[i].slot # s}
  IN  IF free = {} THEN -1 ELSE Min(free)

(* CreatePlayer's choice of _usingWeapon: the last equipped item of the    *)
(* list, in the order the SELECT returned the rows.                        *)
Wielded(bag) ==
  LET equipped == {i \in DOMAIN bag : bag[i].equipped}
  IN  IF equipped = {} THEN {NoWeapon} ELSE equipped

(* CreatePlayer and LoadPlayerDb: a Player out of a PlayerDb.              *)
CreatePlayer(p) ==
  /\ gold' = p.gold /\ hp' = p.hp /\ inven' = p.items
  /\ weapon' \in Wielded(p.items)

Playing == status = "room" /\ connection

(* Additem: nothing if the bag is full, else a new row and its item.       *)
Full == GetEmptySlot(inven) = -1

Added(f, t) ==
  IF Full THEN f
  ELSE Put(f, nextId, [tmpl |-> t, slot |-> GetEmptySlot(inven), equipped |-> FALSE])

Additem(t) ==
  /\ Full \/ nextId <= MaxItems
  /\ inven' = Added(inven, t)
  /\ nextId' = IF Full THEN nextId ELSE nextId + 1

-----------------------------------------------------------------------------
(* Handlers.                                                               *)

(* C_TryLogin with the right password.                                     *)
TryLogin ==
  /\ status = "offline"
  /\ status' = "lobby"
  /\ snapshot' = [gold |-> row.gold, hp |-> row.hp, items |-> itemRows]
  /\ quests' \in LoadedQuests
  /\ UNCHANGED <<dbVars, connection, playerVars, used, deaths>>

(* C_EnterRoom: the new Player is saved at once by RefreshInven.           *)
EnterPlayer ==
  /\ status = "lobby" /\ connection
  /\ status' = "room"
  /\ CreatePlayer(snapshot)
  /\ SavePlayerInfo(itemRows, gold', hp', inven')
  /\ UNCHANGED <<nextId, connection, snapshot, quests, used, deaths>>

(* C_PickUpItem, for an item that lies in the room.                        *)
PickItem(t) ==
  /\ Playing
  /\ Additem(t)
  /\ itemRows' = Added(itemRows, t)
  /\ UNCHANGED <<status, row, questRows, connection, snapshot, quests,
                 gold, hp, weapon, used, deaths>>

(* Fault: no RefreshInven at the end.                                      *)
BuyItem_NoRefresh(t) ==
  /\ Playing
  /\ Price[t] <= gold
  /\ gold' = gold - Price[t]
  /\ Additem(t)
  /\ itemRows' = Added(itemRows, t)
  /\ UNCHANGED <<row, questRows, status, connection, snapshot, quests, hp, weapon,
                 used, deaths>>

(* C_BuyItem.  Too little gold changes nothing; a full bag costs the gold. *)
BuyItem(t) ==
  /\ Playing
  /\ Price[t] <= gold
  /\ gold' = gold - Price[t]
  /\ Additem(t)
  /\ SavePlayerInfo(Added(itemRows, t), gold', hp, inven')
  /\ UNCHANGED <<status, connection, snapshot, quests, hp, weapon, used, deaths>>

(* C_EquippedItem, which the client sends for weapons in its bag.          *)
(* _usingWeapon changes only if it was set before.                         *)
EquippedItem(i) ==
  /\ Playing
  /\ i \in DOMAIN inven /\ inven[i].tmpl \in Weapons
  /\ LET off == IF weapon = NoWeapon THEN inven
                ELSE [inven EXCEPT ![weapon].equipped = FALSE]
     IN  inven' = [off EXCEPT ![i].equipped = TRUE]
  /\ weapon' = IF weapon = NoWeapon THEN NoWeapon ELSE i
  /\ SavePlayerInfo(itemRows, gold, hp, inven')
  /\ UNCHANGED <<status, nextId, connection, snapshot, quests, gold, hp, used, deaths>>

(* Fault: the item's row is not deleted.                                   *)
UseItem_KeepsRow(i) ==
  /\ Playing
  /\ i \in DOMAIN inven /\ inven[i].tmpl \in Potions
  /\ inven' = Drop(inven, i)
  /\ hp' = Min({hp + Heal, MaxHp})
  /\ SavePlayerInfo(itemRows, gold, hp', inven')
  /\ used' = used \cup {i}
  /\ UNCHANGED <<status, nextId, connection, snapshot, quests, gold, weapon, deaths>>

(* C_UseItem, which the client sends for potions in its bag.               *)
UseItem(i) ==
  /\ Playing
  /\ i \in DOMAIN inven /\ inven[i].tmpl \in Potions
  /\ inven' = Drop(inven, i)
  /\ hp' = Min({hp + Heal, MaxHp})
  /\ SavePlayerInfo(Drop(itemRows, i), gold, hp', inven')
  /\ used' = used \cup {i}
  /\ UNCHANGED <<status, nextId, connection, snapshot, quests, gold, weapon, deaths>>

(* C_GetQuest for a quest the character has: AcceptQuest returns after it  *)
(* has taken the connection out of the pool.                               *)
AcceptQuestAgain(q) ==
  /\ Playing
  /\ q \in DOMAIN quests
  /\ connection' = FALSE
  /\ UNCHANGED <<status, dbVars, snapshot, quests, playerVars, used, deaths>>

(* C_GetQuest for a new quest.                                             *)
AcceptQuest(q) ==
  /\ Playing
  /\ q \notin DOMAIN quests
  /\ quests' = Put(quests, q, 0)
  /\ questRows' = Append(questRows, [quest |-> q, progress |-> 0])
  /\ UNCHANGED <<status, row, itemRows, nextId, connection, snapshot, playerVars,
                 used, deaths>>

(* The character kills a monster (Monster::OnDead): gold, RefreshInven,    *)
(* then CheckQuestTarget counts the kill for every quest about it.         *)
Kill(m, reward) ==
  LET hit == {q \in DOMAIN quests : Target[q] = m}
  IN  /\ Playing
      /\ gold + reward <= MaxGold
      /\ \A q \in hit : quests[q] < MaxProgress
      /\ gold' = gold + reward
      /\ quests' = [q \in DOMAIN quests |-> IF q \in hit THEN quests[q] + 1 ELSE quests[q]]
      /\ row' = [gold |-> gold', hp |-> hp]
      /\ itemRows' = SavedItems(itemRows, inven)
      /\ questRows' = SavedQuests(SavedQuests(questRows, DOMAIN quests, quests),
                                  hit, quests')
      /\ UNCHANGED <<status, nextId, connection, snapshot, hp, inven, weapon, used, deaths>>

(* A hit the character survives (Creature::OnDamaged).                     *)
OnDamaged(damage) ==
  /\ status = "room"
  /\ damage < hp
  /\ hp' = hp - damage
  /\ UNCHANGED <<status, dbVars, connection, snapshot, quests, gold, inven, weapon,
                 used, deaths>>

(* Fault: the dead Player's hp is set to zero before it is saved.          *)
OnDead_SavesZero(damage) ==
  /\ Playing
  /\ hp <= damage /\ deaths < MaxDeaths
  /\ deaths' = deaths + 1
  /\ snapshot' = [snapshot EXCEPT !.hp = MaxHp]
  /\ CreatePlayer(snapshot')
  /\ SavePlayerInfo(itemRows, gold, 0, inven)
  /\ UNCHANGED <<status, nextId, connection, quests, used>>

(* Fault: the new Player keeps the old one's weapon.                       *)
OnDead_KeepsWeapon(damage) ==
  /\ Playing
  /\ hp <= damage /\ deaths < MaxDeaths
  /\ deaths' = deaths + 1
  /\ snapshot' = [snapshot EXCEPT !.hp = MaxHp]
  /\ gold' = snapshot.gold /\ hp' = MaxHp /\ inven' = snapshot.items
  /\ SavePlayerInfo(itemRows, gold, hp, inven)
  /\ UNCHANGED <<status, nextId, connection, quests, weapon, used>>

(* A hit that kills (Player::OnDead): Revive builds a new Player out of    *)
(* the PlayerDb of the login; then the dead one is saved, with the hp it   *)
(* had before the hit.                                                     *)
OnDead(damage) ==
  /\ Playing
  /\ hp <= damage /\ deaths < MaxDeaths
  /\ deaths' = deaths + 1
  /\ snapshot' = [snapshot EXCEPT !.hp = MaxHp]
  /\ CreatePlayer(snapshot')
  /\ SavePlayerInfo(itemRows, gold, hp, inven)
  /\ UNCHANGED <<status, nextId, connection, quests, used>>

(* GameRoom::Update's save of every player, on the main thread.            *)
SaveAllPlayerDb ==
  /\ Playing
  /\ SavePlayerInfo(itemRows, gold, hp, inven)
  /\ UNCHANGED <<status, nextId, connection, snapshot, quests, playerVars, used, deaths>>

(* The client leaves the room: the Player is saved and gone.               *)
Disconnect ==
  /\ Playing
  /\ status' = "offline"
  /\ SavePlayerInfo(itemRows, gold, hp, inven)
  /\ UNCHANGED <<nextId, connection, snapshot, quests, playerVars, used, deaths>>

(* The client leaves the lobby; nothing to save.                           *)
LeaveLobby ==
  /\ status = "lobby"
  /\ status' = "offline"
  /\ UNCHANGED <<dbVars, connection, snapshot, quests, playerVars, used, deaths>>

(* The server process dies and is started again: the memory is lost.  This *)
(* is also where every handler that needs the database ends after          *)
(* AcceptQuestAgain, because Pop returns nullptr.                          *)
Crash ==
  /\ status # "offline"
  /\ status' = "offline"
  /\ connection' = TRUE
  /\ UNCHANGED <<dbVars, snapshot, quests, playerVars, used, deaths>>

Next ==
  \/ TryLogin \/ EnterPlayer \/ LeaveLobby \/ Disconnect \/ SaveAllPlayerDb \/ Crash
  \/ \E t \in Templates : PickItem(t) \/ BuyItem(t)
  \/ \E i \in DOMAIN inven : EquippedItem(i) \/ UseItem(i)
  \/ \E q \in Quests : AcceptQuest(q) \/ AcceptQuestAgain(q)
  \/ \E m \in Monsters, reward \in 0..1 : Kill(m, reward)
  \/ \E damage \in 1..MaxHp : OnDamaged(damage) \/ OnDead(damage)

Spec == Init /\ [][Next]_vars

-----------------------------------------------------------------------------
(* Properties.                                                             *)

(* Types: a bag's slots exist and gold is never negative, in memory and in *)
(* the rows.                                                               *)
TypeOK ==
  /\ status \in {"offline", "lobby", "room"}
  /\ row.gold \in Nat /\ row.hp \in 0..MaxHp
  /\ \A i \in DOMAIN itemRows : itemRows[i] \in Item
  /\ \A i \in DOMAIN inven : inven[i] \in Item
  /\ \A r \in DOMAIN questRows : questRows[r] \in [quest : Quests, progress : Nat]
  /\ connection \in BOOLEAN
  /\ gold \in Nat /\ hp \in 0..MaxHp
  /\ DOMAIN quests \subseteq Quests

QuestsSaved ==
  /\ {questRows[r] : r \in DOMAIN questRows}
       = {[quest |-> q, progress |-> quests[q]] : q \in DOMAIN quests}
  /\ Len(questRows) = Cardinality(DOMAIN quests)

(* As long as the character has not died, the rows hold between two        *)
(* packets what the Player and its PlayerDb hold, hp and position          *)
(* excepted: a crash of the server costs no gold, no item, no equipment    *)
(* and no quest.                                                           *)
MemoryIsSaved ==
  status = "room" /\ deaths = 0 =>
    /\ row.gold = gold
    /\ itemRows = inven
    /\ QuestsSaved

(* No two items are in the same slot of the bag, not even across logins,   *)
(* as long as no revival has put the bag of the login beside newer rows.   *)
SlotsDistinct ==
  deaths = 0 =>
    \A bag \in {inven, itemRows} : \A i, j \in DOMAIN bag :
      bag[i].slot = bag[j].slot => i = j

(* A potion that was used has no row, in this session or a later one, and  *)
(* does not come back into the bag (a revival apart).                 *)
UsedStaysUsed ==
  \A i \in used : /\ i \notin DOMAIN itemRows
                  /\ status = "room" /\ deaths = 0 => i \notin DOMAIN inven

(* The weapon EquippedItem takes off is in the bag: GetItem, whose result  *)
(* it dereferences, finds it.                                              *)
WeaponInBag == status = "room" /\ weapon # NoWeapon => weapon \in DOMAIN inven

(* Nobody plays, or will log in, with no hp.                               *)
NeverDead == row.hp > 0 /\ (status = "room" => hp > 0)

(* What the code says of itself, and does not keep.                        *)

(* Revive "puts the items the player had into the inventory".              *)
ReviveKeepsItems == [][deaths' # deaths => inven' = inven]_vars

(* The saved quests are the character's quests.                            *)
QuestsAreSaved == status = "room" => QuestsSaved

=============================================================================
