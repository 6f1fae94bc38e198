# MMORPG2: TLA+ models, checks and proofs

This project models the server of MMORPG2, a C++ game server on Windows I/O
completion ports: its network library (`src/ServerCore`), its game logic
(`src/Server`), and of the Unreal client (`src/Source/MMORPG2`) what a client
that plays by its own code sends. The modules are TLA+, checked by TLC on small
instances; the theorems are checked by TLAPS for every value of the constants.
`PROJECT.json` maps each definition to the lines it models, and lists the runs,
the faults each property is known to detect, the hazards and the findings.

## 1. The system

### Threads and what they share

`main` (`src/Server/Server.cpp:23-85`) opens a pool of *one* database
connection, starts a listener with ten accept events and five worker threads
that loop on `IocpCore::Dispatch`, puts six monsters and two items into the
only room, and then loops on `GRoom->Update` every 50 ms. So there are six
threads. A worker takes one completion at a time and runs everything that
follows from it: the packets of a session, their handlers, the broadcasts to
other sessions and the database calls, all on that thread.

What the threads share: each session's send queue and flags; the registries
`Service::_sessions` and `GameSessionManager::_sessions`; the room's maps, under
the room's mutex (with the exceptions below); the game objects; the pool.

### Components

| component | state | operations | talks to | what makes it correct |
|---|---|---|---|---|
| **Session** (`ServerCore/Session`) | `_connected`, send queue, `_sendRegistered`, three overlapped events with owner references | Send, Disconnect, Dispatch, Register*/Process* of connect, send, receive, disconnect | the kernel; Service; GameSession callbacks | an event is used by one at a time and keeps its session alive; torn down once; sent bytes are ordered and complete; a lost client is noticed |
| **IocpCore, IocpEvent** | the completion port | Register, Dispatch | Session, Listener | each completion reaches its owner |
| **RecvBuffer, PacketSession** | two cursors in an array | OnWrite, OnRead, Clean, OnRecv | Session | no byte lost, always room, whole packets handed over |
| **Listener, Service** | accept events, set of sessions | StartAccept, RegisterAccept, ProcessAccept; Add/ReleaseSession | Session, IocpCore | ten accepts stay outstanding; the set holds the connected sessions |
| **SendBuffer, BufferReader/Writer, SocketUtils, NetAddress, ThreadManager** | none shared | wrappers | | |
| **GameSession, GameSessionManager** | `_myPlayer`, `_room`, account; set of sessions | OnConnected, OnDisconnected, OnRecvPacket | Session, ServerPacketHandler, Player | its player is in the room exactly while it plays |
| **ServerPacketHandler** | handler table | one handler per packet: login, account, characters, room, items, quests, chat | GameRoom, Player, DBConnection | a packet is applied to its session's player |
| **GameRoom** | maps of players, monsters, items; `_objectId`; mutex | Enter*, AddObject, Remove, Revive, BroadCast, Handle*, Update, SaveAllPlayerDb | Players, Monsters, Sessions | clients see what is there; one player per session; one owner per item |
| **GameObject, Creature, Player** | position, state, hp; gold, weapon, bag | SetHP, OnDamaged, OnDead, PickItem, BuyItem, EquippedItem, UseItem, AcceptQuest, CheckQuestTarget, Disconnect | GameRoom, Inventory, DBConnection | gold, items, quests follow the rules and survive |
| **Monster, Grux** | AI state, target, patrol, timers | Update (idle, move, attack, casting), OnDamaged, OnDead | GameRoom, Player | the machine leaves no state for good and forgets who left |
| **Inventory, Item** | items by id, slots | AddItem, RemoveItem, GetItem, GetEmptySlot | Player | one item per slot |
| **Account, PlayerDb, ItemDb** | what login loaded | | DBConnection | agrees with the rows |
| **DBConnection, DBConnectionPool** | ODBC statement; queue of connections | Load*, Save*, Create*, Delete*; Pop, Push | SQL Server | rows hold what memory holds; a connection comes back |
| **DataManager** | JSON tables, constant | Load* | all of the above | |
| **Client network** (`NetworkSession`, `PacketQueue`) | the same Session; a queue between the I/O threads and the game thread | Push, Pop, PopAll | ClientPacketHandler | packets in order, none lost; shutdown ends |
| **Client handlers, ObjectManager** | objects by id | Handle_S_*, Spawn, Despawn | the widgets | mirrors the room |

### What is hard here

* *Concurrency in Session*: any thread may call Send at any time, a session's
  own completions run on any worker, and Disconnect may start in several places
  at once, also inside Send.
* *One handler does not take the mutex*: `HandleChangedHP`
  (`src/Server/GameRoom.cpp:410`) finds both creatures, computes and writes hp,
  kills, revives, drops and broadcasts without it; two hits interleave.
* *Main iterates without the mutex* (`src/Server/GameRoom.cpp:47`), although
  workers insert and erase.
* *Three copies of a character*: the rows, the `PlayerDb` of the login and the
  `Player` in the room. They are brought together at login, at each RefreshInven
  and at each revival, and not always in the same direction.
* *One connection* in the pool, and `Pop` returns null rather than wait: the
  handlers of login, accounts and characters, every handler of a player that
  saves, disconnections and the main thread's auto-save compete for it.
* *Two sessions may log in to the same account*, each with its own copy of the
  account's characters, and a character is named by its place in that copy.
* *An accept slot that is lost is lost for good*: nothing registers it again.
* *TCP* delivers any number of bytes at a time.

The full list, with lines, is `hazards` in `PROJECT.json`.

## 2. Modules

The program modelled is the Debug build: `main` starts the service inside an
`assert` (`src/Server/Server.cpp:39`), so a build without asserts serves nobody.

### Session, OrderedStream

`Session.tla` is one session and any number of threads. An action is one
critical section, one access to an atomic, or one system call with the unshared
work around it. `pc[t]` is the place of thread `t` in the code, `ret[t]` and
`dret[t]` where the Send or the Disconnect it is in returns to, because Send is
called from handlers, from ProcessConnect and from outside, and Disconnect from
three places, one of them inside Send.

| code | model |
|---|---|
| `Send` 20-38 and `RegisterSend` 160-208 | `Send`, then `RegisterSendCheck`, `Drain`, `Post`, `Fail`: the critical section, the `_connected` test, the drain, WSASend, the error path |
| `ProcessSend` 262-294 | `ProcessSend` (or its zero-bytes Disconnect), `ProcessSendNext` |
| `Disconnect` 45-57 | `DisconnectEnter` (the exchange), `OnDisconnected`, `ManagerRemove`, `ReleaseSession`, `RegisterDisconnect` |
| `ProcessConnect` 210-224 | `ProcessConnect`, `AddSession`, `OnConnected`, `SendConnect`, then RegisterRecv |
| `RegisterRecv` 135-158, `ProcessRecv` 231-260 | `RegisterRecvCheck`, `Post`, `Fail`; `ProcessRecv`; handlers are `HandlerSend`, `HandlerEnterRoom`, `HandlerDone` |

`sends`, `recvs`, `discs` count the operations the kernel holds; `wire` is a
history of the buffers it took. Errors: an operation may fail at once or
complete with no bytes once the peer has closed or this side has disconnected;
with `ResourceErrors` it may also fail at once for a reason HandleError only logs.

`OrderedStream.tla` is what a caller of Send relies on: a queue whose front
leaves onto the wire, in order. Session implements it under the mapping
"kernel's batch not yet taken, then the queue". Before Disconnect nothing may be
lost; this is `StreamSpec`.

### RecvBuffer

The two cursors and the array, and OnRecv's loop over whole packets, for one
session; ProcessRecv is sequential, so the hard part is the nondeterministic
size of each receive. A byte is its position in a cyclic stream of packets, so a
byte lost, repeated or moved wrongly is visible in every state.

### Character

One character through logins, crashes of the server, item and quest handlers,
kills, hits, deaths and saves. An action is a whole handler with every database
statement it makes. State: the rows (`row`, `itemRows`, `questRows`, `nextId`),
the login's copy (`snapshot`, `quests`), the player object (`gold`, `hp`,
`inven`, `weapon`), and whether the pool's connection is there. A packet's inputs
are what this repository's client sends: `EquippedItem` for weapons and `UseItem`
for potions in its bag (`src/Source/MMORPG2/UI/ItemSlot.cpp:28-50`).
Details the code decides and a reader may not expect: a full bag costs the gold
of a purchase; `_usingWeapon` changes only if there was one; SaveQuestInfo
writes all quest rows of the player; a death saves the dead player *after* the
new one was built out of the login's copy.

### GameRoom

The room with several clients. A handler that holds the mutex is one action,
except where it sleeps: an entry and a revival hold the mutex for a second, in
which other workers' broadcasts may find a connection lost. So an entry is
`Handle_C_EnterRoom` (the handler waits for the mutex), `EnterPlayer` (mutex
taken, player made and set in the session) and `SpawnPlayer` (added to the
room), and a revival is `Revive` and `SpawnRevived`. An `OnDisconnected` in
between finds a player whose `_room` is null.
`HandleChangedHP` is split at every shared access: `HandleChangedHP` (find and
read), `CheckDead`, `MarkDead`, `RemoveDead`, `FindCauser`, `Revive`
and `SpawnRevived` or `EnterItem`, `SetHP`, with `pc[c]` holding its locals. `view[c]` is what client
`c` has been told is in the room, `gap[c]` what it missed, first of all because it
had no player in the room; packets arrive in order (OrderedStream), so a view is
changed when the packet is sent. Null dereferences set `crashed`, after which
nothing happens. `Disconnect` and `OnDisconnected` are the session's, seen from
the room: with `SendErrors` a lost connection is noticed inside a broadcast,
that is, in the middle of any handler. Most broadcasts are made under the mutex,
after the maps have changed: of a new player and its weapon, a boss, an item, a
pick-up, a despawn, a move. Each of them (`BroadCast`) may stop at any player,
in the order of the map: those in front have been told, those behind never are
(it goes into their `gap`), and the thread runs `OnDisconnected` of the lost
client, whose `Remove` locks the mutex a second time (`SendFails`). That is
undefined for a `std::mutex`; the model allows the thread to hang, its handler at
"hung" and the mutex `Hung` for ever, and the server to end. `gap[c]` also gets
an item that was picked up by somebody client `c` does not know, because
`Handle_S_PickUpItem` then returns before it removes the item
(`src/Source/MMORPG2/Network/ClientPacketHandler.cpp:297-302`).

### Monster

The AI of one monster, an ordinary one or the boss, in the room. The main
thread's tick reads the state three times, each an action: `Update` counts the
timers, `UpdatePatrolTime` the idleness, and `UpdateController` takes the branch
(`pc`). Then `UpdateIdle`, `Patrol`, `LoseTarget`, `Chase`, `UpdateAttack` or
`StopAttack`, `UpdateCasting`, `UpdateDead` decide and write; after `Chase` come
`Reach`, which looks if it can attack, and `Strike`, which writes Attack. Handlers
run in between, because the main thread holds no mutex: players enter, move,
die, are removed and leave; a hit kills the monster (`OnDead`, later `Remove`);
a player's death takes the target of who killed it (`UnBindKiller`); and a
client's C_MonsterMove overwrites the monster's state and place with the
client's copy (`HandleMonsterMoveByClient`) and then sets it Idle (`SetIdle`).
The client sends one the first time it places a monster and whenever it sees it
fall (`src/Source/MMORPG2/Object/Monster.cpp:147-191`); `due` is the state in it.

A target that `UnBindKiller` took is `Taken`: null like `NoTarget`, but told from
it, because this is the one way in which a monster in Attack comes to have none.

| code | model |
|---|---|
| distances | `zone[p]`: within the attack range, within the search range, or out |
| `_attackCoolTime`, `_castingTime`, `_patrolTime` | counters in ticks; the last two, only compared with a limit, stop at it |
| skills' cool-downs | left open: a skill may have cooled down at any tick |
| `_patrolPoint` | a patrol may end at any tick |
| Grux's "farther than half the search range" | a free choice in `Reach` |
| the loops over the maps, and `_target`, without the mutex | `Torn`: a handler that changes them during the tick may crash the server |
| null dereference of a removed monster | `crashed` |
| a broadcast of the main thread that fails and disconnects a player itself | `PlayerLeaves` may end everything |

### Listener

The accept loop: main registers the accept events one after the other, then
launches the workers, which take completions off the port in order and register
the event again. `at[t]` and `event[t]` are a thread's place and its event,
`refs[t]` the sessions its stack keeps alive.

| code (`ServerCore/Listener.cpp`) | model |
|---|---|
| `StartAccept`'s loop | `StartAccept`, one event at a time |
| `RegisterAccept` and the recursion when AcceptEx fails | `CreateSession`, then `AcceptEx` or `AcceptExFails`; every attempt leaves its session in `refs` until the recursion returns |
| `Dispatch`, `ProcessAccept` | `Dispatch`, then `RefuseAccept` or `ProcessConnect` (with `Service::AddSession`) |
| the kernel | `Accepted`, `Aborted`; the `backlog` of clients nobody has accepted |
| `CreateSession` returns null when no socket is left | `crashed`: `RegisterAccept` dereferences it (line 84) |

### DBConnectionPool, Accounts, CharacterStore

`DBConnectionPool.tla` is the pool: `Pop` takes the last connection, or null,
and never waits; `Push` takes whatever it is given.

`Accounts.tla` extends it with everyone who takes a connection, and with the
client's title and lobby screens, the packets between them and the rows of
[PlayerAccount] and [Player]. A session handles one packet at a time; the
handlers of different sessions interleave *at every database statement*, so
that MakeAccount's look and its INSERT, or CreatePlayerDb's count and its
INSERT, are separate actions. What a client may send is what its screens let a
player click, by the slots of the list it shows. Details a reader may not
expect: a null connection and an index past the end of the loaded characters
end the server (`Crash`), which `Restart`s with nothing but the rows; RefuseQuest
keeps the connection; the auto-save pushes back the null it popped; the
auto-save crashes only if somebody is in the room. `LoadPlayerDb` has no ORDER
BY; the order of the clustered primary key is assumed. A statement that fails is
not modelled. `shared` and `holed` are histories, which the properties need to
say where the code cannot keep them: accounts two sessions were in at once, and
accounts that lost a character that was not the last.

`CharacterStore.tla` is what the account service promises to everyone at once: a
name is given once, a character belongs to the account of the session that made
it and is deleted only by a session of that account, ids are not used again, and
a crash loses nothing of this. `Accounts` implements it under the mapping that
forgets slots, handlers, packets and connections.

How they fit: Listener's `ProcessConnect` ends where Session's begins, and its
`ReleaseSession` is Session's; Accounts' pool is what Character's flag for the
connection abstracts, its `EnterRoom` and `AddObject` are GameRoom's
`Handle_C_EnterRoom` to `SpawnPlayer`, its `Save` any saving handler of
Character; GameRoom's `Disconnect` stands for Session's, its ordered views
for OrderedStream; Session's `HandlerEnterRoom` and `OnDisconnected` for
GameRoom's; Character is the inside of one of GameRoom's players, whose
concurrent access GameRoom's mutex and the one outstanding receive per session
exclude (but for HandleChangedHP and the auto-save, see hazards). Monster is the
inside of one of GameRoom's monsters: its `OnDead` and `Remove` are GameRoom's
`MarkDead` and `RemoveDead`, its players' steps GameRoom's on players.

Definitions whose comment starts with "Fault:" are not part of any
specification: they are the plausible mistakes that the checks are shown to find.

## 3. Runs

Bounds are the constants called "bound" in each module.

| run | question | bounds, and why they are enough |
|---|---|---|
| `session_safety` | are the events exclusive and owned, batches non-empty, teardown single, with synchronous errors? | three workers and main; 4 sends, 2 receives. Three threads can hold the send, the receive and the disconnect at the same time, a fourth interferes |
| `session_stream` | is Send an ordered stream, is everything sent, nothing stranded, is a lost client released, unless a thread waits for ever in the room? | two workers and main, no resource errors; 3 sends: one on the wire, one queued behind it, one arriving while the completion is processed |
| `recv_buffer` | does any splitting of the stream keep the buffer right? | buffer of 8, ten of them as in the code, header 4, packets of 4, 5 or 7 bytes in all cycles of three; receives of any size. The ratio 10:1 is the code's; the largest packet is one less than a buffer, as 65535 is of 65536 |
| `character` | do rows and memory agree, slots stay distinct, used items stay used, weapons exist, nobody is dead? | two slots, three items, so the bag is full and slots are freed and used again; gold to 2, one quest, one death |
| `room_safety` | does unlocked damage, with sends that fail at any client of any broadcast, keep one player per session, one owner per item, right views and no corpse? | two clients, one monster, 2 hp so that hits need not kill, four object ids: monster, two players, and a drop, a boss or a revival |
| `room_live` | is a dead player revived and a lost client removed, and is there no ghost? | the same with 1 hp and without failing sends |
| `monster` | does who attacks have a target, or had one until it was taken, does every cast and every idleness end, is a dead target let go, also one that was taken? | each monster with one player (`OneEach`), which is enough for every handler to fall between any two steps of a tick; one tick between attacks, a cast and idleness of one: each timer is seen short of, at and after its end |
| `listener` | is no accept slot lost or used twice, and is a client that stays accepted? | two events, main and two workers, so that one event is processed while the other completes; two clients that come and go; four sockets: with two in use, accepts that fail use up the others, and the end of the sockets is reached |
| `accounts` | do copies, counts and slots agree with the rows, and is the service a CharacterStore? | two sessions and one name, so that they are always rivals; one connection, as in `main`; two characters ever made; one packet under way on the title screen, two in the lobby, so that a click may follow an unanswered one |
| `character_revive`, `character_quests`, `room_save` | findings, see below | one death; two quests; two clients alone |

Deadlock checking is off where the system really may stop: a session that has
ended, a room out of ids or crashed, a monster that is gone, a listener without
sockets, clients that are done with their accounts. It is on in `recv_buffer` and in the
Character runs.

Larger bounds were tried once, without a new answer: GameRoom with five ids,
Character with four items, Accounts with three characters and with two packets
under way on both screens, Monster with an ordinary monster between two players,
so that targets change (2.3 million states).

**Fairness.** Session's `FairSpec`: a thread inside one of the session's
functions goes on (nothing in Session waits but for short critical sections),
except in the room (`WF(~InRoom(t) /\ Continue(t))`): a handler, and the
`Player::Disconnect` that OnDisconnected calls, wait for the room's mutex, which
may never be given back, as `room_save` shows. `PeerCloseReleases` therefore
says that a lost client is released *or a thread stays in the room for ever*.
And some worker eventually processes a completed send or receive, including the failing completion of a closed connection: five workers
do nothing but wait for completions, and the kernel completes what it holds. No
fairness on PeerClose, on other threads' Sends or on handlers' choice of what to
do. GameRoom: a worker in a handler goes on with it (`WF(Handler(c))`), and the
closing of a connection is reported to the receive that follows the handler
(`WF(pc[c].at = "idle" /\ Disconnect(c))`) and processed (`WF(OnDisconnected)`).
`room_live` has no failing sends, so there the mutex stays taken after an action
only in the sleep of an entry or a revival; there are finitely many of those
(`MaxObjects`), so weak fairness is enough in the model, and stands for a mutex
that does not starve a waiter. In `room_save` sends fail, and a hung handler is
enabled no more. Monster: the main thread loops for ever (`WF(Main)`), and
C_MonsterMove does not wait between its two writes (`WF(SetIdle)`); nothing for
handlers that wait for the mutex, for what players do, or for skills. Listener: main starts the service, a thread with an
event goes on, some free worker takes the next completion, and the kernel
accepts; AcceptEx may fail as often as it likes, since each failure costs a
socket that the recursion keeps. Accounts states no fairness: a handler of it
waits for nobody.

## 4. Proofs

All proofs hold for every value of the constants that the named assumption of
the module allows; those of `NoStranded`, `NoGhost`, `LobbyProofs` and the
refinement of CharacterStore assume more of them, and that of `MemoryIsSaved`
assumes something of the character, which is said below. Every invariant that a
passing run checks is proved, and so are both refinements. The invariant itself is seldom
inductive; what follows says what had to be added.

* `SessionProofs`: for any sets of threads and any bounds, with or without
  synchronous errors, `TypeOK`, `SendExclusive`, `OwnedWhilePending`,
  `NoEmptyBatch` and `CleanDisconnect`. None is inductive alone. The inductive
  invariant `IInv` (at the end of `Session.tla`) gives each overlapped event a
  token: the send token is with the kernel or with the one thread that is
  between winning `_sendRegistered` and giving it up, and exists only while the
  flag is set; likewise the receive token, and the disconnect token of whoever
  won `_connected.exchange`; `Registries` ties the two sets of sessions to these
  tokens. Each step moves a token from one holder to the next. The lemmas treat
  one family of actions each.
  On top of it `SendImplementsStream`, the refinement of OrderedStream: `Drain`
  and the completion of a batch stutter, posting it takes the front of the
  stream, and a batch is dropped only where `Refused` says (`rsFail` is reached
  only after Disconnect, or without resources). `NothingStranded` (`NoStranded`)
  needs `Tended`: as long as the session is connected, a waiting buffer keeps
  `_sendRegistered` set, and whoever set it is still under way. It assumes
  `ResourceErrors = FALSE`, as the run does: a WSASend refused for lack of
  resources drops its batch, clears the flag and leaves what was queued meanwhile
  to the next Send.
* `RecvBufferProofs`: for every buffer size above the largest packet, at least
  three buffers, every stream of packets and every sequence of receive sizes:
  `CursorsOK` (ProcessRecv's overflow branches are dead code), `RoomToReceive`,
  and `MoveDisjoint` (Clean's memcpy never overlaps). The invariant is the first
  two together: less than a packet is left after OnRecv, so after Clean a whole
  buffer is free. Then `StreamIntact` and `NothingWithheld`, by `ByteInv`: the
  unread cells lead up to the byte to arrive, counted modulo the stream's
  period, and OnRecv always stands before a packet, one still to arrive when all
  is read. The few facts about remainders it takes are proved from the division
  with remainder. A stream is what `IsCycle` says: packets as `MakeSendBuffer`
  builds them, each beginning where another ends.
* `CharacterProofs`: for any templates, prices, bag size and number of deaths,
  `WeaponInBag`: the item that EquippedItem dereferences is found. It needs that
  the weapon in use is a weapon by template (UseItem removes potions), that only
  weapons are ever equipped, and, because login and revival rebuild the bag from
  elsewhere, that an id means the same item in the rows, the bag and the login's
  copy: `ItemInv`. On top of it `UsedStaysUsed`: a used item has no row again,
  and comes back into a bag only by a revival.
  `TypeOK` and `NeverDead` follow from `Sound`, which says the same of all three
  copies: a revival plays what login loaded, and login loads what was saved.
  `SlotsDistinct` and the gold and items of `MemoryIsSaved` follow from `Kept`:
  until the first death, the copy of the login is the rows in the lobby, and the
  rows are the player in the room. The quests are more delicate, since
  SaveQuestInfo writes one quest into every row: `OneQuestIsSaved` and
  `NothingUnsaved` state `QuestsAreSaved` and `MemoryIsSaved` of a character that
  has never taken a second quest, whatever the quest templates (the game has
  two); `GoldAndItemsAreSaved` needs no such condition.
* `GameRoomProofs`: for any clients, hp and number of objects, `TypeOK`,
  `OnePlayer`, `PickedOnce`, `ViewAgrees` and `NoCorpse`, with broadcasts that may
  fail at any client and leave their handler hung. `IInv` adds to the types: `Makers` (a handler that sleeps in an entry
  or a revival has the mutex, and its player, the last object made, is in no map
  and nobody's target), `Departed` (who is about to make a player has none in the
  room), `Apart` (no item is a creature, in the maps or in a handler's locals),
  `Informed` (what a client does not know of is in its gap, also while it is
  dead, or when a broadcast stopped in front of it), and `Cleared`: a monster without hp is marked dead, and for each marked
  one some handler is on its way to Remove, which is why two unlocked hits leave
  no corpse. The lemmas on broadcasts say what all of them have in common: the
  handler goes on and the mutex is free, or it is hung and so is the mutex.
  `Free` and `Hung` must not be clients. `NobodyHaunts`
  (`NoGhost`) assumes `SendErrors = FALSE`, as the run does: then who is
  disconnected runs no handler (`Quits`). With failing sends there are ghosts.
* `MonsterProofs`: for any players, classes and timers, `AttackHasTarget`: whoever
  wrote the state meanwhile, a monster in Attack has a target, or had one until
  `UnBindKiller` took it, and an ordinary one is not on patrol. Not inductive
  alone: handlers may write the state while the main thread is in the branch of
  Attack, and the main thread may be in the branch of another state when it
  writes Attack. `IInv` adds that in those other branches the state is not Attack,
  unless a C_MonsterMove is between its two writes, and that in `reach` and
  `strike` the monster has (or had) a target and no patrol. `TypeOK` is the types
  and the one limit the code itself keeps, that of the cool time; the other two
  timers are cut off where the code no longer tells them apart.
* `ListenerProofs`: for any events, workers, clients and sockets,
  `AcceptSlotsKept`. `IInv` adds `ThreadsOK`: a thread has an event just while it
  is in the accept functions, and the session that its event names is not in the
  service yet. An event is then passed on like a token: fresh, a thread's, the
  kernel's, the port's.
* `AccountsProofs`: for any sessions, names, bounds and *any number of
  connections*, `TypeOK` (a handler has a connection just while it works on the
  database, and an account whenever it works on one) and `NoSharedConnection` (a
  connection is in one place). The invariant `TInv` adds `LoggedIn` (a session
  that has not logged in is asked for nothing else) and `RowsOwned` (ids are
  given once; what a session has loaded and not yet lost is its account's).
  `Implements`, the refinement of CharacterStore, assumes `ConnectionCount = 1`,
  which is what `main` opens:
  then at most one handler is between two statements, nobody inserts a name
  between MakeAccount's look and its INSERT, and `NameIsFree` joins the
  invariant. With two connections it is false: nothing else in the code keeps
  two sessions from making the same account.
* `LobbyProofs`: for any sessions, names and bounds and `main`'s one connection,
  `CopyCurrent`, `CountCoversRows` and `SlotIsIndex`. The invariant `Books`
  follows a character through the statements of its handler: a session's list
  is the rows but between the statement that changes them and the one that reads
  them again (`Known`), the count is raised before the row comes and lowered
  after it is gone (`Counted`), a slot is the place in the list (`Numbered`).
  For what the client shows, `Answered` follows the packets: a login still to be
  handled is followed by a request for the list, and an answer is on its way
  whenever the session's list is not what the client will show. With two
  connections TLC finds `CopyCurrent` violated: another session logs in to an
  account that is inserted but not yet adopted by the session that makes it, makes a
  character and leaves.

The least and the greatest of a set of ids, slots or quests are proved to exist
by well-founded induction on the naturals, in the form the library states for
sets (`MinIs`, `MaxIs`).

Model-checked only, because liveness is out of the prover's reach:
`EveryBufferSent`, `PeerCloseReleases`, `RevivedOrCrashed`, `LeaverIsRemoved`,
`CastEnds`, `IdleEnds`, `DeadTargetDropped` and `KeepsAccepting`. The findings
are runs, not theorems.

## 5. Findings

Each is a run that TLC finds violated, by the code's own behaviour:

* `character_revive`: a revival gives back the bag and gold of the *login*,
  while the comment says the items the player had. In the same way two rows can
  end up in one slot, which is why `SlotsDistinct` is stated up to the first death.
* `character_quests`: SaveQuestInfo updates every quest row of the player, so of
  two quests one is lost.
* `room_save`: a send that fails inside a broadcast disconnects another session
  under the mutex its OnDisconnected locks.

Seen while modelling, and not a run:

* A refused quest keeps the pool's only connection (`src/Server/Player.cpp:144`;
  `RefuseQuest` in Accounts), after which the next handler that needs one ends
  the server; the auto-save may push null into the pool
  (`src/Server/GameRoom.cpp:617-625`).
* Slots are numbered by the length of the list when a character is made, and used
  as indices: after a character that is not the last is deleted, the client
  names another one than the player sees, or an index past the end. `SlotIsIndex`
  excludes such accounts (`holed`), and those open in two sessions (`shared`),
  whose second deletion of the same character also lowers the count twice.
* A monster whose target has left the game goes on attacking the place where it
  was, although `src/Server/Monster.cpp:105` says that it becomes Idle: it lets go
  of a null or dead target only, and who leaves is neither.
* The death of a player clears the killer's `_target` on a worker
  (`src/Server/Player.cpp:237`) while the main thread may be between a test of it
  and its use (`src/Server/Monster.cpp:106-118`; `UnBindKiller`, `Torn`).
* A player killed by a monster that dies at the same time is not revived: the
  server dereferences null (`src/Server/Player.cpp:237`; `RevivedOrCrashed` allows it).
  So does a disconnection in the second that an entry or a revival sleeps.
* A server without sockets dereferences null in RegisterAccept
  (`src/ServerCore/Listener.cpp:84`).
* `Service::ReleaseSession` erases inside an `assert`, like the start of the
  service: both need the Debug build.
* A character that came without a weapon can wear two
  (`src/Server/Player.cpp:47`); the main thread iterates without the mutex
  (`src/Server/GameRoom.cpp:47`, `Torn`); a C_MonsterMove for a monster that was
  killed meanwhile dereferences null (`src/Server/GameRoom.cpp:499`), and one for
  a monster being killed overwrites Dead, so that another hit rewards again; a
  session disconnected by a failed send between Remove and Revive leaves a ghost
  in the room (`NoGhost` holds without failing sends).

## 6. Not modelled, and why

* Exact positions (zones in Monster), players' skills, chat, animation: they
  change nothing that a property is about; their broadcasts are GameRoom's
  `HandleMove`.
* The hp a C_MonsterMove writes back to a monster, and the rewards of a second
  killer. What becomes of the iteration in HandleChangedHP's own broadcasts, which
  walk the players' map without the mutex (as the main thread's do, which Monster's
  `Torn` covers).
* Which fields the auto-save finds in a bag that a handler is changing at that
  moment: in Character it is one atomic handler, in Accounts only its use of the
  pool.
* Database statements that fail: `ASSERT_CRASH` ends the server, which Character
  covers by `Crash`.
* The connecting half of a session (`ClientService`, `RegisterConnect`), and the
  client's queue and shutdown: the queue is pushed to without the lock that
  PopAll takes (`src/Source/MMORPG2/Managers/NetworkManager.h:69`), undefined
  behaviour whose outcomes are those of a container's memory;
  `src/Source/MMORPG2/Network/NetworkSession.cpp:385` joins the I/O threads from
  one of them.
* The encoding of packets (generated protobuf code), the columns bound to
  statements, the JSON tables, the wrappers of Winsock.
* The client's actors, animation and widgets, but for what the title and lobby
  screens let a player send.
* Everything vendored or generated, which is nearly all of the repository by
  size: protobuf's library and its tests (twice), the generated messages, the
  Unreal project's plugins and assets.

## 7. Plan

Done: Session with OrderedStream, RecvBuffer, Character, GameRoom, Monster,
Listener, Accounts with DBConnectionPool and CharacterStore; proofs of every
invariant and refinement the runs check. Next, in this order:

1. Facts the properties rest on and that are stated only inside an invariant, as
   properties of their own: that a handler that sleeps in an entry or a revival
   keeps the mutex; that what OnRecv hands over is the client's packets in order.
2. `PacketQueue`: the client's queue and its shutdown, unknown ids in
   ObjectManager.
