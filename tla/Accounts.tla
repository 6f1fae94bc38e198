------------------------------- MODULE Accounts -------------------------------
(***************************************************************************)
(* Accounts and their characters: the client's title and lobby screens,    *)
(* the packets between a client and its session, the handlers of login,    *)
(* accounts and characters, the rows in the database, and everyone who     *)
(* takes the pool's connection: those handlers, a player's handlers in the *)
(* game, its disconnection, and the main thread's auto-save.               *)
(*                                                                         *)
(* A session handles one packet at a time; handlers of different sessions  *)
(* interleave at every database statement.  A null connection is           *)
(* dereferenced by the statement that follows, and a vector read past its  *)
(* end gives a pointer to nothing: both end the server, and with it all    *)
(* but the rows.  A password is right or wrong, nothing more.              *)
(***************************************************************************)
EXTENDS DBConnectionPool, Integers, FiniteSets

CONSTANTS
  Sessions, Names,
  MaxCharacters,   \* bound: characters ever made, and UsingPlayerSlot
  MaxPending       \* bound: packets of a session under way, by screen

VARIABLES
  accounts,        \* [PlayerAccount], in id order: name, UsingPlayerSlot
  players,         \* [Player]: id, owner (AccountDbId), slot
  nextId,          \* the next identity value of [Player]
  handler,         \* of each session: where its handler is, and its locals
  held,            \* the handler's DBConnection* db
  account,         \* GameSession::_myAccount, the account's id or 0
  loaded,          \* its _players: rows, as LoadPlayerDb left them
  playing,         \* the character in the room, or 0
  saver,           \* the main thread in SaveAllPlayerDb: its db, or NotSaving
  up,              \* is the server running
  toServer, toClient,
  screen,          \* the client's level; "lost" until its session notices
  infos,           \* UCharacterSelectListUI::CharacterInfos
  selected,        \* SelectedSlot
  shared,          \* history: accounts that two sessions were in at once
  holed            \* history: accounts that lost a character not the last

rows == <<accounts, players, nextId>>
server == <<account, loaded, playing>>
client == <<screen, infos, selected>>
history == <<shared, holed>>
vars == <<rows, connections, handler, held, server, saver, up,
          toServer, toClient, client, history>>

None == "none"
NotSaving == -1
Idle == [at |-> "idle", name |-> None, id |-> 0]
At(place) == [Idle EXCEPT !.at = place]
Request(o) == [op |-> o, name |-> None, slot |-> 0]
Unselected == 10

(* LoadPlayerDb: the account's rows, in the order of their ids.            *)
RowsOf(a) == {p \in players : p.owner = a}
Listed(R) == {v \in [1..Cardinality(R) -> R] :
                \A i, j \in DOMAIN v : i < j => v[i].id < v[j].id}

Init ==
  /\ accounts = <<>> /\ players = {} /\ nextId = 1
  /\ connections = Connected
  /\ handler = [s \in Sessions |-> Idle] /\ held = [s \in Sessions |-> Null]
  /\ account = [s \in Sessions |-> 0] /\ loaded = [s \in Sessions |-> <<>>]
  /\ playing = [s \in Sessions |-> 0]
  /\ saver = NotSaving /\ up = TRUE
  /\ toServer = [s \in Sessions |-> <<>>]
  /\ toClient = [s \in Sessions |-> <<>>]
  /\ screen = [s \in Sessions |-> "off"]
  /\ infos = [s \in Sessions |-> <<>>]
  /\ selected = [s \in Sessions |-> Unselected]
  /\ shared = {} /\ holed = {}

-----------------------------------------------------------------------------
(* The process ends: what is left is the rows.                             *)
Crash ==
  /\ up' = FALSE
  /\ connections' = <<>> /\ saver' = NotSaving
  /\ handler' = [s \in Sessions |-> Idle] /\ held' = [s \in Sessions |-> Null]
  /\ account' = [s \in Sessions |-> 0] /\ loaded' = [s \in Sessions |-> <<>>]
  /\ playing' = [s \in Sessions |-> 0]
  /\ toServer' = [s \in Sessions |-> <<>>]
  /\ toClient' = [s \in Sessions |-> <<>>]
  /\ screen' = [s \in Sessions |-> "off"]
  /\ infos' = [s \in Sessions |-> <<>>]
  /\ selected' = [s \in Sessions |-> Unselected]
  /\ UNCHANGED <<rows, history>>

Restart ==
  /\ ~up /\ up' = TRUE
  /\ connections' = Connected
  /\ UNCHANGED <<rows, handler, held, server, saver, toServer, toClient,
                 client, history>>

(* The handler of s takes a connection and goes on as h; rest is what is   *)
(* left to read of its packets.                                            *)
Take(s, h, rest) ==
  IF Popped = Null THEN Crash
  ELSE
    /\ Pop /\ held' = [held EXCEPT ![s] = Popped]
    /\ handler' = [handler EXCEPT ![s] = h]
    /\ toServer' = [toServer EXCEPT ![s] = rest]
    /\ UNCHANGED <<rows, server, saver, up, toClient, client, history>>

Packet(s, op) ==
  /\ up /\ handler[s] = Idle
  /\ toServer[s] # <<>> /\ Head(toServer[s]).op = op

Rest(s) == Tail(toServer[s])

(* A statement of the handler of s that changes rows only, on to h.        *)
Go(s, h) ==
  /\ handler' = [handler EXCEPT ![s] = h]
  /\ UNCHANGED <<connections, held, server, saver, up, toServer, toClient,
                 client, history>>

SharedBy(s, a) ==
  IF \E t \in Sessions \ {s} : account[t] = a THEN shared \cup {a} ELSE shared

(* SetMyAccount with an account whose _players is v.                       *)
SetMyAccount(s, a, v) ==
  /\ account' = [account EXCEPT ![s] = a]
  /\ loaded' = [loaded EXCEPT ![s] = v]
  /\ shared' = SharedBy(s, a)
  /\ UNCHANGED <<rows, connections, held, playing, saver, up, toServer,
                 toClient, client, holed>>

-----------------------------------------------------------------------------
TryLogin(s) ==
  /\ Packet(s, "login")
  /\ Take(s, [At("check") EXCEPT !.name = Head(toServer[s]).name], Rest(s))

(* CheckAccount finds no such name and password.                           *)
Refuse(s) ==
  /\ handler[s].at = "check"
  /\ Go(s, At("done")) /\ UNCHANGED rows

LogIn(s) ==
  /\ handler[s].at = "check"
  /\ \E a \in DOMAIN accounts :
       /\ accounts[a].name = handler[s].name
       /\ \E v \in Listed(RowsOf(a)) : SetMyAccount(s, a, v)
  /\ handler' = [handler EXCEPT ![s] = At("welcome")]

CreateAccount(s) ==
  /\ Packet(s, "account")
  /\ Take(s, [At("exists") EXCEPT !.name = Head(toServer[s]).name], Rest(s))

(* MakeAccount: CheckAccount(playerId), then the INSERT.                   *)
CheckName(s) ==
  /\ handler[s].at = "exists"
  /\ Go(s, IF \E a \in DOMAIN accounts : accounts[a].name = handler[s].name
           THEN At("done") ELSE [handler[s] EXCEPT !.at = "insert"])
  /\ UNCHANGED rows

InsertAccount(s) ==
  /\ handler[s].at = "insert"
  /\ accounts' = Append(accounts, [name |-> handler[s].name, slots |-> 0])
  /\ Go(s, [handler[s] EXCEPT !.at = "adopt"])
  /\ UNCHANGED <<players, nextId>>

(* The new account's id is read back; its _players is not loaded.          *)
Adopt(s) ==
  /\ handler[s].at = "adopt"
  /\ \E a \in DOMAIN accounts :
       accounts[a].name = handler[s].name /\ SetMyAccount(s, a, <<>>)
  /\ handler' = [handler EXCEPT ![s] = At("done")]

LoadingCharacterList(s) ==
  /\ Packet(s, "list")
  /\ toServer' = [toServer EXCEPT ![s] = Rest(s)]
  /\ toClient' = [toClient EXCEPT ![s] =
                    Append(@, [op |-> "list", chars |-> loaded[s]])]
  /\ UNCHANGED <<rows, connections, handler, held, server, saver, up,
                 client, history>>

CreateCharacter(s) ==
  /\ Packet(s, "create")
  /\ nextId <= MaxCharacters /\ accounts[account[s]].slots < MaxCharacters
  /\ Take(s, At("count"), Rest(s))

(* Fault: UsingPlayerSlot is not advanced.                                 *)
CountSlotForgotten(s) ==
  handler[s].at = "count" /\ Go(s, At("insertPlayer")) /\ UNCHANGED rows

(* CreatePlayerDb: UsingPlayerSlot + 1, then the INSERT.                   *)
CountSlot(s) ==
  /\ handler[s].at = "count"
  /\ accounts' = [accounts EXCEPT ![account[s]].slots = @ + 1]
  /\ Go(s, At("insertPlayer")) /\ UNCHANGED <<players, nextId>>

(* Fault: slots are counted from one.                                      *)
InsertPlayerFromOne(s) ==
  /\ handler[s].at = "insertPlayer"
  /\ players' = players \cup {[id |-> nextId, owner |-> account[s],
                               slot |-> Len(loaded[s]) + 1]}
  /\ nextId' = nextId + 1
  /\ Go(s, At("reload")) /\ UNCHANGED accounts

InsertPlayer(s) ==
  /\ handler[s].at = "insertPlayer"
  /\ players' = players \cup {[id |-> nextId, owner |-> account[s],
                               slot |-> Len(loaded[s])]}
  /\ nextId' = nextId + 1
  /\ Go(s, At("reload")) /\ UNCHANGED accounts

(* _players[slot] of a vector that is shorter reads past its end.          *)
DeleteCharacter(s) ==
  /\ Packet(s, "delete")
  /\ LET r == Head(toServer[s]) IN
     IF r.slot + 1 \in DOMAIN loaded[s]
     THEN Take(s, [At("delete") EXCEPT !.id = loaded[s][r.slot + 1].id],
               Rest(s))
     ELSE Crash

(* DeletePlayerDb: the row, by its id, then UsingPlayerSlot - 1.           *)
DeletePlayer(s) ==
  /\ handler[s].at = "delete"
  /\ LET gone == {p \in players : p.id = handler[s].id} IN
     /\ players' = players \ gone
     /\ holed' = holed \cup {a \in DOMAIN accounts :
          \E p \in gone, q \in players :
            p.owner = a /\ q.owner = a /\ q.id > p.id}
  /\ handler' = [handler EXCEPT ![s] = At("uncount")]
  /\ UNCHANGED <<accounts, nextId, connections, held, server, saver, up,
                 toServer, toClient, client, shared>>

UncountSlot(s) ==
  /\ handler[s].at = "uncount"
  /\ accounts' = [accounts EXCEPT ![account[s]].slots = @ - 1]
  /\ Go(s, At("reload")) /\ UNCHANGED <<players, nextId>>

(* Fault: the answer lists what was loaded before.                         *)
ReloadForgotten(s) ==
  /\ handler[s].at = "reload"
  /\ handler' = [handler EXCEPT ![s] = At("list")]
  /\ UNCHANGED <<rows, connections, held, server, saver, up, toServer,
                 toClient, client, history>>

(* account->_players = db->LoadPlayerDb(account)                           *)
Reload(s) ==
  /\ handler[s].at = "reload"
  /\ \E v \in Listed(RowsOf(account[s])) :
       loaded' = [loaded EXCEPT ![s] = v]
  /\ handler' = [handler EXCEPT ![s] = At("list")]
  /\ UNCHANGED <<rows, connections, held, account, playing, saver, up,
                 toServer, toClient, client, history>>

(* Fault: the pointer is kept after Push.                                  *)
ReleaseAndKeep(s) ==
  /\ handler[s].at \in {"done", "welcome", "list"}
  /\ Push(held[s])
  /\ handler' = [handler EXCEPT ![s] = Idle]
  /\ toClient' = IF handler[s].at = "done" THEN toClient
                 ELSE [toClient EXCEPT ![s] =
                         Append(@, [op |-> handler[s].at, chars |-> loaded[s]])]
  /\ UNCHANGED <<rows, held, server, saver, up, toServer, client, history>>

(* The handler gives the connection back and answers.                      *)
Release(s) ==
  /\ handler[s].at \in {"done", "welcome", "list"}
  /\ Push(held[s]) /\ held' = [held EXCEPT ![s] = Null]
  /\ handler' = [handler EXCEPT ![s] = Idle]
  /\ toClient' = IF handler[s].at = "done" THEN toClient
                 ELSE [toClient EXCEPT ![s] =
                         Append(@, [op |-> handler[s].at, chars |-> loaded[s]])]
  /\ UNCHANGED <<rows, server, saver, up, toServer, client, history>>

-----------------------------------------------------------------------------
(* EnterPlayer: CreatePlayer, RefreshInven with its save, AddObject.       *)
EnterRoom(s) ==
  /\ Packet(s, "enter")
  /\ LET r == Head(toServer[s]) IN
     IF r.slot + 1 \in DOMAIN loaded[s]
     THEN Take(s, [At("enter") EXCEPT !.id = loaded[s][r.slot + 1].id],
               Rest(s))
     ELSE Crash

AddObject(s) ==
  /\ handler[s].at = "enter"
  /\ Push(held[s]) /\ held' = [held EXCEPT ![s] = Null]
  /\ playing' = [playing EXCEPT ![s] = handler[s].id]
  /\ handler' = [handler EXCEPT ![s] = Idle]
  /\ UNCHANGED <<rows, account, loaded, saver, up, toServer, toClient,
                 client, history>>

(* A packet of a player in the room: items, quests, kills, deaths, each    *)
(* saves something.                                                        *)
InRoom(s) == playing[s] # 0 /\ handler[s] = Idle

Save(s) == InRoom(s) /\ Take(s, At("done"), toServer[s])

(* AcceptQuest of a quest the player has: returns with the connection.     *)
RefuseQuest(s) ==
  /\ InRoom(s) /\ Pop
  /\ UNCHANGED <<rows, handler, held, server, saver, up, toServer, toClient,
                 client, history>>

(* OnDisconnected, between two handlers of the session: the player leaves  *)
(* the room, then is saved; then the session is gone with its account.     *)
LeaveRoom(s) ==
  /\ screen[s] = "lost" /\ InRoom(s)
  /\ playing' = [playing EXCEPT ![s] = 0]
  /\ handler' = [handler EXCEPT ![s] = At("left")]
  /\ UNCHANGED <<rows, connections, held, account, loaded, saver, up,
                 toServer, toClient, client, history>>

SaveLeaver(s) == handler[s].at = "left" /\ Take(s, At("done"), <<>>)

CloseSession(s) ==
  /\ screen[s] = "lost" /\ handler[s] = Idle /\ playing[s] = 0
  /\ screen' = [screen EXCEPT ![s] = "off"]
  /\ account' = [account EXCEPT ![s] = 0]
  /\ loaded' = [loaded EXCEPT ![s] = <<>>]
  /\ toServer' = [toServer EXCEPT ![s] = <<>>]
  /\ toClient' = [toClient EXCEPT ![s] = <<>>]
  /\ UNCHANGED <<rows, connections, handler, held, playing, saver, up,
                 infos, selected, history>>

-----------------------------------------------------------------------------
(* The main thread saves whoever is in the room: the connection is used    *)
(* only if there is somebody, and given back even if it is null.           *)
SaveAllPlayerDb ==
  /\ up /\ saver = NotSaving
  /\ saver' = Popped /\ Pop
  /\ UNCHANGED <<rows, handler, held, server, up, toServer, toClient,
                 client, history>>

SavePlayersWithout ==
  /\ saver = Null /\ \E s \in Sessions : playing[s] # 0
  /\ Crash

SaverDone ==
  /\ saver # NotSaving
  /\ Push(saver) /\ saver' = NotSaving
  /\ UNCHANGED <<rows, handler, held, server, up, toServer, toClient,
                 client, history>>

-----------------------------------------------------------------------------
(* The client.  What a player clicks is sent while the bound allows.       *)
CanSend(s) ==
  Len(toServer[s]) + Len(toClient[s])
    + (IF handler[s] = Idle THEN 0 ELSE 1) < MaxPending[screen[s]]

Closes(s, next) ==
  /\ screen' = [screen EXCEPT ![s] = next]
  /\ infos' = [infos EXCEPT ![s] = <<>>]
  /\ selected' = [selected EXCEPT ![s] = Unselected]

Send(s, r) ==
  /\ CanSend(s)
  /\ toServer' = [toServer EXCEPT ![s] = Append(@, r)]
  /\ UNCHANGED <<rows, connections, handler, held, server, saver, up,
                 toClient, history>>

Connect(s) ==
  /\ up /\ screen[s] = "off"
  /\ screen' = [screen EXCEPT ![s] = "title"]
  /\ UNCHANGED <<rows, connections, handler, held, server, saver, up,
                 toServer, toClient, infos, selected, history>>

(* TryConnectToLogin, TryCreateAccount                                     *)
ClickTitle(s) ==
  /\ screen[s] = "title"
  /\ \E o \in {"login", "account"}, n \in Names :
       Send(s, [Request(o) EXCEPT !.name = n])
  /\ UNCHANGED client

ClickCreate(s) ==
  screen[s] = "lobby" /\ Send(s, Request("create")) /\ UNCHANGED client

(* SetSelectedSlot, SpawnSlotCharacter: the latter looks the slot up in    *)
(* the list; a slot past its end ends the client, which Leave covers.      *)
ClickSlot(s) ==
  /\ screen[s] = "lobby"
  /\ \E i \in DOMAIN infos[s] :
       LET slot == infos[s][i].slot IN
       /\ slot # selected[s] /\ slot + 1 \in DOMAIN infos[s]
       /\ selected' = [selected EXCEPT ![s] = slot]
  /\ UNCHANGED <<rows, connections, handler, held, server, saver, up,
                 toServer, toClient, screen, infos, history>>

ClickDelete(s) ==
  /\ screen[s] = "lobby" /\ selected[s] + 1 \in DOMAIN infos[s]
  /\ Send(s, [Request("delete") EXCEPT
                !.slot = infos[s][selected[s] + 1].slot])
  /\ UNCHANGED client

(* SelectCharacter: the lobby closes with its widgets.                     *)
ClickEnter(s) ==
  /\ screen[s] = "lobby"
  /\ \E i \in DOMAIN infos[s] :
       Send(s, [Request("enter") EXCEPT !.slot = infos[s][i].slot])
  /\ Closes(s, "game")

(* A packet is handled on the client's game thread.                        *)
Arrives(s, op) ==
  /\ toClient[s] # <<>> /\ Head(toClient[s]).op = op
  /\ toClient' = [toClient EXCEPT ![s] = Tail(@)]
  /\ UNCHANGED <<rows, connections, handler, held, server, saver, up, history>>

(* The lobby asks for the list as it opens.                                *)
SuccessLogin(s) ==
  /\ Arrives(s, "welcome")
  /\ screen' = IF screen[s] = "title" THEN [screen EXCEPT ![s] = "lobby"]
               ELSE screen
  /\ toServer' = IF screen[s] = "title"
                 THEN [toServer EXCEPT ![s] = Append(@, Request("list"))]
                 ELSE toServer
  /\ UNCHANGED <<infos, selected>>

CharacterList(s) ==
  /\ Arrives(s, "list")
  /\ infos' = IF screen[s] = "lobby"
              THEN [infos EXCEPT ![s] = Head(toClient[s]).chars] ELSE infos
  /\ UNCHANGED <<toServer, screen, selected>>

(* The client ends, or its connection does; what it sent may still arrive. *)
Leave(s) ==
  /\ screen[s] \notin {"off", "lost"}
  /\ Closes(s, "lost")
  /\ toClient' = [toClient EXCEPT ![s] = <<>>]
  /\ UNCHANGED <<rows, connections, handler, held, server, saver, up,
                 toServer, history>>

-----------------------------------------------------------------------------
Handler(s) ==
  \/ TryLogin(s) \/ Refuse(s) \/ LogIn(s)
  \/ CreateAccount(s) \/ CheckName(s) \/ InsertAccount(s) \/ Adopt(s)
  \/ LoadingCharacterList(s)
  \/ CreateCharacter(s) \/ CountSlot(s) \/ InsertPlayer(s)
  \/ DeleteCharacter(s) \/ DeletePlayer(s) \/ UncountSlot(s)
  \/ Reload(s) \/ Release(s)
  \/ EnterRoom(s) \/ AddObject(s) \/ Save(s) \/ RefuseQuest(s)
  \/ LeaveRoom(s) \/ SaveLeaver(s) \/ CloseSession(s)

Client(s) ==
  \/ Connect(s) \/ ClickTitle(s) \/ ClickCreate(s) \/ ClickSlot(s)
  \/ ClickDelete(s) \/ ClickEnter(s)
  \/ SuccessLogin(s) \/ CharacterList(s) \/ Leave(s)

AutoSave == SaveAllPlayerDb \/ SavePlayersWithout \/ SaverDone

Next == (\E s \in Sessions : Handler(s) \/ Client(s)) \/ AutoSave \/ Restart

Spec == Init /\ [][Next]_vars

-----------------------------------------------------------------------------
Character == [id : Nat \ {0}, owner : Nat \ {0}, slot : Nat]
AtWork == {"check", "exists", "insert", "adopt", "count", "insertPlayer",
           "delete", "uncount", "reload", "enter", "done", "welcome", "list"}
OfAccount == {"count", "insertPlayer", "delete", "uncount", "reload", "enter",
              "welcome", "list"}
Requests == [op : {"login", "account", "list", "create", "delete", "enter"},
             name : Names \cup {None}, slot : Nat]
Answers == [op : {"welcome", "list"}, chars : Seq(Character)]

(* Types; a handler has a connection just while it works on the database,  *)
(* and an account whenever it works on one.                                *)
TypeOK ==
  /\ accounts \in Seq([name : Names, slots : Int])
  /\ players \subseteq Character /\ nextId \in Nat \ {0}
  /\ connections \in Seq(Connections \cup {Null})
  /\ handler \in [Sessions -> [at : {"idle", "left"} \cup AtWork,
                              name : Names \cup {None}, id : Nat]]
  /\ held \in [Sessions -> Connections \cup {Null}]
  /\ account \in [Sessions -> {0} \cup DOMAIN accounts]
  /\ loaded \in [Sessions -> Seq(Character)]
  /\ playing \in [Sessions -> Nat]
  /\ saver \in {NotSaving, Null} \cup Connections /\ up \in BOOLEAN
  /\ toServer \in [Sessions -> Seq(Requests)]
  /\ toClient \in [Sessions -> Seq(Answers)]
  /\ screen \in [Sessions -> {"off", "title", "lobby", "game", "lost"}]
  /\ infos \in [Sessions -> Seq(Character)] /\ selected \in [Sessions -> Nat]
  /\ \A s \in Sessions :
       /\ held[s] # Null <=> handler[s].at \in AtWork
       /\ handler[s].at \in {"exists", "insert"} => handler[s].name \in Names
       /\ handler[s].at \in OfAccount => account[s] # 0

(* A session that is alone in its account works on the account's rows: its *)
(* list, whose positions the client names, is what the database holds.     *)
CopyCurrent ==
  \A s \in Sessions :
    handler[s] = Idle /\ account[s] # 0 /\ account[s] \notin shared =>
      loaded[s] \in Listed(RowsOf(account[s]))

(* UsingPlayerSlot never falls below the number of characters, although    *)
(* the two are written one after the other and the server may end between. *)
CountCoversRows ==
  \A a \in DOMAIN accounts :
    a \notin shared => accounts[a].slots >= Cardinality(RowsOf(a))

(* A client that has seen the answer to all it asked names the right       *)
(* character: the slot that it would send for an element of its list is    *)
(* the index of that character at the server.  So in an account that was   *)
(* never open twice and never lost a character but its last.               *)
SlotIsIndex ==
  \A s \in Sessions :
    /\ screen[s] = "lobby" /\ account[s] \notin shared \cup holed
    /\ toServer[s] = <<>> /\ toClient[s] = <<>> /\ handler[s] = Idle
    => \A i \in DOMAIN infos[s] :
         LET index == infos[s][i].slot + 1 IN
         index \in DOMAIN loaded[s] /\ loaded[s][index] = infos[s][i]

-----------------------------------------------------------------------------
(* What makes the types and StoreSpec inductive.  Before it has logged in  *)
(* a session is asked for nothing else.                                    *)
LoggedIn ==
  \A s \in Sessions :
    /\ \A i \in DOMAIN toServer[s] :
         toServer[s][i].op = "account" => toServer[s][i].name \in Names
    /\ account[s] = 0 =>
         /\ screen[s] \in {"off", "title", "lost"}
         /\ loaded[s] = <<>> /\ toClient[s] = <<>>
         /\ \A i \in DOMAIN toServer[s] : toServer[s][i].op \in {"login", "account"}

(* A connection is in one place: nobody uses what somebody else uses.      *)
Pooled(c) == \E i \in DOMAIN connections : connections[i] = c
ConnectionsApart ==
  /\ \A c \in Connections :
       /\ \A s, t \in Sessions : held[s] = c /\ held[t] = c => s = t
       /\ \A s \in Sessions : held[s] = c => saver # c /\ ~Pooled(c)
       /\ saver = c => ~Pooled(c)
       /\ \A i, j \in DOMAIN connections :
            connections[i] = c /\ connections[j] = c => i = j
  /\ ~up => /\ saver = NotSaving
            /\ \A s \in Sessions : handler[s] = Idle /\ playing[s] = 0

(* The name that MakeAccount inserts is still not in the table.            *)
NameIsFree ==
  \A s \in Sessions : handler[s].at = "insert" =>
    \A a \in DOMAIN accounts : accounts[a].name # handler[s].name

(* Ids are given once, and what a session deletes is its account's.        *)
RowsOwned ==
  /\ IsFiniteSet(players)
  /\ \A p \in players : p.id < nextId
  /\ \A p, q \in players : p.id = q.id => p = q
  /\ \A s \in Sessions : \A i \in DOMAIN loaded[s] :
       /\ loaded[s][i].id < nextId
       /\ \A p \in players : p.id = loaded[s][i].id => p.owner = account[s]
  /\ \A s \in Sessions : handler[s].at = "delete" =>
       /\ handler[s].id < nextId
       /\ \A p \in players : p.id = handler[s].id => p.owner = account[s]

TInv == TypeOK /\ LoggedIn /\ RowsOwned /\ ConnectionsApart
IInv == TInv /\ NameIsFree

(* The account service keeps the promise of CharacterStore: names are      *)
(* given once although MakeAccount looks first and inserts later, and rows *)
(* come and go only by sessions of their account.                          *)
Store == INSTANCE CharacterStore WITH
  given <- [a \in DOMAIN accounts |-> accounts[a].name],
  characters <- {[id |-> p.id, owner |-> p.owner] : p \in players},
  as <- account
StoreSpec == Store!Spec
=============================================================================
