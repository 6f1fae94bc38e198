---------------------------- MODULE AccountsProofs ----------------------------
(***************************************************************************)
(* Proof of the types of Accounts for any sessions, names, bounds and any  *)
(* number of connections, and that with the one connection of main() it    *)
(* implements CharacterStore.                                              *)
(***************************************************************************)
EXTENDS Accounts, FiniteSetTheorems, SequenceTheorems, TLAPS

USE PoolAssumption DEF Null, NotSaving

-----------------------------------------------------------------------------
(* The pool.                                                               *)

(* Pop returns the last connection, or null of an empty pool.              *)
LEMMA PoppedIs ==
  ASSUME connections \in Seq(Connections \cup {Null})
  PROVE /\ Popped \in Connections \cup {Null}
        /\ Popped # Null => connections # <<>> /\ Popped = connections[Len(connections)]
BY DEF Popped, Last

(* What Pop leaves: the pool without its last element.                     *)
LEMMA PopLeaves ==
  ASSUME connections \in Seq(Connections \cup {Null}), Pop
  PROVE /\ connections' \in Seq(Connections \cup {Null})
        /\ \A i \in DOMAIN connections' :
             /\ i \in DOMAIN connections /\ connections'[i] = connections[i]
             /\ i # Len(connections)
<1>1. CASE connections = <<>>
  <2>1. connections' = <<>>
    BY <1>1 DEF Pop
  <2> QED BY <1>1, <2>1
<1>2. CASE connections # <<>>
  <2>1. connections' = SubSeq(connections, 1, Len(connections) - 1)
    BY <1>2 DEF Pop, Front
  <2>2. Len(connections) \in Nat \ {0}
    BY <1>2
  <2>3. \A i \in 1..(Len(connections) - 1) : connections[i] \in Connections \cup {Null}
    OBVIOUS
  <2> QED BY <2>1, <2>2, <2>3, SubSeqProperties
<1> QED BY <1>1, <1>2

(* Push appends.                                                           *)
LEMMA PushLeaves ==
  ASSUME connections \in Seq(Connections \cup {Null}),
         NEW db \in Connections \cup {Null}, Push(db)
  PROVE /\ connections' \in Seq(Connections \cup {Null})
        /\ \A i \in DOMAIN connections' :
             \/ i \in DOMAIN connections /\ connections'[i] = connections[i]
             \/ i = Len(connections) + 1 /\ connections'[i] = db
BY DEF Push

(* The lists of rows LoadPlayerDb may return.                              *)
LEMMA ListedIs ==
  ASSUME RowsOwned, TypeOK, NEW a, NEW v \in Listed(RowsOf(a))
  PROVE /\ v \in Seq(Character)
        /\ \A i \in DOMAIN v : v[i] \in players /\ v[i].owner = a
<1>1. RowsOf(a) \subseteq players /\ IsFiniteSet(RowsOf(a))
  BY FS_Subset DEF RowsOf, RowsOwned
<1>2. Cardinality(RowsOf(a)) \in Nat
  BY <1>1, FS_CardinalityType
<1>3. v \in [1..Cardinality(RowsOf(a)) -> RowsOf(a)]
  BY DEF Listed
<1>4. RowsOf(a) \subseteq Character
  BY <1>1 DEF TypeOK
<1>5. \A i \in DOMAIN v : v[i] \in RowsOf(a)
  BY <1>3
<1>6. v \in Seq(Character)
  BY <1>2, <1>3, <1>4
<1> QED BY <1>5, <1>6 DEF RowsOf

-----------------------------------------------------------------------------
(* The types.                                                              *)

(* The initial state.                                                      *)
LEMMA InitTypes == Init => TypeOK /\ LoggedIn /\ RowsOwned /\ NameIsFree
<1> SUFFICES ASSUME Init PROVE TypeOK /\ LoggedIn /\ RowsOwned /\ NameIsFree
  OBVIOUS
<1>1. TypeOK
  <2>1. /\ <<>> \in Seq([name : Names, slots : Int]) /\ <<>> \in Seq(Character)
        /\ <<>> \in Seq(Requests) /\ <<>> \in Seq(Answers)
    BY EmptySeq
  <2>2. connections \in Seq(Connections \cup {Null})
    BY DEF Init, Connected, Connections
  <2>3. handler \in [Sessions -> [at : {"idle", "left"} \cup AtWork,
                                 name : Names \cup {None}, id : Nat]]
    BY DEF Init, Idle
  <2>4. \A s \in Sessions : held[s] = Null /\ handler[s].at = "idle"
    BY DEF Init, Idle
  <2>5. /\ held \in [Sessions -> Connections \cup {Null}]
        /\ account \in [Sessions -> {0} \cup DOMAIN accounts]
        /\ playing \in [Sessions -> Nat] /\ selected \in [Sessions -> Nat]
    BY DEF Init, Unselected
  <2>6. /\ loaded \in [Sessions -> Seq(Character)]
        /\ infos \in [Sessions -> Seq(Character)]
        /\ toServer \in [Sessions -> Seq(Requests)]
        /\ toClient \in [Sessions -> Seq(Answers)]
        /\ screen \in [Sessions -> {"off", "title", "lobby", "game", "lost"}]
    BY <2>1 DEF Init
  <2>7. /\ accounts \in Seq([name : Names, slots : Int])
        /\ players \subseteq Character /\ nextId \in Nat \ {0}
        /\ saver \in {NotSaving, Null} \cup Connections /\ up \in BOOLEAN
    BY <2>1 DEF Init
  <2> QED BY <2>2, <2>3, <2>4, <2>5, <2>6, <2>7 DEF TypeOK, AtWork, OfAccount
<1>2. LoggedIn
  BY DEF Init, LoggedIn
<1>3. RowsOwned
  BY FS_EmptySet DEF Init, RowsOwned, Idle
<1>4. NameIsFree
  BY DEF Init, NameIsFree, Idle
<1> QED BY <1>1, <1>2, <1>3, <1>4

(* When the process ends, everything but the rows is as it was initially.  *)
LEMMA CrashTypes ==
  ASSUME TypeOK, Crash
  PROVE TypeOK' /\ LoggedIn'
<1>1. /\ <<>> \in Seq(Character) /\ <<>> \in Seq(Requests) /\ <<>> \in Seq(Answers)
      /\ <<>> \in Seq(Connections \cup {Null})
  BY EmptySeq
<1>2. /\ handler' \in [Sessions -> [at : {"idle", "left"} \cup AtWork,
                               name : Names \cup {None}, id : Nat]]
      /\ \A s \in Sessions : handler'[s].at = "idle"
  BY DEF Crash, Idle
<1>3. /\ held' \in [Sessions -> Connections \cup {Null}]
      /\ \A s \in Sessions : held'[s] = Null
      /\ account' \in [Sessions -> {0} \cup DOMAIN accounts']
      /\ playing' \in [Sessions -> Nat] /\ selected' \in [Sessions -> Nat]
  BY DEF Crash, Unselected
<1>4. /\ loaded' \in [Sessions -> Seq(Character)]
      /\ infos' \in [Sessions -> Seq(Character)]
      /\ toServer' \in [Sessions -> Seq(Requests)]
      /\ toClient' \in [Sessions -> Seq(Answers)]
      /\ screen' \in [Sessions -> {"off", "title", "lobby", "game", "lost"}]
  BY <1>1 DEF Crash
<1>5. /\ saver' = NotSaving /\ up' \in BOOLEAN /\ connections' = <<>>
      /\ accounts' = accounts /\ players' = players /\ nextId' = nextId
  BY DEF Crash, rows
<1>6. TypeOK'
  BY <1>1, <1>2, <1>3, <1>4, <1>5 DEF TypeOK, AtWork, OfAccount
<1>7. LoggedIn'
  BY DEF Crash, LoggedIn
<1> QED BY <1>6, <1>7

(* The packets of a session after its first.                               *)
LEMMA RestIs ==
  ASSUME TypeOK, NEW s \in Sessions, toServer[s] # <<>>
  PROVE /\ Head(toServer[s]) \in Requests /\ 1 \in DOMAIN toServer[s]
        /\ Head(toServer[s]) = toServer[s][1]
        /\ Rest(s) \in Seq(Requests)
        /\ \A i \in DOMAIN Rest(s) : \E j \in DOMAIN toServer[s] : Rest(s)[i] = toServer[s][j]
<1>1. toServer[s] \in Seq(Requests)
  BY DEF TypeOK
<1>2. \A i \in 1..Len(Rest(s)) : Rest(s)[i] = toServer[s][i + 1] /\ i + 1 \in DOMAIN toServer[s]
  BY <1>1, HeadTailProperties DEF Rest
<1> QED BY <1>1, <1>2, HeadTailProperties DEF Rest

HandlerStates == [at : {"idle", "left"} \cup AtWork, name : Names \cup {None}, id : Nat]

(* A handler may go on as h.                                               *)
MayBecome(s, h) ==
  /\ h \in HandlerStates /\ h.at \in AtWork
  /\ h.at \in {"exists", "insert"} => h.name \in Names
  /\ h.at \in OfAccount => account[s] # 0

LEMMA TakeTypes ==
  ASSUME TypeOK, LoggedIn, NEW s \in Sessions, NEW h, MayBecome(s, h),
         NEW rest \in Seq(Requests),
         \A i \in DOMAIN rest : \E j \in DOMAIN toServer[s] : rest[i] = toServer[s][j],
         Take(s, h, rest)
  PROVE TypeOK' /\ LoggedIn'
<1>1. CASE Popped = Null
  BY <1>1, CrashTypes DEF Take
<1>2. CASE Popped # Null
  <2>1. /\ Pop /\ held' = [held EXCEPT ![s] = Popped]
        /\ handler' = [handler EXCEPT ![s] = h]
        /\ toServer' = [toServer EXCEPT ![s] = rest]
        /\ UNCHANGED <<rows, server, saver, up, toClient, client>>
    BY <1>2 DEF Take
  <2>2. Popped \in Connections /\ connections' \in Seq(Connections \cup {Null})
    BY <1>2, <2>1, PoppedIs, PopLeaves DEF TypeOK
  <2>3. /\ handler' \in [Sessions -> HandlerStates]
        /\ held' \in [Sessions -> Connections \cup {Null}]
        /\ toServer' \in [Sessions -> Seq(Requests)]
    BY <2>1, <2>2 DEF TypeOK, MayBecome, HandlerStates
  <2>4. \A t \in Sessions :
          /\ held'[t] # Null <=> handler'[t].at \in AtWork
          /\ handler'[t].at \in {"exists", "insert"} => handler'[t].name \in Names
          /\ handler'[t].at \in OfAccount => account[t] # 0
    BY <1>2, <2>1 DEF TypeOK, MayBecome
  <2>5. TypeOK'
    BY <2>1, <2>2, <2>3, <2>4 DEF TypeOK, rows, server, client, HandlerStates
  <2>6. LoggedIn'
    <3>1. \A t \in Sessions : \A i \in DOMAIN toServer'[t] :
            \E j \in DOMAIN toServer[t] : toServer'[t][i] = toServer[t][j]
      BY <2>1 DEF TypeOK
    <3>2. UNCHANGED <<account, screen, loaded, toClient>>
      BY <2>1 DEF server, client
    <3> QED BY <3>1, <3>2 DEF LoggedIn
  <2> QED BY <2>5, <2>6
<1> QED BY <1>1, <1>2

LEMMA GoTypes ==
  ASSUME TypeOK, LoggedIn, NEW s \in Sessions, NEW h, MayBecome(s, h),
         handler[s].at \in AtWork, Go(s, h),
         accounts' \in Seq([name : Names, slots : Int]),
         DOMAIN accounts \subseteq DOMAIN accounts',
         players' \subseteq Character, nextId' \in Nat \ {0}
  PROVE TypeOK' /\ LoggedIn'
<1>1. /\ handler' = [handler EXCEPT ![s] = h]
      /\ UNCHANGED <<connections, held, server, saver, up, toServer, toClient, client>>
  BY DEF Go
<1>2. handler' \in [Sessions -> HandlerStates]
  BY <1>1 DEF TypeOK, MayBecome, HandlerStates
<1>3. \A t \in Sessions :
        /\ held'[t] # Null <=> handler'[t].at \in AtWork
        /\ handler'[t].at \in {"exists", "insert"} => handler'[t].name \in Names
        /\ handler'[t].at \in OfAccount => account'[t] # 0
  BY <1>1 DEF TypeOK, MayBecome, server
<1>4. TypeOK'
  BY <1>1, <1>2, <1>3 DEF TypeOK, server, client, HandlerStates
<1>5. LoggedIn'
  BY <1>1 DEF LoggedIn, server, client
<1> QED BY <1>4, <1>5

LEMMA SetMyAccountTypes ==
  ASSUME TypeOK, LoggedIn, NEW s \in Sessions, handler[s].at \in AtWork,
         NEW a \in DOMAIN accounts, NEW v \in Seq(Character),
         SetMyAccount(s, a, v), NEW h \in {"welcome", "done"},
         handler' = [handler EXCEPT ![s] = At(h)]
  PROVE TypeOK' /\ LoggedIn'
<1>1. /\ account' = [account EXCEPT ![s] = a] /\ loaded' = [loaded EXCEPT ![s] = v]
      /\ UNCHANGED <<rows, connections, held, playing, saver, up, toServer, toClient, client>>
  BY DEF SetMyAccount
<1>2. At(h) \in HandlerStates /\ At(h).at = h /\ h \in AtWork
  BY DEF At, Idle, HandlerStates, AtWork
<1>3. a # 0
  BY DEF TypeOK
<1>4. handler' \in [Sessions -> HandlerStates]
  BY <1>2 DEF TypeOK, HandlerStates
<1>5. \A t \in Sessions :
        /\ held'[t] # Null <=> handler'[t].at \in AtWork
        /\ handler'[t].at \in {"exists", "insert"} => handler'[t].name \in Names
        /\ handler'[t].at \in OfAccount => account'[t] # 0
  BY <1>1, <1>2, <1>3 DEF TypeOK
<1>6. TypeOK'
  BY <1>1, <1>4, <1>5 DEF TypeOK, rows, client, HandlerStates
<1>7. LoggedIn'
  BY <1>1, <1>3 DEF LoggedIn, client, TypeOK
<1> QED BY <1>6, <1>7

(* A handler that takes its packet, or what it needs to go on, keeps the   *)
(* types.                                                                  *)
LEMMA TakersTypes ==
  ASSUME TypeOK, LoggedIn, NEW s \in Sessions,
         \/ TryLogin(s) \/ CreateAccount(s) \/ CreateCharacter(s)
         \/ DeleteCharacter(s) \/ EnterRoom(s) \/ Save(s) \/ SaveLeaver(s)
  PROVE TypeOK' /\ LoggedIn'
<1>1. CASE TryLogin(s)
  <2> DEFINE h == [At("check") EXCEPT !.name = Head(toServer[s]).name]
  <2>1. toServer[s] # <<>> /\ Take(s, h, Rest(s))
    BY <1>1 DEF TryLogin, Packet
  <2>2. MayBecome(s, h)
    BY <2>1, RestIs DEF MayBecome, At, Idle, HandlerStates, AtWork, OfAccount, Requests
  <2> HIDE DEF h
  <2> QED BY <2>1, <2>2, RestIs, TakeTypes
<1>2. CASE CreateAccount(s)
  <2> DEFINE h == [At("exists") EXCEPT !.name = Head(toServer[s]).name]
  <2>1. /\ toServer[s] # <<>> /\ Head(toServer[s]).op = "account"
        /\ Take(s, h, Rest(s))
    BY <1>2 DEF CreateAccount, Packet
  <2>2. Head(toServer[s]).name \in Names
    BY <2>1, RestIs DEF LoggedIn
  <2>3. MayBecome(s, h)
    BY <2>2 DEF MayBecome, At, Idle, HandlerStates, AtWork, OfAccount
  <2> HIDE DEF h
  <2> QED BY <2>1, <2>3, RestIs, TakeTypes
<1>3. CASE CreateCharacter(s)
  <2> DEFINE h == At("count")
  <2>1. /\ toServer[s] # <<>> /\ Head(toServer[s]).op = "create"
        /\ Take(s, h, Rest(s))
    BY <1>3 DEF CreateCharacter, Packet
  <2>2. account[s] # 0
    BY <2>1, RestIs DEF LoggedIn
  <2>3. MayBecome(s, h)
    BY <2>2 DEF MayBecome, At, Idle, HandlerStates, AtWork, OfAccount
  <2> HIDE DEF h
  <2> QED BY <2>1, <2>3, RestIs, TakeTypes
<1>4. ASSUME NEW o \in {"delete", "enter"}, Packet(s, o),
             Crash \/ \E i \in DOMAIN loaded[s] :
                        Take(s, [At(o) EXCEPT !.id = loaded[s][i].id], Rest(s))
      PROVE TypeOK' /\ LoggedIn'
  <2>1. CASE Crash
    BY <2>1, CrashTypes
  <2>2. ASSUME NEW i \in DOMAIN loaded[s],
               Take(s, [At(o) EXCEPT !.id = loaded[s][i].id], Rest(s))
        PROVE TypeOK' /\ LoggedIn'
    <3> DEFINE h == [At(o) EXCEPT !.id = loaded[s][i].id]
    <3>1. toServer[s] # <<>>
      BY <1>4 DEF Packet
    <3>2. loaded[s][i].id \in Nat
      <4>1. loaded[s][i] \in Character
        BY DEF TypeOK
      <4> QED BY <4>1 DEF Character
    <3>5. account[s] # 0
      <4>1. loaded[s] # <<>>
        BY DEF TypeOK
      <4> QED BY <4>1 DEF LoggedIn
    <3>3. MayBecome(s, h)
      BY <3>2, <3>5 DEF MayBecome, At, Idle, HandlerStates, AtWork, OfAccount
    <3>4. Take(s, h, Rest(s))
      BY <2>2
    <3> HIDE DEF h
    <3> QED BY <3>1, <3>3, <3>4, RestIs, TakeTypes
  <2> QED BY <1>4, <2>1, <2>2
<1>5. CASE DeleteCharacter(s)
  BY <1>4, <1>5 DEF DeleteCharacter
<1>6. CASE EnterRoom(s)
  BY <1>4, <1>6 DEF EnterRoom
<1>7. MayBecome(s, At("done"))
  BY DEF MayBecome, At, Idle, HandlerStates, AtWork, OfAccount
<1>8. CASE Save(s)
  <2>1. Take(s, At("done"), toServer[s]) /\ toServer[s] \in Seq(Requests)
    BY <1>8 DEF Save, TypeOK
  <2> QED BY <1>7, <2>1, TakeTypes
<1>9. CASE SaveLeaver(s)
  <2>1. Take(s, At("done"), <<>>) /\ <<>> \in Seq(Requests) /\ DOMAIN <<>> = {}
    BY <1>9, EmptySeq DEF SaveLeaver
  <2> QED BY <1>7, <2>1, TakeTypes
<1> QED BY <1>1, <1>2, <1>3, <1>5, <1>6, <1>8, <1>9

(* A statement that changes rows, or none, keeps the types.                *)
LEMMA StatementsTypes ==
  ASSUME TypeOK, LoggedIn, NEW s \in Sessions,
         \/ Refuse(s) \/ CheckName(s) \/ InsertAccount(s)
         \/ CountSlot(s) \/ InsertPlayer(s) \/ UncountSlot(s)
  PROVE TypeOK' /\ LoggedIn'
<1> USE DEF MayBecome, At, Idle, HandlerStates, AtWork, OfAccount
<1>0. /\ accounts \in Seq([name : Names, slots : Int]) /\ players \subseteq Character
      /\ nextId \in Nat \ {0} /\ handler[s] \in HandlerStates
  BY DEF TypeOK
<1>1. CASE Refuse(s)
  <2>1. Go(s, At("done")) /\ UNCHANGED rows /\ MayBecome(s, At("done"))
    BY <1>1 DEF Refuse
  <2> QED BY <1>0, <1>1, <2>1, GoTypes DEF Refuse, rows
<1>2. CASE CheckName(s)
  <2>1. /\ UNCHANGED rows /\ handler[s].at = "exists" /\ handler[s].name \in Names
        /\ Go(s, At("done")) \/ Go(s, [handler[s] EXCEPT !.at = "insert"])
    BY <1>2 DEF CheckName, TypeOK
  <2>2. MayBecome(s, At("done")) /\ MayBecome(s, [handler[s] EXCEPT !.at = "insert"])
    BY <1>0, <2>1
  <2>3. CASE Go(s, At("done"))
    BY <1>0, <2>1, <2>2, <2>3, GoTypes DEF rows
  <2>4. CASE Go(s, [handler[s] EXCEPT !.at = "insert"])
    BY <1>0, <2>1, <2>2, <2>4, GoTypes DEF rows
  <2> QED BY <2>1, <2>3, <2>4
<1>3. CASE InsertAccount(s)
  <2> DEFINE h == [handler[s] EXCEPT !.at = "adopt"]
             r == [name |-> handler[s].name, slots |-> 0]
  <2>1. /\ handler[s].at = "insert" /\ accounts' = Append(accounts, r)
        /\ Go(s, h) /\ UNCHANGED <<players, nextId>>
    BY <1>3 DEF InsertAccount
  <2>2. r \in [name : Names, slots : Int]
    BY <2>1 DEF TypeOK
  <2>3. MayBecome(s, h)
    BY <1>0
  <2> HIDE DEF h, r
  <2>4. accounts' \in Seq([name : Names, slots : Int]) /\ DOMAIN accounts \subseteq DOMAIN accounts'
    BY <1>0, <2>1, <2>2
  <2> QED BY <1>0, <2>1, <2>3, <2>4, GoTypes
<1>4. ASSUME NEW h \in {"insertPlayer", "reload"}, NEW d \in {1, -1},
             accounts' = [accounts EXCEPT ![account[s]].slots = @ + d],
             handler[s].at \in OfAccount, Go(s, At(h)), UNCHANGED <<players, nextId>>
      PROVE TypeOK' /\ LoggedIn'
  <2>1. account[s] \in DOMAIN accounts
    BY <1>4 DEF TypeOK
  <2>2. accounts' \in Seq([name : Names, slots : Int]) /\ DOMAIN accounts = DOMAIN accounts'
    <3> DEFINE r == [accounts[account[s]] EXCEPT !.slots = @ + d]
    <3>1. accounts[account[s]] \in [name : Names, slots : Int]
      <4>1. account[s] \in 1..Len(accounts)
        BY <1>0, <2>1
      <4> QED BY <1>0, <4>1, ElementOfSeq
    <3>2. r \in [name : Names, slots : Int]
      BY <3>1
    <3>3. accounts' = [accounts EXCEPT ![account[s]] = r]
      BY <1>4
    <3> HIDE DEF r
    <3> QED BY <1>0, <2>1, <3>2, <3>3, ExceptSeq
  <2>3. MayBecome(s, At(h))
    BY <1>4 DEF TypeOK
  <2> QED BY <1>0, <1>4, <2>2, <2>3, GoTypes
<1>5. CASE CountSlot(s)
  BY <1>4, <1>5 DEF CountSlot
<1>6. CASE UncountSlot(s)
  <2>1. accounts' = [accounts EXCEPT ![account[s]].slots = @ + (-1)]
    BY <1>6, <1>0 DEF UncountSlot, TypeOK
  <2> QED BY <1>4, <1>6, <2>1 DEF UncountSlot
<1>7. CASE InsertPlayer(s)
  <2>1. [id |-> nextId, owner |-> account[s], slot |-> Len(loaded[s])] \in Character
    BY <1>7 DEF InsertPlayer, TypeOK, Character
  <2>2. players' \subseteq Character /\ nextId' \in Nat \ {0} /\ accounts' = accounts
    BY <1>0, <1>7, <2>1 DEF InsertPlayer
  <2>3. MayBecome(s, At("reload")) /\ Go(s, At("reload"))
    BY <1>7 DEF InsertPlayer, TypeOK
  <2> QED BY <1>0, <1>7, <2>2, <2>3, GoTypes DEF InsertPlayer
<1> QED BY <1>1, <1>2, <1>3, <1>5, <1>6, <1>7

(* The other steps of handlers keep the types.                             *)
LEMMA HandlersTypes ==
  ASSUME TypeOK, LoggedIn, RowsOwned, NEW s \in Sessions,
         \/ LogIn(s) \/ Adopt(s) \/ LoadingCharacterList(s) \/ DeletePlayer(s)
         \/ Reload(s) \/ Release(s) \/ AddObject(s) \/ RefuseQuest(s)
         \/ LeaveRoom(s) \/ CloseSession(s)
  PROVE TypeOK' /\ LoggedIn'
<1>1. CASE LogIn(s)
  <2>1. PICK a \in DOMAIN accounts :
          \E v \in Listed(RowsOf(a)) : SetMyAccount(s, a, v)
    BY <1>1, Zenon DEF LogIn
  <2>3. PICK v \in Listed(RowsOf(a)) : SetMyAccount(s, a, v)
    BY <2>1
  <2>2. handler[s].at \in AtWork /\ handler' = [handler EXCEPT ![s] = At("welcome")]
    BY <1>1 DEF LogIn, AtWork
  <2> QED BY <2>2, <2>3, ListedIs, SetMyAccountTypes
<1>2. CASE Adopt(s)
  <2>1. PICK a \in DOMAIN accounts : SetMyAccount(s, a, <<>>)
    BY <1>2, Zenon DEF Adopt
  <2>2. handler[s].at \in AtWork /\ handler' = [handler EXCEPT ![s] = At("done")]
    BY <1>2 DEF Adopt, AtWork
  <2> QED BY <2>1, <2>2, EmptySeq, SetMyAccountTypes
<1>3. CASE LoadingCharacterList(s)
  <2> DEFINE m == [op |-> "list", chars |-> loaded[s]]
  <2>1. /\ toServer[s] # <<>> /\ Head(toServer[s]).op = "list"
        /\ toServer' = [toServer EXCEPT ![s] = Rest(s)]
        /\ toClient' = [toClient EXCEPT ![s] = Append(@, m)]
        /\ UNCHANGED <<rows, connections, handler, held, server, saver, up, client>>
    BY <1>3 DEF LoadingCharacterList, Packet
  <2>2. m \in Answers
    BY DEF TypeOK, Answers
  <2> HIDE DEF m
  <2>3. account[s] # 0
    BY <2>1, RestIs DEF LoggedIn
  <2>4. toClient' \in [Sessions -> Seq(Answers)] /\ toServer' \in [Sessions -> Seq(Requests)]
    BY <2>1, <2>2, RestIs DEF TypeOK
  <2>5. TypeOK'
    BY <2>1, <2>4 DEF TypeOK, rows, server, client
  <2>6. \A t \in Sessions : \A i \in DOMAIN toServer'[t] :
          \E j \in DOMAIN toServer[t] : toServer'[t][i] = toServer[t][j]
    <3>1. \A i \in DOMAIN Rest(s) : \E j \in DOMAIN toServer[s] : Rest(s)[i] = toServer[s][j]
      BY <2>1, RestIs
    <3>2. \A t \in Sessions : toServer'[t] = IF t = s THEN Rest(s) ELSE toServer[t]
      BY <2>1 DEF TypeOK
    <3> QED BY <3>1, <3>2
  <2>7. \A t \in Sessions : account[t] = 0 => toClient'[t] = toClient[t]
    <3>1. \A t \in Sessions : t # s => toClient'[t] = toClient[t]
      BY <2>1 DEF TypeOK
    <3> QED BY <2>3, <3>1
  <2>8. LoggedIn'
    <3>1. UNCHANGED <<account, screen, loaded>>
      BY <2>1 DEF server, client
    <3> QED BY <3>1, <2>6, <2>7 DEF LoggedIn
  <2> QED BY <2>5, <2>8
<1>4. ASSUME NEW h \in {"uncount", "list"}, handler[s].at \in OfAccount,
             handler' = [handler EXCEPT ![s] = At(h)],
             players' \subseteq players, loaded' \in [Sessions -> Seq(Character)],
             \A t \in Sessions : t # s => loaded'[t] = loaded[t],
             UNCHANGED <<accounts, nextId, connections, held, account, playing,
                         saver, up, toServer, toClient, client>>
      PROVE TypeOK' /\ LoggedIn'
  <2>1. At(h) \in HandlerStates /\ At(h).at = h /\ h \in AtWork \cap OfAccount
    BY DEF At, Idle, HandlerStates, AtWork, OfAccount
  <2>2. handler' \in [Sessions -> HandlerStates]
    BY <1>4, <2>1 DEF TypeOK, HandlerStates
  <2>3. handler[s].at \in AtWork
    BY <1>4 DEF OfAccount, AtWork
  <2>4. \A t \in Sessions :
          /\ held'[t] # Null <=> handler'[t].at \in AtWork
          /\ handler'[t].at \in {"exists", "insert"} => handler'[t].name \in Names
          /\ handler'[t].at \in OfAccount => account'[t] # 0
    BY <1>4, <2>1, <2>3 DEF TypeOK
  <2>5. TypeOK'
    BY <1>4, <2>2, <2>4 DEF TypeOK, client, HandlerStates
  <2>6. account[s] # 0
    BY <1>4 DEF TypeOK
  <2>7. LoggedIn'
    BY <1>4, <2>6 DEF LoggedIn, client
  <2> QED BY <2>5, <2>7
<1>5. CASE DeletePlayer(s)
  <2>1. handler[s].at \in OfAccount
    BY <1>5 DEF DeletePlayer, OfAccount
  <2>2. players' \subseteq players /\ loaded' = loaded
    BY <1>5 DEF DeletePlayer, server
  <2> QED BY <1>4, <1>5, <2>1, <2>2 DEF DeletePlayer, server, TypeOK
<1>6. CASE Reload(s)
  <2>1. PICK v \in Listed(RowsOf(account[s])) : loaded' = [loaded EXCEPT ![s] = v]
    BY <1>6 DEF Reload
  <2>2. loaded' \in [Sessions -> Seq(Character)]
    BY <2>1, ListedIs DEF TypeOK
  <2>3. handler[s].at \in OfAccount
    BY <1>6 DEF Reload, OfAccount
  <2> QED BY <1>4, <1>6, <2>1, <2>2, <2>3 DEF Reload, rows, TypeOK
<1>7. CASE Release(s) \/ AddObject(s)
  <2>1. /\ handler[s].at \in AtWork /\ Push(held[s])
        /\ held' = [held EXCEPT ![s] = Null] /\ handler' = [handler EXCEPT ![s] = Idle]
        /\ UNCHANGED <<rows, account, loaded, saver, up, toServer, client>>
    BY <1>7 DEF Release, AddObject, AtWork, server
  <2>2. playing' \in [Sessions -> Nat]
    BY <1>7 DEF Release, AddObject, server, TypeOK
  <2>3. /\ toClient' \in [Sessions -> Seq(Answers)]
        /\ \A t \in Sessions : account[t] = 0 => toClient'[t] = toClient[t]
    <3>1. CASE toClient' = toClient
      BY <3>1 DEF TypeOK
    <3>2. CASE toClient' # toClient
      <4> DEFINE m == [op |-> handler[s].at, chars |-> loaded[s]]
      <4>1. /\ handler[s].at \in {"welcome", "list"}
            /\ toClient' = [toClient EXCEPT ![s] = Append(@, m)]
        BY <1>7, <3>2 DEF Release, AddObject
      <4>2. m \in Answers
        BY <4>1 DEF TypeOK, Answers
      <4>3. account[s] # 0
        BY <4>1 DEF TypeOK, OfAccount
      <4> HIDE DEF m
      <4> QED BY <4>1, <4>2, <4>3 DEF TypeOK
    <3> QED BY <3>1, <3>2
  <2>4. held[s] \in Connections \cup {Null} /\ connections' \in Seq(Connections \cup {Null})
    BY <2>1, PushLeaves DEF TypeOK
  <2>5. Idle \in HandlerStates /\ Idle.at = "idle"
    BY DEF Idle, HandlerStates
  <2>6. handler' \in [Sessions -> HandlerStates] /\ held' \in [Sessions -> Connections \cup {Null}]
    BY <2>1, <2>5 DEF TypeOK, HandlerStates
  <2>7. \A t \in Sessions :
          /\ held'[t] # Null <=> handler'[t].at \in AtWork
          /\ handler'[t].at \in {"exists", "insert"} => handler'[t].name \in Names
          /\ handler'[t].at \in OfAccount => account'[t] # 0
    BY <2>1, <2>5 DEF TypeOK, AtWork, OfAccount
  <2>8. TypeOK'
    BY <2>1, <2>2, <2>3, <2>4, <2>6, <2>7 DEF TypeOK, rows, client, HandlerStates
  <2>9. LoggedIn'
    BY <2>1, <2>3 DEF LoggedIn, client
  <2> QED BY <2>8, <2>9
<1>8. CASE RefuseQuest(s)
  <2>1. connections' \in Seq(Connections \cup {Null})
    BY <1>8, PopLeaves DEF RefuseQuest, TypeOK
  <2>2. UNCHANGED <<rows, handler, held, server, saver, up, toServer, toClient, client>>
    BY <1>8 DEF RefuseQuest
  <2> QED BY <2>1, <2>2 DEF TypeOK, LoggedIn, rows, server, client
<1>9. CASE LeaveRoom(s)
  <2>1. At("left") \in HandlerStates /\ At("left").at = "left"
    BY DEF At, Idle, HandlerStates
  <2>2. /\ handler[s] = Idle /\ handler' = [handler EXCEPT ![s] = At("left")]
        /\ playing' = [playing EXCEPT ![s] = 0]
        /\ UNCHANGED <<rows, connections, held, account, loaded, saver, up,
                       toServer, toClient, client>>
    BY <1>9 DEF LeaveRoom, InRoom
  <2>3. handler' \in [Sessions -> HandlerStates] /\ playing' \in [Sessions -> Nat]
    BY <2>1, <2>2 DEF TypeOK, HandlerStates
  <2>4. \A t \in Sessions :
          /\ held'[t] # Null <=> handler'[t].at \in AtWork
          /\ handler'[t].at \in {"exists", "insert"} => handler'[t].name \in Names
          /\ handler'[t].at \in OfAccount => account'[t] # 0
    BY <2>1, <2>2 DEF TypeOK, AtWork, OfAccount, Idle
  <2>5. TypeOK'
    BY <2>2, <2>3, <2>4 DEF TypeOK, rows, client, HandlerStates
  <2> QED BY <2>2, <2>5 DEF LoggedIn, client
<1>10. CASE CloseSession(s)
  <2>1. /\ handler[s] = Idle /\ handler' = handler
        /\ account' = [account EXCEPT ![s] = 0] /\ loaded' = [loaded EXCEPT ![s] = <<>>]
        /\ screen' = [screen EXCEPT ![s] = "off"]
        /\ toServer' = [toServer EXCEPT ![s] = <<>>]
        /\ toClient' = [toClient EXCEPT ![s] = <<>>]
        /\ UNCHANGED <<rows, connections, held, playing, saver, up, infos, selected>>
    BY <1>10 DEF CloseSession
  <2>2. /\ <<>> \in Seq(Character) /\ <<>> \in Seq(Requests) /\ <<>> \in Seq(Answers)
    BY EmptySeq
  <2>3. \A t \in Sessions : handler[t].at \in OfAccount => account'[t] # 0
    BY <2>1 DEF TypeOK, OfAccount, Idle
  <2>4. /\ account' \in [Sessions -> {0} \cup DOMAIN accounts]
        /\ loaded' \in [Sessions -> Seq(Character)]
        /\ toServer' \in [Sessions -> Seq(Requests)]
        /\ toClient' \in [Sessions -> Seq(Answers)]
        /\ screen' \in [Sessions -> {"off", "title", "lobby", "game", "lost"}]
    BY <2>1, <2>2 DEF TypeOK
  <2>5. TypeOK'
    BY <2>1, <2>3, <2>4 DEF TypeOK, rows
  <2>6. LoggedIn'
    BY <2>1 DEF LoggedIn, TypeOK
  <2> QED BY <2>5, <2>6
<1> QED BY <1>1, <1>2, <1>3, <1>5, <1>6, <1>7, <1>8, <1>9, <1>10

(* The auto-save and a restart keep the types.                             *)
LEMMA SystemTypes ==
  ASSUME TypeOK, LoggedIn, AutoSave \/ Restart
  PROVE TypeOK' /\ LoggedIn'
<1>1. CASE SavePlayersWithout
  BY <1>1, CrashTypes DEF SavePlayersWithout
<1>2. CASE Restart \/ SaveAllPlayerDb \/ SaverDone
  <2>1. connections' \in Seq(Connections \cup {Null})
    <3>1. CASE Restart
      BY <3>1 DEF Restart, Connected, Connections
    <3>2. CASE SaveAllPlayerDb
      BY <3>2, PopLeaves DEF SaveAllPlayerDb, TypeOK
    <3>3. CASE SaverDone
      <4>1. saver \in Connections \cup {Null}
        BY <3>3 DEF SaverDone, TypeOK
      <4> QED BY <3>3, <4>1, PushLeaves DEF SaverDone, TypeOK
    <3> QED BY <1>2, <3>1, <3>2, <3>3
  <2>2. saver' \in {NotSaving, Null} \cup Connections /\ up' \in BOOLEAN
    BY <1>2, PoppedIs DEF Restart, SaveAllPlayerDb, SaverDone, TypeOK
  <2>3. UNCHANGED <<rows, handler, held, server, toServer, toClient, client>>
    BY <1>2 DEF Restart, SaveAllPlayerDb, SaverDone
  <2> QED BY <2>1, <2>2, <2>3 DEF TypeOK, LoggedIn, rows, server, client
<1> QED BY <1>1, <1>2 DEF AutoSave

(* What the client sends is one more packet.                               *)
LEMMA SendTypes ==
  ASSUME TypeOK, NEW s \in Sessions, NEW r \in Requests,
         r.op = "account" => r.name \in Names,
         account[s] = 0 => r.op \in {"login", "account"}, Send(s, r), LoggedIn
  PROVE /\ toServer' \in [Sessions -> Seq(Requests)]
        /\ \A t \in Sessions : \A i \in DOMAIN toServer'[t] :
             /\ toServer'[t][i].op = "account" => toServer'[t][i].name \in Names
             /\ account[t] = 0 => toServer'[t][i].op \in {"login", "account"}
<1>1. toServer' = [toServer EXCEPT ![s] = Append(@, r)]
  BY DEF Send
<1>2. toServer[s] \in Seq(Requests) /\ Append(toServer[s], r) \in Seq(Requests)
  BY DEF TypeOK
<1>3. toServer' \in [Sessions -> Seq(Requests)]
  BY <1>1, <1>2 DEF TypeOK
<1>4. \A i \in DOMAIN toServer'[s] :
        \/ i \in DOMAIN toServer[s] /\ toServer'[s][i] = toServer[s][i]
        \/ toServer'[s][i] = r
  <2>1. toServer'[s] = Append(toServer[s], r)
    BY <1>1 DEF TypeOK
  <2> QED BY <1>2, <2>1, AppendProperties
<1>5. \A t \in Sessions : t # s => toServer'[t] = toServer[t]
  BY <1>1 DEF TypeOK
<1> QED BY <1>3, <1>4, <1>5 DEF LoggedIn

(* A click that sends a packet, and perhaps closes the lobby.              *)
LEMMA ClickTypes ==
  ASSUME TypeOK, LoggedIn, NEW s \in Sessions, NEW r \in Requests,
         r.op = "account" => r.name \in Names,
         account[s] = 0 => r.op \in {"login", "account"}, Send(s, r),
         \/ UNCHANGED <<screen, infos, selected>>
         \/ account[s] # 0 /\ Closes(s, "game")
  PROVE TypeOK' /\ LoggedIn'
<1>1. UNCHANGED <<rows, connections, handler, held, server, saver, up, toClient>>
  BY DEF Send
<1>2. /\ infos' \in [Sessions -> Seq(Character)]
      /\ screen' \in [Sessions -> {"off", "title", "lobby", "game", "lost"}]
      /\ selected' \in [Sessions -> Nat]
  <2>1. CASE UNCHANGED <<screen, infos, selected>>
    BY <2>1 DEF TypeOK
  <2>2. CASE Closes(s, "game")
    BY <2>2, EmptySeq DEF Closes, TypeOK, Unselected
  <2> QED BY <2>1, <2>2
<1>3. TypeOK'
  BY <1>1, <1>2, SendTypes DEF TypeOK, rows, server
<1>4. \A t \in Sessions : account[t] = 0 => screen'[t] = screen[t]
  BY DEF Closes, TypeOK
<1>5. LoggedIn'
  BY <1>1, <1>4, SendTypes DEF LoggedIn, server
<1> QED BY <1>3, <1>5

(* The client keeps the types: it asks for more than to log in only on a   *)
(* screen that it reaches by logging in.                                   *)
LEMMA ClientTypes ==
  ASSUME TypeOK, LoggedIn, NEW s \in Sessions, Client(s)
  PROVE TypeOK' /\ LoggedIn'
<1>1. CASE Connect(s) \/ ClickSlot(s) \/ Leave(s)
  <2>1. /\ UNCHANGED <<rows, connections, handler, held, server, saver, up, toServer>>
    BY <1>1 DEF Connect, ClickSlot, Leave
  <2>2. /\ infos' \in [Sessions -> Seq(Character)]
        /\ screen' \in [Sessions -> {"off", "title", "lobby", "game", "lost"}]
        /\ toClient' \in [Sessions -> Seq(Answers)]
    <3>1. CASE Connect(s)
      BY <3>1 DEF Connect, TypeOK
    <3>2. CASE ClickSlot(s)
      BY <3>2 DEF ClickSlot, TypeOK
    <3>3. CASE Leave(s)
      BY <3>3, EmptySeq DEF Leave, Closes, TypeOK
    <3> QED BY <1>1, <3>1, <3>2, <3>3
  <2>3. selected' \in [Sessions -> Nat]
    <3>1. CASE Connect(s)
      BY <3>1 DEF Connect, TypeOK
    <3>3. CASE Leave(s)
      BY <3>3 DEF Leave, Closes, TypeOK, Unselected
    <3>2. CASE ClickSlot(s)
      <4>1. PICK i \in DOMAIN infos[s] : selected' = [selected EXCEPT ![s] = infos[s][i].slot]
        BY <3>2 DEF ClickSlot
      <4>2. infos[s][i] \in Character
        BY DEF TypeOK
      <4> QED BY <4>1, <4>2 DEF TypeOK, Character
    <3> QED BY <1>1, <3>1, <3>2, <3>3
  <2>4. TypeOK'
    BY <2>1, <2>2, <2>3 DEF TypeOK, rows, server
  <2>5. \A t \in Sessions : account[t] = 0 =>
          screen'[t] \in {"off", "title", "lost"} /\ toClient'[t] = <<>>
    BY <1>1 DEF Connect, ClickSlot, Leave, Closes, TypeOK, LoggedIn
  <2> QED BY <2>1, <2>4, <2>5 DEF LoggedIn, server
<1>3. CASE ClickTitle(s)
  <2>1. PICK o \in {"login", "account"}, n \in Names :
          Send(s, [Request(o) EXCEPT !.name = n])
    BY <1>3, Zenon DEF ClickTitle
  <2> DEFINE r == [Request(o) EXCEPT !.name = n]
  <2>2. r \in Requests /\ r.op = o /\ r.name = n /\ Send(s, r)
    BY <2>1 DEF Request, Requests
  <2>3. UNCHANGED <<screen, infos, selected>>
    BY <1>3 DEF ClickTitle, client
  <2> HIDE DEF r
  <2> QED BY <2>2, <2>3, ClickTypes
<1>4. screen[s] = "lobby" => account[s] # 0
  BY DEF LoggedIn
<1>5. CASE ClickCreate(s)
  <2> DEFINE r == Request("create")
  <2>1. r \in Requests /\ r.op = "create"
    BY DEF Request, Requests
  <2>2. screen[s] = "lobby" /\ Send(s, r) /\ UNCHANGED <<screen, infos, selected>>
    BY <1>5 DEF ClickCreate, client
  <2> HIDE DEF r
  <2> QED BY <1>4, <2>1, <2>2, ClickTypes
<1>6. ASSUME NEW o \in {"delete", "enter"}, NEW i \in DOMAIN infos[s],
             screen[s] = "lobby", Send(s, [Request(o) EXCEPT !.slot = infos[s][i].slot]),
             UNCHANGED <<screen, infos, selected>> \/ Closes(s, "game")
      PROVE TypeOK' /\ LoggedIn'
  <2>1. infos[s][i].slot \in Nat
    <3>1. infos[s][i] \in Character
      BY DEF TypeOK
    <3> QED BY <3>1 DEF Character
  <2> DEFINE r == [Request(o) EXCEPT !.slot = infos[s][i].slot]
  <2>2. r \in Requests /\ r.op = o /\ Send(s, r)
    BY <1>6, <2>1 DEF Request, Requests
  <2> HIDE DEF r
  <2> QED BY <1>4, <1>6, <2>2, ClickTypes
<1>7. CASE ClickDelete(s)
  <2>1. selected[s] + 1 \in DOMAIN infos[s]
    BY <1>7 DEF ClickDelete
  <2> QED BY <1>6, <1>7, <2>1 DEF ClickDelete, client
<1>8. CASE ClickEnter(s)
  <2>1. PICK i \in DOMAIN infos[s] : Send(s, [Request("enter") EXCEPT !.slot = infos[s][i].slot])
    BY <1>8 DEF ClickEnter
  <2> QED BY <1>6, <1>8, <2>1 DEF ClickEnter
<1>9. CASE SuccessLogin(s) \/ CharacterList(s)
  <2>1. /\ toClient[s] # <<>> /\ toClient' = [toClient EXCEPT ![s] = Tail(@)]
        /\ UNCHANGED <<rows, connections, handler, held, server, saver, up, selected>>
    BY <1>9 DEF SuccessLogin, CharacterList, Arrives
  <2>2. account[s] # 0
    BY <2>1 DEF LoggedIn
  <2>3. /\ Head(toClient[s]) \in Answers /\ Tail(toClient[s]) \in Seq(Answers)
    BY <2>1, HeadTailProperties DEF TypeOK
  <2>4. Request("list") \in Requests /\ Request("list").op = "list"
    BY DEF Request, Requests
  <2>5. /\ infos' \in [Sessions -> Seq(Character)]
        /\ screen' \in [Sessions -> {"off", "title", "lobby", "game", "lost"}]
        /\ toClient' \in [Sessions -> Seq(Answers)]
    BY <1>9, <2>1, <2>3 DEF SuccessLogin, CharacterList, TypeOK, Answers
  <2>6. toServer' = toServer \/ toServer' = [toServer EXCEPT ![s] = Append(@, Request("list"))]
    BY <1>9 DEF SuccessLogin, CharacterList
  <2>7. /\ toServer[s] \in Seq(Requests)
        /\ Append(toServer[s], Request("list")) \in Seq(Requests)
    BY <2>4 DEF TypeOK
  <2>8. toServer' \in [Sessions -> Seq(Requests)]
    BY <2>6, <2>7 DEF TypeOK
  <2>9. \A i \in DOMAIN toServer'[s] :
          \/ i \in DOMAIN toServer[s] /\ toServer'[s][i] = toServer[s][i]
          \/ toServer'[s][i] = Request("list")
    <3>1. CASE toServer' = toServer
      BY <3>1
    <3>2. CASE toServer' = [toServer EXCEPT ![s] = Append(@, Request("list"))]
      <4>1. toServer'[s] = Append(toServer[s], Request("list"))
        BY <3>2 DEF TypeOK
      <4> QED BY <2>4, <2>7, <4>1, AppendProperties
    <3> QED BY <2>6, <3>1, <3>2
  <2>10. \A t \in Sessions : t # s =>
           /\ toServer'[t] = toServer[t] /\ toClient'[t] = toClient[t]
           /\ screen'[t] = screen[t]
    BY <1>9, <2>1 DEF SuccessLogin, CharacterList, TypeOK
  <2>11. TypeOK'
    BY <2>1, <2>5, <2>8 DEF TypeOK, rows, server
  <2>12. UNCHANGED <<account, loaded>>
    BY <2>1 DEF server
  <2>13. LoggedIn'
    BY <2>2, <2>4, <2>9, <2>10, <2>12 DEF LoggedIn
  <2> QED BY <2>11, <2>13
<1> QED BY <1>1, <1>3, <1>5, <1>7, <1>8, <1>9 DEF Client

-----------------------------------------------------------------------------
(* The rows.                                                               *)

(* What leaves the rows alone and at most forgets lists, or goes on to     *)
(* delete what a list names.                                               *)
LEMMA RowsFrame ==
  ASSUME TypeOK, RowsOwned, UNCHANGED <<players, nextId>>,
         \A s \in Sessions :
           \/ loaded'[s] = loaded[s] /\ account'[s] = account[s]
           \/ loaded'[s] = <<>>,
         \A s \in Sessions : handler'[s].at = "delete" =>
           /\ account'[s] = account[s]
           /\ \/ handler'[s] = handler[s]
              \/ \E i \in DOMAIN loaded[s] : handler'[s].id = loaded[s][i].id
  PROVE RowsOwned'
BY DEF RowsOwned

LEMMA TakeRows ==
  ASSUME TypeOK, RowsOwned, NEW s \in Sessions, NEW h, NEW rest, Take(s, h, rest),
         h.at # "delete" \/ \E i \in DOMAIN loaded[s] : h.id = loaded[s][i].id
  PROVE RowsOwned'
<1>1. CASE Popped = Null
  <2>1. Crash
    BY <1>1 DEF Take
  <2> QED BY <2>1, RowsFrame DEF Crash, rows, Idle
<1>2. CASE Popped # Null
  <2>1. handler' = [handler EXCEPT ![s] = h] /\ UNCHANGED <<players, nextId, loaded, account>>
    BY <1>2 DEF Take, rows, server
  <2>2. \A t \in Sessions : handler'[t] = IF t = s THEN h ELSE handler[t]
    BY <2>1 DEF TypeOK
  <2> QED BY <2>1, <2>2, RowsFrame
<1> QED BY <1>1, <1>2

(* Handlers that take a connection, and where the id to delete comes from. *)
LEMMA TakersRows ==
  ASSUME TypeOK, RowsOwned, NEW s \in Sessions,
         \/ TryLogin(s) \/ CreateAccount(s) \/ CreateCharacter(s)
         \/ DeleteCharacter(s) \/ EnterRoom(s) \/ Save(s) \/ SaveLeaver(s)
  PROVE RowsOwned'
<1> USE DEF At, Idle
<1>1. CASE TryLogin(s)
  <2> DEFINE h == [At("check") EXCEPT !.name = Head(toServer[s]).name]
  <2>1. Take(s, h, Rest(s)) /\ h.at # "delete"
    BY <1>1 DEF TryLogin
  <2> HIDE DEF h
  <2> QED BY <2>1, TakeRows
<1>2. CASE CreateAccount(s)
  <2> DEFINE h == [At("exists") EXCEPT !.name = Head(toServer[s]).name]
  <2>1. Take(s, h, Rest(s)) /\ h.at # "delete"
    BY <1>2 DEF CreateAccount
  <2> HIDE DEF h
  <2> QED BY <2>1, TakeRows
<1>3. CASE CreateCharacter(s) \/ Save(s) \/ SaveLeaver(s)
  <2>1. \E h \in {"count", "done"}, rest \in {Rest(s), toServer[s], <<>>} :
          Take(s, At(h), rest)
    BY <1>3, Zenon DEF CreateCharacter, Save, SaveLeaver
  <2>2. PICK h \in {"count", "done"}, rest \in {Rest(s), toServer[s], <<>>} :
          Take(s, At(h), rest)
    BY <2>1
  <2>3. At(h).at # "delete"
    OBVIOUS
  <2> QED BY <2>2, <2>3, TakeRows DEF At
<1>4. ASSUME Crash \/ \E o \in {"delete", "enter"}, i \in DOMAIN loaded[s] :
               Take(s, [At(o) EXCEPT !.id = loaded[s][i].id], Rest(s))
      PROVE RowsOwned'
  <2>1. CASE Crash
    BY <2>1, RowsFrame DEF Crash, rows
  <2>2. ASSUME NEW o \in {"delete", "enter"}, NEW i \in DOMAIN loaded[s],
               Take(s, [At(o) EXCEPT !.id = loaded[s][i].id], Rest(s))
        PROVE RowsOwned'
    <3> DEFINE h == [At(o) EXCEPT !.id = loaded[s][i].id]
    <3>1. Take(s, h, Rest(s)) /\ h.id = loaded[s][i].id
      BY <2>2
    <3> HIDE DEF h
    <3> QED BY <3>1, TakeRows
  <2> QED BY <1>4, <2>1, <2>2
<1>5. CASE DeleteCharacter(s) \/ EnterRoom(s)
  <2>1. Crash \/ \E o \in {"delete", "enter"}, i \in DOMAIN loaded[s] :
          Take(s, [At(o) EXCEPT !.id = loaded[s][i].id], Rest(s))
    BY <1>5, Zenon DEF DeleteCharacter, EnterRoom
  <2> QED BY <1>4, <2>1
<1> QED BY <1>1, <1>2, <1>3, <1>5

(* Steps that change neither rows nor lists.                               *)
LEMMA QuietRows ==
  ASSUME TypeOK, RowsOwned,
         \/ \E s \in Sessions :
              \/ Refuse(s) \/ CheckName(s) \/ InsertAccount(s) \/ Adopt(s)
              \/ LoadingCharacterList(s) \/ CountSlot(s) \/ UncountSlot(s)
              \/ Release(s) \/ AddObject(s) \/ RefuseQuest(s)
              \/ LeaveRoom(s) \/ CloseSession(s) \/ Client(s)
         \/ AutoSave \/ Restart
  PROVE RowsOwned'
<1> DEFINE Quiet(s) ==
      /\ UNCHANGED <<players, nextId>>
      /\ \A t \in Sessions : t # s =>
           handler'[t] = handler[t] /\ loaded'[t] = loaded[t] /\ account'[t] = account[t]
      /\ handler'[s].at = "delete" => handler'[s] = handler[s] /\ account'[s] = account[s]
      /\ \/ loaded'[s] = loaded[s] /\ account'[s] = account[s]
         \/ loaded'[s] = <<>>
<1>1. ASSUME NEW s \in Sessions, Quiet(s) PROVE RowsOwned'
  BY <1>1, RowsFrame
<1>2. ASSUME NEW s \in Sessions,
             \/ Refuse(s) \/ CheckName(s) \/ InsertAccount(s)
             \/ CountSlot(s) \/ UncountSlot(s)
      PROVE Quiet(s)
  <2>1. UNCHANGED <<players, nextId, loaded, account>>
    BY <1>2 DEF Refuse, CheckName, InsertAccount, CountSlot, UncountSlot, Go, rows, server
  <2>2. \E h : h.at # "delete" /\ handler' = [handler EXCEPT ![s] = h]
    <3>1. CASE Refuse(s)
      BY <3>1 DEF Refuse, Go, At, Idle
    <3>5. \A o : [handler[s] EXCEPT !.at = o].at = o
      BY DEF TypeOK
    <3>2. CASE CheckName(s)
      <4>1. \E h \in {At("done"), [handler[s] EXCEPT !.at = "insert"]} :
              handler' = [handler EXCEPT ![s] = h]
        BY <3>2, Zenon DEF CheckName, Go
      <4>2. At("done").at = "done"
        BY DEF At, Idle
      <4> QED BY <4>1, <4>2, <3>5
    <3>3. CASE InsertAccount(s)
      BY <3>3, <3>5 DEF InsertAccount, Go
    <3>4. CASE CountSlot(s) \/ UncountSlot(s)
      BY <3>4 DEF CountSlot, UncountSlot, Go, At, Idle
    <3> QED BY <1>2, <3>1, <3>2, <3>3, <3>4
  <2> QED BY <2>1, <2>2 DEF TypeOK
<1>3. ASSUME NEW s \in Sessions,
             \/ Adopt(s) \/ Release(s) \/ AddObject(s) \/ LeaveRoom(s) \/ CloseSession(s)
      PROVE Quiet(s)
  <2>1. CASE Adopt(s)
    <3>1. PICK a \in DOMAIN accounts : SetMyAccount(s, a, <<>>)
      BY <2>1, Zenon DEF Adopt
    <3>2. handler' = [handler EXCEPT ![s] = At("done")] /\ At("done").at = "done"
      BY <2>1 DEF Adopt, At, Idle
    <3> QED BY <3>1, <3>2 DEF SetMyAccount, TypeOK, rows
  <2>2. CASE Release(s) \/ AddObject(s)
    BY <2>2 DEF Release, AddObject, Idle, TypeOK, rows, server
  <2>3. CASE LeaveRoom(s)
    BY <2>3 DEF LeaveRoom, At, Idle, TypeOK, rows
  <2>4. CASE CloseSession(s)
    BY <2>4 DEF CloseSession, Idle, TypeOK, rows
  <2> QED BY <1>3, <2>1, <2>2, <2>3, <2>4
<1>4. ASSUME NEW s \in Sessions,
             LoadingCharacterList(s) \/ RefuseQuest(s) \/ Client(s)
      PROVE UNCHANGED <<players, nextId, loaded, account, handler>>
  BY <1>4 DEF LoadingCharacterList, RefuseQuest, Client, Connect, ClickTitle,
     ClickCreate, ClickSlot, ClickDelete, ClickEnter, Send, Arrives,
     SuccessLogin, CharacterList, Leave, rows, server
<1>5. CASE SaveAllPlayerDb \/ SaverDone \/ Restart
  BY <1>5, RowsFrame DEF SaveAllPlayerDb, SaverDone, Restart, rows, server
<1>6. CASE SavePlayersWithout
  BY <1>6, RowsFrame DEF SavePlayersWithout, Crash, rows, Idle
<1> HIDE DEF Quiet
<1>7. ASSUME UNCHANGED <<players, nextId, loaded, account, handler>> PROVE RowsOwned'
  BY <1>7, RowsFrame
<1> QED BY <1>1, <1>2, <1>3, <1>4, <1>5, <1>6, <1>7 DEF AutoSave

(* Rows come, go and are read again.                                       *)
LEMMA ActiveRows ==
  ASSUME TypeOK, RowsOwned, NEW s \in Sessions,
         LogIn(s) \/ InsertPlayer(s) \/ DeletePlayer(s) \/ Reload(s)
  PROVE RowsOwned'
<1>1. ASSUME NEW a, NEW v \in Listed(RowsOf(a)), UNCHANGED <<players, nextId>>,
             account' = [account EXCEPT ![s] = a], loaded' = [loaded EXCEPT ![s] = v],
             NEW h \in {"welcome", "list"}, handler' = [handler EXCEPT ![s] = At(h)]
      PROVE RowsOwned'
  <2>1. \A i \in DOMAIN v : v[i] \in players /\ v[i].owner = a
    BY ListedIs
  <2>2. \A i \in DOMAIN v : /\ v[i].id < nextId
                           /\ \A p \in players : p.id = v[i].id => p.owner = a
    BY <2>1 DEF RowsOwned
  <2>3. /\ account'[s] = a /\ loaded'[s] = v
        /\ handler'[s].at # "delete"
        /\ \A t \in Sessions : t # s =>
             account'[t] = account[t] /\ loaded'[t] = loaded[t] /\ handler'[t] = handler[t]
    BY <1>1 DEF TypeOK, At, Idle
  <2> QED BY <1>1, <2>2, <2>3 DEF RowsOwned
<1>2. CASE LogIn(s)
  <2>1. PICK a \in DOMAIN accounts :
          \E v \in Listed(RowsOf(a)) : SetMyAccount(s, a, v)
    BY <1>2, Zenon DEF LogIn
  <2>2. PICK v \in Listed(RowsOf(a)) : SetMyAccount(s, a, v)
    BY <2>1
  <2>3. handler' = [handler EXCEPT ![s] = At("welcome")]
    BY <1>2 DEF LogIn
  <2> QED BY <1>1, <2>2, <2>3 DEF SetMyAccount, rows
<1>3. CASE Reload(s)
  <2>1. PICK v \in Listed(RowsOf(account[s])) : loaded' = [loaded EXCEPT ![s] = v]
    BY <1>3 DEF Reload
  <2>2. UNCHANGED <<players, nextId, account>> /\ handler' = [handler EXCEPT ![s] = At("list")]
    BY <1>3 DEF Reload, rows
  <2>3. account' = [account EXCEPT ![s] = account[s]]
    BY <2>2 DEF TypeOK
  <2> QED BY <1>1, <2>1, <2>2, <2>3
<1>4. CASE InsertPlayer(s)
  <2> DEFINE r == [id |-> nextId, owner |-> account[s], slot |-> Len(loaded[s])]
  <2>1. /\ players' = players \cup {r} /\ nextId' = nextId + 1
        /\ handler' = [handler EXCEPT ![s] = At("reload")]
        /\ UNCHANGED <<loaded, account>>
    BY <1>4 DEF InsertPlayer, Go, server
  <2>2. r.id = nextId /\ nextId \in Nat
    BY DEF TypeOK
  <2> HIDE DEF r
  <2>3. \A p \in players : p.id < nextId /\ p.id \in Nat
    BY DEF RowsOwned, TypeOK, Character
  <2>4. /\ handler'[s].at # "delete"
        /\ \A t \in Sessions : t # s => handler'[t] = handler[t]
    BY <2>1 DEF TypeOK, At, Idle
  <2>5. IsFiniteSet(players')
    BY <2>1, FS_AddElement DEF RowsOwned
  <2>6. \A p \in players' : p.id < nextId'
    BY <2>1, <2>2, <2>3
  <2>7. \A p, q \in players' : p.id = q.id => p = q
    BY <2>1, <2>2, <2>3 DEF RowsOwned
  <2>8. \A t \in Sessions : \A i \in DOMAIN loaded'[t] :
          /\ loaded'[t][i].id < nextId'
          /\ \A p \in players' : p.id = loaded'[t][i].id => p.owner = account'[t]
    <3> SUFFICES ASSUME NEW t \in Sessions, NEW i \in DOMAIN loaded[t]
                 PROVE /\ loaded[t][i].id < nextId + 1
                       /\ \A p \in players' : p.id = loaded[t][i].id => p.owner = account[t]
      BY <2>1
    <3>1. loaded[t][i].id \in Nat
      <4>1. loaded[t][i] \in Character
        BY DEF TypeOK
      <4> QED BY <4>1 DEF Character
    <3> QED BY <2>1, <2>2, <3>1 DEF RowsOwned
  <2>9. \A t \in Sessions : handler'[t].at = "delete" =>
          /\ handler'[t].id < nextId'
          /\ \A p \in players' : p.id = handler'[t].id => p.owner = account'[t]
    <3> SUFFICES ASSUME NEW t \in Sessions, t # s, handler[t].at = "delete"
                 PROVE /\ handler[t].id < nextId + 1
                       /\ \A p \in players' : p.id = handler[t].id => p.owner = account[t]
      BY <2>1, <2>4
    <3>1. handler[t].id \in Nat
      BY DEF TypeOK
    <3> QED BY <2>1, <2>2, <3>1 DEF RowsOwned
  <2> QED BY <2>5, <2>6, <2>7, <2>8, <2>9 DEF RowsOwned
<1>5. CASE DeletePlayer(s)
  <2>1. /\ players' \subseteq players /\ UNCHANGED <<nextId, loaded, account>>
        /\ handler' = [handler EXCEPT ![s] = At("uncount")]
    BY <1>5 DEF DeletePlayer, server
  <2>2. /\ handler'[s].at # "delete"
        /\ \A t \in Sessions : t # s => handler'[t] = handler[t]
    BY <2>1 DEF TypeOK, At, Idle
  <2>3. IsFiniteSet(players')
    BY <2>1, FS_Subset DEF RowsOwned
  <2> QED BY <2>1, <2>2, <2>3 DEF RowsOwned
<1> QED BY <1>2, <1>3, <1>4, <1>5

-----------------------------------------------------------------------------
(* The connections.                                                        *)

(* A step that moves no connection, on a running server or quiet.          *)
LEMMA ApartFrame ==
  ASSUME ConnectionsApart, UNCHANGED <<connections, held, saver>>,
         up' \/ UNCHANGED <<up, handler, playing>>
  PROVE ConnectionsApart'
BY DEF ConnectionsApart, Pooled

(* When the process ends, nobody has a connection.                         *)
LEMMA CrashApart == ASSUME Crash PROVE ConnectionsApart'
BY DEF Crash, ConnectionsApart, Pooled, Connections

(* Pop moves a connection from the pool to a handler, or to nobody.        *)
LEMMA TakeApart ==
  ASSUME TypeOK, ConnectionsApart, NEW s \in Sessions, NEW h, NEW rest,
         Take(s, h, rest), up
  PROVE ConnectionsApart'
<1>1. CASE Popped = Null
  BY <1>1, CrashApart DEF Take
<1>2. CASE Popped # Null
  <2>1. Pop /\ held' = [held EXCEPT ![s] = Popped] /\ UNCHANGED <<saver, up>>
    BY <1>2 DEF Take
  <2>2. /\ connections # <<>> /\ Popped = connections[Len(connections)]
        /\ Popped \in Connections /\ Len(connections) \in DOMAIN connections
    BY <1>2, PoppedIs DEF TypeOK
  <2>3. \A i \in DOMAIN connections' :
          i \in DOMAIN connections /\ connections'[i] = connections[i] /\ i # Len(connections)
    BY <2>1, PopLeaves DEF TypeOK
  <2> PICK c \in Connections : c = Popped
    BY <2>2
  <2>4. Pooled(c) /\ ~Pooled(c)' /\ \A d \in Connections : Pooled(d)' => Pooled(d)
    <3>1. Pooled(c)
      BY <2>2 DEF Pooled
    <3>2. \A i \in DOMAIN connections' : connections'[i] # c
      BY <2>2, <2>3 DEF ConnectionsApart
    <3> QED BY <2>3, <3>1, <3>2 DEF Pooled
  <2>5. \A t \in Sessions : held'[t] = IF t = s THEN c ELSE held[t]
    BY <2>1 DEF TypeOK
  <2>6. \A d \in Connections : \A i, j \in DOMAIN connections' :
          connections'[i] = d /\ connections'[j] = d => i = j
    BY <2>3 DEF ConnectionsApart
  <2>7. \A d \in Connections :
          /\ \A t, u \in Sessions : held'[t] = d /\ held'[u] = d => t = u
          /\ \A t \in Sessions : held'[t] = d => saver' # d /\ ~Pooled(d)'
          /\ saver' = d => ~Pooled(d)'
    BY <2>1, <2>4, <2>5 DEF ConnectionsApart
  <2> QED BY <2>1, <2>6, <2>7 DEF ConnectionsApart
<1> QED BY <1>1, <1>2

(* Who is at work, in the room or saving is so on a running server.        *)
LEMMA Running ==
  ASSUME TypeOK, ConnectionsApart
  PROVE /\ \A s \in Sessions : handler[s].at # "idle" \/ playing[s] # 0 => up
        /\ saver # NotSaving => up
BY DEF ConnectionsApart, Idle, TypeOK

(* A new pool has each connection once.                                    *)
LEMMA NewPool ==
  ASSUME connections' = Connected, saver' = NotSaving,
         \A s \in Sessions : held'[s] = Null, up'
  PROVE ConnectionsApart'
<1>1. DOMAIN connections' = Connections /\ \A i \in Connections : connections'[i] = i
  BY DEF Connected
<1>2. Null \notin Connections /\ NotSaving \notin Connections
  BY DEF Connections
<1> QED BY <1>1, <1>2 DEF ConnectionsApart

LEMMA InitApart == Init => ConnectionsApart
<1> SUFFICES ASSUME Init PROVE ConnectionsApart
  OBVIOUS
<1>1. DOMAIN connections = Connections /\ \A i \in Connections : connections[i] = i
  BY DEF Init, Connected
<1>2. Null \notin Connections /\ NotSaving \notin Connections
  BY DEF Connections
<1> QED BY <1>1, <1>2 DEF Init, ConnectionsApart

(* Push moves a connection from who had it, and who forgets it, back to    *)
(* the pool; the auto-save may give back null.                             *)
LEMMA PushApart ==
  ASSUME TypeOK, ConnectionsApart, NEW db \in Connections \cup {Null}, Push(db),
         db # Null => ~Pooled(db), up',
         \A c \in Connections : saver' = c => saver = c /\ c # db,
         \A s \in Sessions : \A c \in Connections : held'[s] = c => held[s] = c /\ c # db
  PROVE ConnectionsApart'
<1>1. \A i \in DOMAIN connections' :
        \/ i \in DOMAIN connections /\ connections'[i] = connections[i]
        \/ i = Len(connections) + 1 /\ connections'[i] = db
  BY PushLeaves DEF TypeOK
<1>2. Null \notin Connections
  BY DEF Connections
<1>3. \A c \in Connections : Pooled(c)' => Pooled(c) \/ c = db
  BY <1>1 DEF Pooled
<1>4. \A c \in Connections : \A i, j \in DOMAIN connections' :
        connections'[i] = c /\ connections'[j] = c => i = j
  <2> SUFFICES ASSUME NEW c \in Connections, NEW i \in DOMAIN connections',
                      NEW j \in DOMAIN connections',
                      connections'[i] = c, connections'[j] = c
               PROVE i = j
    OBVIOUS
  <2>1. CASE c = db
    <3>1. \A k \in DOMAIN connections : connections[k] # c
      BY <1>2, <2>1 DEF Pooled
    <3> QED BY <1>1, <3>1
  <2>2. CASE c # db
    BY <1>1, <2>2 DEF ConnectionsApart
  <2> QED BY <2>1, <2>2
<1>5. \A c \in Connections :
        /\ \A s, t \in Sessions : held'[s] = c /\ held'[t] = c => s = t
        /\ \A s \in Sessions : held'[s] = c => saver' # c /\ ~Pooled(c)'
        /\ saver' = c => ~Pooled(c)'
  BY <1>3 DEF ConnectionsApart
<1> QED BY <1>4, <1>5 DEF ConnectionsApart

(* Pop, by the auto-save or by a quest that is refused.                    *)
LEMMA PopApart ==
  ASSUME TypeOK, ConnectionsApart, Pop, up, UNCHANGED <<held, up>>,
         saver' = saver \/ saver' = Popped
  PROVE ConnectionsApart'
<1>1. \A i \in DOMAIN connections' :
        i \in DOMAIN connections /\ connections'[i] = connections[i] /\ i # Len(connections)
  BY PopLeaves DEF TypeOK
<1>2. Null \notin Connections
  BY DEF Connections
<1>3. \A c \in Connections : Pooled(c)' => Pooled(c)
  BY <1>1 DEF Pooled
<1>4. \A c \in Connections : \A i, j \in DOMAIN connections' :
        connections'[i] = c /\ connections'[j] = c => i = j
  BY <1>1 DEF ConnectionsApart
<1>5. \A c \in Connections : c = Popped => Pooled(c) /\ ~Pooled(c)'
  <2> SUFFICES ASSUME NEW c \in Connections, c = Popped PROVE Pooled(c) /\ ~Pooled(c)'
    OBVIOUS
  <2>1. connections # <<>> /\ c = connections[Len(connections)] /\ Len(connections) \in DOMAIN connections
    BY <1>2, PoppedIs DEF TypeOK
  <2>2. \A i \in DOMAIN connections' : connections'[i] # c
    BY <1>1, <2>1 DEF ConnectionsApart
  <2> QED BY <2>1, <2>2 DEF Pooled
<1>6. \A c \in Connections :
        /\ \A s, t \in Sessions : held'[s] = c /\ held'[t] = c => s = t
        /\ \A s \in Sessions : held'[s] = c => saver' # c /\ ~Pooled(c)'
        /\ saver' = c => ~Pooled(c)'
  <2>1. CASE saver' = saver
    BY <1>3, <2>1 DEF ConnectionsApart
  <2>2. CASE saver' = Popped
    BY <1>3, <1>5, <2>2 DEF ConnectionsApart
  <2> QED BY <2>1, <2>2
<1> QED BY <1>4, <1>6 DEF ConnectionsApart

(* Every step keeps the connections apart.                                 *)
LEMMA ApartStep ==
  ASSUME TypeOK, ConnectionsApart, [Next]_vars
  PROVE ConnectionsApart'
<1>1. CASE UNCHANGED vars
  BY <1>1, ApartFrame DEF vars, server
<1>2. CASE AutoSave
  <2>1. CASE SaveAllPlayerDb
    BY <2>1, PopApart DEF SaveAllPlayerDb
  <2>2. CASE SavePlayersWithout
    BY <2>2, CrashApart DEF SavePlayersWithout
  <2>3. CASE SaverDone
    <3>1. /\ saver # NotSaving /\ Push(saver) /\ saver' = NotSaving
          /\ UNCHANGED <<held, up>>
      BY <2>3 DEF SaverDone
    <3>2. /\ saver \in Connections \cup {Null} /\ up
          /\ NotSaving \notin Connections /\ Null \notin Connections
      BY <3>1, Running DEF TypeOK, Connections
    <3>3. saver # Null => ~Pooled(saver)
      BY <3>2 DEF ConnectionsApart
    <3>4. \A s \in Sessions : \A c \in Connections : held'[s] = c => held[s] = c /\ c # saver
      BY <3>1 DEF ConnectionsApart
    <3> QED BY <3>1, <3>2, <3>3, <3>4, PushApart
  <2> QED BY <1>2, <2>1, <2>2, <2>3 DEF AutoSave
<1>3. CASE Restart
  <2>1. Idle.at \notin AtWork
    BY DEF Idle, AtWork
  <2>2. \A s \in Sessions : handler[s] = Idle
    BY <1>3, Zenon DEF Restart, ConnectionsApart
  <2>3. \A s \in Sessions : held[s] # Null <=> handler[s].at \in AtWork
    BY Zenon DEF TypeOK
  <2>4. \A s \in Sessions : held[s] = Null
    BY <2>1, <2>2, <2>3, Zenon
  <2> QED BY <1>3, <2>4, NewPool DEF Restart, ConnectionsApart
<1>4. ASSUME NEW s \in Sessions, Client(s) PROVE ConnectionsApart'
  <2>1. UNCHANGED <<connections, held, saver, up, handler, playing>>
    BY <1>4 DEF Client, Connect, ClickTitle, ClickCreate, ClickSlot, ClickDelete,
       ClickEnter, Send, Arrives, SuccessLogin, CharacterList, Leave, server
  <2> QED BY <2>1, ApartFrame
<1>5. ASSUME NEW s \in Sessions, Handler(s) PROVE ConnectionsApart'
  <2>1. CASE \/ TryLogin(s) \/ CreateAccount(s) \/ CreateCharacter(s)
             \/ DeleteCharacter(s) \/ EnterRoom(s)
    <3>1. up
      BY <2>1 DEF TryLogin, CreateAccount, CreateCharacter, DeleteCharacter,
                  EnterRoom, Packet
    <3>2. Crash \/ \E h, rest : Take(s, h, rest)
      BY <2>1, Zenon DEF TryLogin, CreateAccount, CreateCharacter,
                         DeleteCharacter, EnterRoom
    <3> QED BY <3>1, <3>2, TakeApart, CrashApart
  <2>2. CASE Save(s) \/ SaveLeaver(s)
    <3>1. up
      BY <2>2, Running DEF Save, SaveLeaver, InRoom
    <3>2. \E h, rest : Take(s, h, rest)
      BY <2>2, Zenon DEF Save, SaveLeaver
    <3> QED BY <3>1, <3>2, TakeApart
  <2>3. CASE \/ Refuse(s) \/ LogIn(s) \/ CheckName(s) \/ InsertAccount(s)
             \/ Adopt(s) \/ CountSlot(s) \/ InsertPlayer(s) \/ DeletePlayer(s)
             \/ UncountSlot(s) \/ Reload(s)
    <3>1. handler[s].at # "idle" /\ UNCHANGED <<connections, held, saver, up>>
      BY <2>3 DEF Refuse, LogIn, CheckName, InsertAccount, Adopt, CountSlot,
         InsertPlayer, DeletePlayer, UncountSlot, Reload, Go, SetMyAccount
    <3> QED BY <3>1, Running, ApartFrame
  <2>4. CASE LoadingCharacterList(s) \/ LeaveRoom(s)
    <3>1. UNCHANGED <<connections, held, saver, up>> /\ up
      BY <2>4, Running DEF LoadingCharacterList, LeaveRoom, Packet, InRoom
    <3> QED BY <3>1, ApartFrame
  <2>5. CASE CloseSession(s)
    BY <2>5, ApartFrame DEF CloseSession
  <2>6. CASE RefuseQuest(s)
    BY <2>6, Running, PopApart DEF RefuseQuest, InRoom
  <2>7. CASE Release(s) \/ AddObject(s)
    <3>1. /\ handler[s].at # "idle" /\ Push(held[s])
          /\ held' = [held EXCEPT ![s] = Null] /\ UNCHANGED <<saver, up>>
      BY <2>7 DEF Release, AddObject
    <3>2. /\ held[s] \in Connections \cup {Null} /\ up /\ Null \notin Connections
      BY <3>1, Running DEF TypeOK, Connections
    <3>3. held[s] # Null => ~Pooled(held[s])
      BY <3>2 DEF ConnectionsApart
    <3>4. \A t \in Sessions : held'[t] = IF t = s THEN Null ELSE held[t]
      BY <3>1 DEF TypeOK
    <3>5. \A c \in Connections : saver' = c => saver = c /\ c # held[s]
      BY <3>1 DEF ConnectionsApart
    <3>6. \A t \in Sessions : \A c \in Connections : held'[t] = c => held[t] = c /\ c # held[s]
      BY <3>2, <3>4 DEF ConnectionsApart
    <3> QED BY <3>1, <3>2, <3>3, <3>5, <3>6, PushApart
  <2> QED BY <1>5, <2>1, <2>2, <2>3, <2>4, <2>5, <2>6, <2>7 DEF Handler
<1> QED BY <1>1, <1>2, <1>3, <1>4, <1>5 DEF Next

-----------------------------------------------------------------------------
(* Every step keeps the types with what they rest on.                      *)
LEMMA TStep == TInv /\ [Next]_vars => TInv'
<1> SUFFICES ASSUME TInv, [Next]_vars PROVE TInv'
  OBVIOUS
<1> USE DEF TInv
<1>1. ConnectionsApart'
  BY ApartStep
<1>2. TypeOK' /\ LoggedIn' /\ RowsOwned'
  <2>1. CASE UNCHANGED vars
    BY <2>1 DEF vars, rows, server, client, TypeOK, LoggedIn, RowsOwned
  <2>2. CASE AutoSave \/ Restart
    BY <2>2, SystemTypes, QuietRows
  <2>3. ASSUME NEW s \in Sessions, Client(s) PROVE TypeOK' /\ LoggedIn' /\ RowsOwned'
    BY <2>3, ClientTypes, QuietRows
  <2>4. ASSUME NEW s \in Sessions, Handler(s) PROVE TypeOK' /\ LoggedIn' /\ RowsOwned'
    <3>1. TypeOK' /\ LoggedIn'
      BY <2>4, TakersTypes, StatementsTypes, HandlersTypes DEF Handler
    <3>2. RowsOwned'
      BY <2>4, TakersRows, QuietRows, ActiveRows DEF Handler
    <3> QED BY <3>1, <3>2
  <2> QED BY <2>1, <2>2, <2>3, <2>4 DEF Next
<1> QED BY <1>1, <1>2

(* TypeOK and what it rests on, for any number of connections.             *)
THEOREM Invariance == Spec => []TInv
<1>1. Init => TInv
  BY InitTypes, InitApart DEF TInv
<1> QED BY <1>1, TStep, PTL DEF Spec

(* A handler has a connection just while it works on the database, and an  *)
(* account whenever it works on one, however sessions, the auto-save,      *)
(* refused quests, crashes and restarts interleave.                        *)
THEOREM TypeCorrect == Spec => []TypeOK
BY Invariance, PTL DEF TInv

(* No database connection is ever used by two threads at once.             *)
THEOREM NoSharedConnection == Spec => []ConnectionsApart
BY Invariance, PTL DEF TInv

-----------------------------------------------------------------------------
(* With one connection at most one handler is between two statements, so   *)
(* nobody gives a name between MakeAccount's look and its INSERT.          *)
LEMMA OneAtWork ==
  ASSUME ConnectionCount = 1, TypeOK, ConnectionsApart,
         NEW s \in Sessions, NEW t \in Sessions,
         handler[s].at \in AtWork, handler[t].at \in AtWork
  PROVE s = t
<1>1. \A r \in Sessions : handler[r].at \in AtWork => held[r] = 1
  <2>1. \A r \in Sessions : held[r] # Null <=> handler[r].at \in AtWork
    BY Zenon DEF TypeOK
  <2>2. \A r \in Sessions : held[r] \in Connections \cup {Null}
    BY DEF TypeOK
  <2> QED BY <2>1, <2>2 DEF Connections
<1>2. 1 \in Connections
  BY DEF Connections
<1> QED BY <1>1, <1>2, Zenon DEF ConnectionsApart

(* A step that gives no name and sends nobody to the INSERT.               *)
LEMMA NamesFrame ==
  ASSUME NameIsFree, DOMAIN accounts' = DOMAIN accounts,
         \A a \in DOMAIN accounts : accounts'[a].name = accounts[a].name,
         \A s \in Sessions : handler'[s].at = "insert" => handler'[s] = handler[s]
  PROVE NameIsFree'
BY DEF NameIsFree

LEMMA NameStep ==
  ASSUME ConnectionCount = 1, TypeOK, ConnectionsApart, NameIsFree, [Next]_vars
  PROVE NameIsFree'
<1>1. ASSUME Crash PROVE NameIsFree'
  BY <1>1 DEF Crash, NameIsFree, Idle
<1>2. ASSUME UNCHANGED <<accounts, handler>> PROVE NameIsFree'
  BY <1>2 DEF NameIsFree
<1>3. ASSUME NEW s \in Sessions, NEW h, h.at # "insert", handler' = [handler EXCEPT ![s] = h],
             DOMAIN accounts' = DOMAIN accounts,
             \A a \in DOMAIN accounts : accounts'[a].name = accounts[a].name
      PROVE NameIsFree'
  <2>1. \A t \in Sessions : handler'[t] = IF t = s THEN h ELSE handler[t]
    BY <1>3 DEF TypeOK
  <2> QED BY <1>3, <2>1, NamesFrame
<1>4. ASSUME NEW s \in Sessions, NEW h, NEW rest, h.at # "insert", Take(s, h, rest)
      PROVE NameIsFree'
  <2>1. CASE Popped = Null
    BY <1>4, <2>1, <1>1 DEF Take
  <2>2. CASE Popped # Null
    <3>1. handler' = [handler EXCEPT ![s] = h] /\ accounts' = accounts
      BY <1>4, <2>2 DEF Take, rows
    <3> QED BY <1>3, <1>4, <3>1
  <2> QED BY <2>1, <2>2
<1>5. CASE UNCHANGED vars \/ Restart \/ SaveAllPlayerDb \/ SaverDone
  BY <1>5, <1>2 DEF vars, rows, Restart, SaveAllPlayerDb, SaverDone
<1>6. CASE SavePlayersWithout
  BY <1>6, <1>1 DEF SavePlayersWithout
<1>7. ASSUME NEW s \in Sessions, Client(s) PROVE NameIsFree'
  BY <1>7, <1>2 DEF Client, Connect, ClickTitle, ClickCreate, ClickSlot, ClickDelete,
     ClickEnter, Send, Arrives, SuccessLogin, CharacterList, Leave, rows
<1>8. ASSUME NEW s \in Sessions, Handler(s) PROVE NameIsFree'
  <2>1. CASE TryLogin(s)
    BY <2>1, <1>4 DEF TryLogin, At, Idle
  <2>2. CASE CreateAccount(s)
    BY <2>2, <1>4 DEF CreateAccount, At, Idle
  <2>3. CASE CreateCharacter(s)
    BY <2>3, <1>4 DEF CreateCharacter, At, Idle
  <2>4. CASE DeleteCharacter(s)
    <3> DEFINE h == [At("delete") EXCEPT !.id = loaded[s][Head(toServer[s]).slot + 1].id]
    <3>1. Crash \/ Take(s, h, Rest(s))
      BY <2>4 DEF DeleteCharacter
    <3>2. h.at # "insert"
      BY DEF At, Idle
    <3> HIDE DEF h
    <3> QED BY <3>1, <3>2, <1>1, <1>4
  <2>5. CASE EnterRoom(s)
    <3> DEFINE h == [At("enter") EXCEPT !.id = loaded[s][Head(toServer[s]).slot + 1].id]
    <3>1. Crash \/ Take(s, h, Rest(s))
      BY <2>5 DEF EnterRoom
    <3>2. h.at # "insert"
      BY DEF At, Idle
    <3> HIDE DEF h
    <3> QED BY <3>1, <3>2, <1>1, <1>4
  <2>6. CASE Save(s) \/ SaveLeaver(s)
    BY <2>6, <1>4 DEF Save, SaveLeaver, At, Idle
  <2>7. CASE LoadingCharacterList(s) \/ RefuseQuest(s) \/ CloseSession(s)
    BY <2>7, <1>2 DEF LoadingCharacterList, RefuseQuest, CloseSession, rows
  <2>8. CASE \/ Refuse(s) \/ LogIn(s) \/ Adopt(s) \/ InsertPlayer(s) \/ DeletePlayer(s)
             \/ Reload(s) \/ Release(s) \/ AddObject(s) \/ LeaveRoom(s)
    <3>1. /\ \E at \in {"done", "welcome", "reload", "uncount", "list", "idle", "left"} :
               handler' = [handler EXCEPT ![s] = At(at)]
          /\ accounts' = accounts
      BY <2>8 DEF Refuse, LogIn, Adopt, InsertPlayer, DeletePlayer, Reload, Release,
         AddObject, LeaveRoom, Go, SetMyAccount, rows, At, Idle
    <3> QED BY <3>1, <1>3 DEF At, Idle
  <2>9. CASE CountSlot(s) \/ UncountSlot(s)
    <3>1. /\ \E at \in {"insertPlayer", "reload"} : handler' = [handler EXCEPT ![s] = At(at)]
          /\ \E n : accounts' = [accounts EXCEPT ![account[s]].slots = n]
      BY <2>9 DEF CountSlot, UncountSlot, Go
    <3>2. accounts \in Seq([name : Names, slots : Int])
      BY DEF TypeOK
    <3>3. DOMAIN accounts' = DOMAIN accounts
          /\ \A a \in DOMAIN accounts : accounts'[a].name = accounts[a].name
      BY <3>1, <3>2
    <3> QED BY <3>1, <3>3, <1>3 DEF At, Idle
  <2>10. CASE CheckName(s)
    <3>1. CASE \E a \in DOMAIN accounts : accounts[a].name = handler[s].name
      BY <2>10, <3>1, <1>3 DEF CheckName, Go, rows, At, Idle
    <3>2. CASE ~\E a \in DOMAIN accounts : accounts[a].name = handler[s].name
      <4>1. /\ handler' = [handler EXCEPT ![s] = [handler[s] EXCEPT !.at = "insert"]]
            /\ accounts' = accounts
        BY <2>10, <3>2 DEF CheckName, Go, rows
      <4>2. \A t \in Sessions : IF t = s THEN handler'[t].name = handler[s].name
                                ELSE handler'[t] = handler[t]
        BY <4>1 DEF TypeOK
      <4> QED BY <3>2, <4>1, <4>2 DEF NameIsFree
    <3> QED BY <3>1, <3>2
  <2>11. CASE InsertAccount(s)
    <3>1. /\ handler[s].at = "insert"
          /\ handler' = [handler EXCEPT ![s] = [handler[s] EXCEPT !.at = "adopt"]]
      BY <2>11 DEF InsertAccount, Go
    <3>2. \A t \in Sessions : handler[t].at = "insert" => t = s
      BY <3>1, OneAtWork DEF AtWork
    <3>3. \A t \in Sessions : IF t = s THEN handler'[t].at = "adopt"
                              ELSE handler'[t] = handler[t]
      BY <3>1 DEF TypeOK
    <3> QED BY <3>2, <3>3 DEF NameIsFree
  <2> QED BY <1>8, <2>1, <2>2, <2>3, <2>4, <2>5, <2>6, <2>7, <2>8, <2>9, <2>10, <2>11
          DEF Handler
<1> QED BY <1>5, <1>6, <1>7, <1>8 DEF Next, AutoSave

-----------------------------------------------------------------------------
(* The refinement.  What CharacterStore sees of the state:                 *)
NamesGiven == [a \in DOMAIN accounts |-> accounts[a].name]
Kept == {[id |-> p.id, owner |-> p.owner] : p \in players}

(* Nothing of it changes.                                                  *)
LEMMA StoreFrame ==
  ASSUME DOMAIN accounts' = DOMAIN accounts,
         \A a \in DOMAIN accounts : accounts'[a].name = accounts[a].name,
         UNCHANGED <<players, nextId, account>>
  PROVE UNCHANGED Store!vars
<1>1. NamesGiven' = NamesGiven
  BY DEF NamesGiven
<1>2. Kept' = Kept
  BY DEF Kept
<1> QED BY <1>1, <1>2 DEF Store!vars, NamesGiven, Kept

(* Some sessions lose their account.                                       *)
LEMMA StoreLogOut ==
  ASSUME NEW S \in SUBSET Sessions, UNCHANGED rows,
         account' = [s \in Sessions |-> IF s \in S THEN 0 ELSE account[s]]
  PROVE Store!Next
<1>1. UNCHANGED <<NamesGiven, Kept, nextId>>
  BY DEF NamesGiven, Kept, rows
<1>2. Store!LogOut(S)
  BY <1>1 DEF Store!LogOut, NamesGiven, Kept
<1> QED BY <1>2 DEF Store!Next

LEMMA StoreCrash == ASSUME Crash PROVE Store!Next
<1>1. UNCHANGED rows /\ account' = [s \in Sessions |-> IF s \in Sessions THEN 0 ELSE account[s]]
  BY DEF Crash
<1> QED BY <1>1, StoreLogOut

(* Steps that take a connection change nothing, or end the server.         *)
LEMMA StoreTake ==
  ASSUME NEW s, NEW h, NEW rest, Take(s, h, rest)
  PROVE Store!Next \/ UNCHANGED Store!vars
<1>1. CASE Popped = Null
  BY <1>1, StoreCrash DEF Take
<1>2. CASE Popped # Null
  BY <1>2, StoreFrame DEF Take, rows, server
<1> QED BY <1>1, <1>2

(* The INSERT of an account gives a name.                                  *)
LEMMA StoreRegister ==
  ASSUME TypeOK, NameIsFree, NEW s \in Sessions, InsertAccount(s)
  PROVE Store!Next
<1>1. PICK n \in Names : n = handler[s].name
  BY DEF InsertAccount, TypeOK
<1>2. /\ handler[s].at = "insert" /\ UNCHANGED <<players, nextId, account>>
      /\ accounts' = Append(accounts, [name |-> n, slots |-> 0])
  BY <1>1 DEF InsertAccount, Go, server
<1>3. \A i \in DOMAIN NamesGiven : NamesGiven[i] # n
  BY <1>2, <1>1 DEF NameIsFree, NamesGiven
<1>4. NamesGiven' = Append(NamesGiven, n)
  <2>1. /\ accounts \in Seq([name : Names, slots : Int])
        /\ [name |-> n, slots |-> 0] \in [name : Names, slots : Int]
    BY <1>1 DEF TypeOK
  <2>2. /\ DOMAIN accounts' = 1..(Len(accounts) + 1)
        /\ \A a \in 1..(Len(accounts) + 1) :
             accounts'[a] = IF a = Len(accounts) + 1 THEN [name |-> n, slots |-> 0]
                            ELSE accounts[a]
    BY <1>2, <2>1
  <2>3. /\ NamesGiven \in Seq(Names) /\ Len(NamesGiven) = Len(accounts)
        /\ \A a \in 1..Len(accounts) : NamesGiven[a] = accounts[a].name
    <3>1. /\ Len(accounts) \in Nat /\ DOMAIN accounts = 1..Len(accounts)
          /\ \A a \in 1..Len(accounts) : accounts[a].name \in Names
      <4>1. Len(accounts) \in Nat /\ DOMAIN accounts = 1..Len(accounts)
        BY <2>1
      <4>2. \A a \in 1..Len(accounts) : accounts[a] \in [name : Names, slots : Int]
        BY <2>1, ElementOfSeq
      <4> QED BY <4>1, <4>2
    <3>2. NamesGiven \in [1..Len(accounts) -> Names]
      BY <3>1 DEF NamesGiven
    <3> QED BY <3>1, <3>2, SeqDef DEF NamesGiven
  <2>4. NamesGiven' = [a \in 1..(Len(accounts) + 1) |-> accounts'[a].name]
    BY <2>2 DEF NamesGiven
  <2>5. Append(NamesGiven, n) =
          [a \in 1..(Len(accounts) + 1) |-> IF a = Len(accounts) + 1 THEN n ELSE NamesGiven[a]]
    BY <2>3, <1>1, Len(accounts) \in Nat
  <2>6. \A a \in 1..(Len(accounts) + 1) :
          accounts'[a].name = IF a = Len(accounts) + 1 THEN n ELSE NamesGiven[a]
    BY <2>1, <2>2, <2>3
  <2> QED BY <2>4, <2>5, <2>6
<1>5. Kept' = Kept
  BY <1>2 DEF Kept
<1>6. UNCHANGED <<Kept, nextId, account>>
  BY <1>2, <1>5
<1>7. Store!Register(n)
  BY <1>3, <1>4, <1>6, Zenon DEF Store!Register, NamesGiven, Kept
<1> QED BY <1>7 DEF Store!Next

(* The INSERT of a character makes it for the session's account.           *)
LEMMA StoreCreate ==
  ASSUME TypeOK, NEW s \in Sessions, InsertPlayer(s)
  PROVE Store!Next
<1>1. /\ handler[s].at = "insertPlayer" /\ UNCHANGED <<accounts, account>>
      /\ nextId' = nextId + 1
      /\ players' = players \cup {[id |-> nextId, owner |-> account[s], slot |-> Len(loaded[s])]}
  BY DEF InsertPlayer, Go, server
<1>2. account[s] # 0
  BY <1>1 DEF TypeOK, OfAccount
<1> DEFINE r == [id |-> nextId, owner |-> account[s], slot |-> Len(loaded[s])]
<1>3. Kept' = Kept \cup {[id |-> nextId, owner |-> account[s]]}
  <2>1. r.id = nextId /\ r.owner = account[s]
    OBVIOUS
  <2>2. players' = players \cup {r}
    BY <1>1
  <2> HIDE DEF r
  <2>3. Kept' = Kept \cup {[id |-> r.id, owner |-> r.owner]}
    BY <2>2 DEF Kept
  <2> QED BY <2>1, <2>3
<1>4. NamesGiven' = NamesGiven
  BY <1>1 DEF NamesGiven
<1>5. Store!Create(s)
  BY <1>1, <1>2, <1>3, <1>4 DEF Store!Create, NamesGiven, Kept
<1> QED BY <1>5 DEF Store!Next

(* The DELETE takes a character of the session's account, or none.         *)
LEMMA StoreDelete ==
  ASSUME TypeOK, RowsOwned, NEW s \in Sessions, DeletePlayer(s)
  PROVE Store!Next \/ UNCHANGED Store!vars
<1> DEFINE gone == {p \in players : p.id = handler[s].id}
<1>1. /\ handler[s].at = "delete" /\ UNCHANGED <<accounts, nextId, account>>
      /\ players' = players \ gone
  BY DEF DeletePlayer, server
<1>2. CASE gone = {}
  <2>1. players' = players
    BY <1>1, <1>2
  <2> QED BY <1>1, <2>1, StoreFrame
<1>3. CASE gone # {}
  <2>1. PICK p \in players : p.id = handler[s].id
    BY <1>3
  <2>2. p.owner = account[s] /\ \A q \in players : q.id = p.id => q = p
    BY <1>1, <2>1 DEF RowsOwned
  <2>3. gone = {p}
    BY <2>1, <2>2
  <2> DEFINE c == [id |-> p.id, owner |-> p.owner]
  <2>4. c \in Kept /\ c.owner = account[s]
    BY <2>2 DEF Kept
  <2>5. Kept' = Kept \ {c}
    BY <1>1, <2>2, <2>3 DEF Kept
  <2>6. NamesGiven' = NamesGiven
    BY <1>1 DEF NamesGiven
  <2> HIDE DEF c
  <2>7. Store!Delete(s, c)
    BY <1>1, <2>4, <2>5, <2>6 DEF Store!Delete, NamesGiven, Kept
  <2> QED BY <2>4, <2>7 DEF Store!Next, Kept
<1> QED BY <1>2, <1>3

(* A session takes the account that it has found, or goes.                 *)
LEMMA StoreSession ==
  ASSUME NEW s \in Sessions, TypeOK, LogIn(s) \/ Adopt(s) \/ CloseSession(s)
  PROVE Store!Next
<1>1. CASE LogIn(s) \/ Adopt(s)
  <2>1. PICK a \in DOMAIN accounts : account' = [account EXCEPT ![s] = a]
    BY <1>1 DEF LogIn, Adopt, SetMyAccount
  <2>2. UNCHANGED rows
    BY <1>1 DEF LogIn, Adopt, SetMyAccount
  <2>3. UNCHANGED <<NamesGiven, Kept, nextId>>
    BY <2>2 DEF NamesGiven, Kept, rows
  <2>4. Store!LogIn(s, a)
    BY <2>1, <2>3 DEF Store!LogIn, NamesGiven, Kept
  <2>5. a \in DOMAIN NamesGiven
    BY DEF NamesGiven
  <2> QED BY <2>4, <2>5 DEF Store!Next, NamesGiven
<1>2. CASE CloseSession(s)
  <2>1. account' = [t \in Sessions |-> IF t \in {s} THEN 0 ELSE account[t]] /\ UNCHANGED rows
    BY <1>2 DEF CloseSession, TypeOK
  <2> QED BY <2>1, StoreLogOut
<1> QED BY <1>1, <1>2

(* Each step is a step of the store, or changes nothing that it sees.      *)
LEMMA StoreStep ==
  ASSUME TypeOK, RowsOwned, NameIsFree, [Next]_vars
  PROVE [Store!Next]_(Store!vars)
<1>1. ASSUME UNCHANGED <<accounts, players, nextId, account>> PROVE UNCHANGED Store!vars
  BY <1>1, StoreFrame
<1>2. CASE UNCHANGED vars \/ Restart \/ SaveAllPlayerDb \/ SaverDone
  BY <1>2, <1>1 DEF vars, rows, server, Restart, SaveAllPlayerDb, SaverDone
<1>3. CASE SavePlayersWithout
  BY <1>3, StoreCrash DEF SavePlayersWithout
<1>4. ASSUME NEW s \in Sessions, Client(s) PROVE UNCHANGED Store!vars
  BY <1>4, <1>1 DEF Client, Connect, ClickTitle, ClickCreate, ClickSlot, ClickDelete,
     ClickEnter, Send, Arrives, SuccessLogin, CharacterList, Leave, rows, server
<1>5. ASSUME NEW s \in Sessions, Handler(s) PROVE Store!Next \/ UNCHANGED Store!vars
  <2>1. CASE \/ TryLogin(s) \/ CreateAccount(s) \/ CreateCharacter(s)
             \/ DeleteCharacter(s) \/ EnterRoom(s) \/ Save(s) \/ SaveLeaver(s)
    <3>1. Crash \/ \E h, rest : Take(s, h, rest)
      BY <2>1, Zenon DEF TryLogin, CreateAccount, CreateCharacter, DeleteCharacter,
                         EnterRoom, Save, SaveLeaver
    <3> QED BY <3>1, StoreTake, StoreCrash
  <2>2. CASE InsertAccount(s)
    BY <2>2, StoreRegister
  <2>3. CASE InsertPlayer(s)
    BY <2>3, StoreCreate
  <2>4. CASE DeletePlayer(s)
    BY <2>4, StoreDelete
  <2>5. CASE LogIn(s) \/ Adopt(s) \/ CloseSession(s)
    BY <2>5, StoreSession
  <2>6. CASE CountSlot(s) \/ UncountSlot(s)
    <3>1. /\ \E n : accounts' = [accounts EXCEPT ![account[s]].slots = n]
          /\ UNCHANGED <<players, nextId, account>>
      BY <2>6 DEF CountSlot, UncountSlot, Go, server
    <3>2. accounts \in Seq([name : Names, slots : Int])
      BY DEF TypeOK
    <3>3. DOMAIN accounts' = DOMAIN accounts
          /\ \A a \in DOMAIN accounts : accounts'[a].name = accounts[a].name
      BY <3>1, <3>2
    <3> QED BY <3>1, <3>3, StoreFrame
  <2>7. CASE \/ Refuse(s) \/ CheckName(s) \/ LoadingCharacterList(s) \/ Reload(s)
             \/ Release(s) \/ AddObject(s) \/ RefuseQuest(s) \/ LeaveRoom(s)
    BY <2>7, <1>1 DEF Refuse, CheckName, LoadingCharacterList, Reload, Release,
       AddObject, RefuseQuest, LeaveRoom, Go, rows, server
  <2> QED BY <1>5, <2>1, <2>2, <2>3, <2>4, <2>5, <2>6, <2>7 DEF Handler
<1> QED BY <1>2, <1>3, <1>4, <1>5, Zenon DEF Next, AutoSave

(* With the one connection that main() opens, the account service keeps    *)
(* the promise of CharacterStore, although MakeAccount looks for the name  *)
(* and inserts it in two statements, and handlers, refused quests, the     *)
(* auto-save and crashes interleave.                                       *)
THEOREM Implements ==
  ASSUME ConnectionCount = 1
  PROVE Spec => StoreSpec
<1>1. Init => Store!Init
  <2> SUFFICES ASSUME Init PROVE Store!Init
    OBVIOUS
  <2>1. NamesGiven = <<>> /\ Kept = {}
    BY DEF Init, NamesGiven, Kept
  <2> QED BY <2>1 DEF Init, Store!Init, NamesGiven, Kept
<1>2. Init => IInv
  BY InitTypes, InitApart DEF IInv, TInv
<1>3. IInv /\ [Next]_vars => IInv'
  BY TStep, NameStep DEF IInv, TInv
<1>4. IInv /\ [Next]_vars => [Store!Next]_(Store!vars)
  BY StoreStep DEF IInv, TInv
<1> QED BY <1>1, <1>2, <1>3, <1>4, PTL DEF Spec, StoreSpec, Store!Spec
=============================================================================
