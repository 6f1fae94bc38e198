------------------------------ MODULE LobbyProofs ------------------------------
(***************************************************************************)
(* Proofs that, with the one connection of main(), what a session and its  *)
(* client believe of an account's characters is what the database holds:   *)
(* the list of a session, UsingPlayerSlot, and the slots a client names.   *)
(***************************************************************************)
EXTENDS AccountsProofs

(* Every character's owner is an account.                                  *)
OwnersExist == \A p \in players : p.owner \in DOMAIN accounts

(* Two sessions are in one account only if that is on record.              *)
Alone ==
  \A s, t \in Sessions :
    s # t /\ account[s] # 0 /\ account[s] = account[t] => account[s] \in shared

(* The list of a session is the account's, but between the statements that *)
(* change the rows and the one that reads them again.                      *)
Known ==
  \A s \in Sessions :
    account[s] # 0 /\ account[s] \notin shared /\ handler[s].at \notin {"uncount", "reload"}
      => loaded[s] \in Listed(RowsOf(account[s]))

(* An account that was inserted and not adopted yet has no characters.     *)
Blank ==
  \A s \in Sessions : handler[s].at = "adopt" =>
    \A a \in DOMAIN accounts : accounts[a].name = handler[s].name => RowsOf(a) = {}

(* What a session is about to delete is there.                             *)
Deletable ==
  \A s \in Sessions :
    handler[s].at = "delete" /\ account[s] \notin shared =>
      \E p \in RowsOf(account[s]) : p.id = handler[s].id

(* Where the row is still to come, or already gone, UsingPlayerSlot is     *)
(* above the number of rows.                                               *)
Counted ==
  /\ \A a \in DOMAIN accounts \ shared : accounts[a].slots >= Cardinality(RowsOf(a))
  /\ \A s \in Sessions :
       handler[s].at \in {"insertPlayer", "uncount"} /\ account[s] \notin shared =>
         accounts[account[s]].slots > Cardinality(RowsOf(account[s]))

(* The slots of an account's characters are their places in the list.      *)
Numbered ==
  \A a \in DOMAIN accounts \ (shared \cup holed) :
    \A v \in Listed(RowsOf(a)) : \A i \in DOMAIN v : v[i].slot = i - 1

Books ==
  OwnersExist /\ Alone /\ Known /\ Blank /\ Deletable /\ Counted /\ Numbered

-----------------------------------------------------------------------------
(* Lists of rows.                                                          *)

(* The rows of an account.                                                 *)
LEMMA RowsAre ==
  ASSUME TypeOK, RowsOwned, NEW a
  PROVE  /\ RowsOf(a) \subseteq players /\ RowsOf(a) \subseteq Character
         /\ IsFiniteSet(RowsOf(a)) /\ Cardinality(RowsOf(a)) \in Nat
<1>1. RowsOf(a) \subseteq players
  BY DEF RowsOf
<1>2. IsFiniteSet(RowsOf(a))
  BY <1>1, FS_Subset DEF RowsOwned
<1> QED BY <1>1, <1>2, FS_CardinalityType DEF TypeOK

(* A list of rows holds all of them.                                       *)
LEMMA ListHoldsAll ==
  ASSUME NEW R \in SUBSET Character, IsFiniteSet(R), NEW v \in Listed(R)
  PROVE  \A r \in R : \E i \in DOMAIN v : v[i] = r
<1> DEFINE n == Cardinality(R)
<1>1. n \in Nat
  BY FS_CardinalityType
<1>2. v \in [1..n -> R] /\ \A i, j \in 1..n : i < j => v[i].id < v[j].id
  BY DEF Listed
<1>3. IsFiniteSet(1..n) /\ Cardinality(1..n) = n
  BY <1>1, FS_Interval
<1> HIDE DEF n
<1>4. v \in Injection(1..n, R)
  <2>1. ASSUME NEW i \in 1..n, NEW j \in 1..n, i # j PROVE v[i] # v[j]
    <3>1. v[i].id \in Nat /\ v[j].id \in Nat
      BY <1>2 DEF Character
    <3>2. i < j \/ j < i
      BY <1>1, <2>1
    <3> QED BY <1>2, <3>1, <3>2
  <2> QED BY <1>2, <2>1 DEF Injection, IsInjective
<1>5. v \in Surjection(1..n, R)
  BY <1>3, <1>4, FS_Injection DEF n
<1> QED BY <1>2, <1>5 DEF Surjection

(* The list of no rows.                                                    *)
LEMMA EmptyList == <<>> \in Listed({})
<1>1. Cardinality({}) = 0
  BY FS_EmptySet
<1>2. <<>> \in [1..0 -> {}] /\ DOMAIN <<>> = {}
  OBVIOUS
<1> QED BY <1>1, <1>2 DEF Listed

(* A row with an id above all others is the last of every list ...         *)
LEMMA ListWithNew ==
  ASSUME NEW R \in SUBSET Character, IsFiniteSet(R),
         NEW r \in Character, \A q \in R : q.id < r.id,
         NEW v \in Listed(R \cup {r})
  PROVE  /\ DOMAIN v = 1..(Cardinality(R) + 1)
         /\ v[Cardinality(R) + 1] = r
         /\ [i \in 1..Cardinality(R) |-> v[i]] \in Listed(R)
<1> DEFINE n == Cardinality(R)
<1>1. n \in Nat
  BY FS_CardinalityType
<1>2. r \notin R /\ \A q \in R : q.id \in Nat /\ r.id \in Nat
  BY DEF Character
<1>3. Cardinality(R \cup {r}) = n + 1 /\ IsFiniteSet(R \cup {r})
  BY <1>2, FS_AddElement
<1>4. /\ v \in [1..(n + 1) -> R \cup {r}]
      /\ \A i, j \in 1..(n + 1) : i < j => v[i].id < v[j].id
  BY <1>3 DEF Listed
<1>5. PICK k \in 1..(n + 1) : v[k] = r
  <2>1. R \cup {r} \in SUBSET Character /\ r \in R \cup {r}
    OBVIOUS
  <2>2. \A q \in R \cup {r} : \E i \in DOMAIN v : v[i] = q
    BY <1>3, <2>1, ListHoldsAll
  <2> QED BY <1>4, <2>1, <2>2
<1> HIDE DEF n
<1>6. k = n + 1
  <2> SUFFICES ASSUME k < n + 1 PROVE FALSE
    BY <1>1
  <2>1. r.id < v[n + 1].id
    BY <1>1, <1>4, <1>5
  <2>2. v[n + 1] \in R \cup {r} /\ r.id \in Nat
    BY <1>1, <1>4 DEF Character
  <2>3. v[n + 1].id \in Nat
    BY <1>2, <2>2
  <2> QED BY <2>1, <2>2, <2>3
<1>7. \A i \in 1..n : v[i] \in R
  <2> SUFFICES ASSUME NEW i \in 1..n, v[i] = r PROVE FALSE
    BY <1>1, <1>4
  <2>1. v[i].id < v[n + 1].id
    BY <1>1, <1>4
  <2> QED BY <1>5, <1>6, <2>1 DEF Character
<1> DEFINE w == [i \in 1..n |-> v[i]]
<1>8. w \in Listed(R)
  <2>1. w \in [1..n -> R]
    BY <1>7
  <2>2. \A i, j \in 1..n : i < j => w[i].id < w[j].id
    BY <1>1, <1>4
  <2> HIDE DEF w
  <2> QED BY <2>1, <2>2 DEF Listed, n
<1> QED BY <1>4, <1>5, <1>6, <1>8 DEF n

(* ... and such a row can be put at the end of a list of the others.       *)
LEMMA ListWithoutLast ==
  ASSUME NEW R \in SUBSET Character, IsFiniteSet(R),
         NEW p \in R, \A q \in R \ {p} : q.id < p.id,
         NEW v \in Listed(R \ {p})
  PROVE  /\ DOMAIN v = 1..(Cardinality(R) - 1)
         /\ [i \in 1..Cardinality(R) |-> IF i < Cardinality(R) THEN v[i] ELSE p] \in Listed(R)
<1> DEFINE n == Cardinality(R)
<1>1. n \in Nat
  BY FS_CardinalityType
<1>2. Cardinality(R \ {p}) = n - 1
  BY FS_RemoveElement
<1>3. /\ v \in [1..(n - 1) -> R \ {p}]
      /\ \A i, j \in 1..(n - 1) : i < j => v[i].id < v[j].id
  BY <1>2 DEF Listed
<1> HIDE DEF n
<1> DEFINE w == [i \in 1..n |-> IF i < n THEN v[i] ELSE p]
<1>4. \A i \in 1..n : i < n => i \in 1..(n - 1) /\ v[i] \in R \ {p}
  BY <1>1, <1>3
<1>5. w \in [1..n -> R]
  BY <1>4
<1>6. ASSUME NEW i \in 1..n, NEW j \in 1..n, i < j PROVE w[i].id < w[j].id
  <2>1. i < n /\ w[i] = v[i]
    BY <1>1, <1>6
  <2>2. CASE j < n
    BY <1>3, <1>4, <1>6, <2>1, <2>2
  <2>3. CASE ~(j < n)
    BY <1>4, <2>1, <2>3
  <2> QED BY <2>2, <2>3
<1>7. w \in Listed(R)
  <2> HIDE DEF w
  <2> QED BY <1>1, <1>5, <1>6 DEF Listed, n
<1> QED BY <1>3, <1>7 DEF n

-----------------------------------------------------------------------------
(* Steps that change no row and load no list: at most sessions go.         *)

Midway == {"adopt", "insertPlayer", "delete", "uncount", "reload"}

Calm ==
  /\ UNCHANGED <<rows, shared, holed>>
  /\ \A s \in Sessions :
       /\ \/ account'[s] = 0
          \/ account'[s] = account[s] /\ loaded'[s] = loaded[s]
       /\ \/ handler'[s] = handler[s]
          \/ /\ handler'[s].at \notin Midway
             /\ handler[s].at \notin {"uncount", "reload"} \/ account'[s] = 0

LEMMA CalmKeeps ==
  ASSUME TypeOK, TypeOK', Books, Calm
  PROVE  Books'
<1>1. /\ \A a : RowsOf(a)' = RowsOf(a)
      /\ UNCHANGED <<accounts, players, shared, holed>>
  BY DEF Calm, rows, RowsOf
<1>2. \A s \in Sessions : handler'[s].at \in {"insertPlayer", "uncount", "delete"} =>
        account'[s] = account[s] /\ handler'[s] = handler[s]
  BY DEF Calm, Midway, TypeOK, OfAccount
<1>3. \A s \in Sessions : handler'[s].at = "adopt" => handler'[s] = handler[s]
  BY DEF Calm, Midway
<1>4. OwnersExist' /\ Alone'
  BY <1>1 DEF Books, OwnersExist, Alone, Calm
<1>5. Known'
  BY <1>1 DEF Books, Known, Calm
<1>6. Blank' /\ Deletable'
  BY <1>1, <1>2, <1>3 DEF Books, Blank, Deletable
<1>7. Counted' /\ Numbered'
  BY <1>1, <1>2 DEF Books, Counted, Numbered
<1> QED BY <1>4, <1>5, <1>6, <1>7 DEF Books

LEMMA CalmCrash == ASSUME Crash PROVE Calm
BY DEF Crash, Calm, history, Idle, Midway

(* A handler that takes a connection and is not about to delete.           *)
LEMMA CalmTake ==
  ASSUME TypeOK, NEW s \in Sessions, NEW h, NEW rest, Take(s, h, rest),
         h.at \notin Midway, handler[s].at \notin {"uncount", "reload"}
  PROVE  Calm
<1>1. CASE Popped = Null
  BY <1>1, CalmCrash DEF Take
<1>2. CASE Popped # Null
  <2>1. handler' = [handler EXCEPT ![s] = h] /\ UNCHANGED <<rows, history, account, loaded>>
    BY <1>2 DEF Take, server
  <2> QED BY <2>1 DEF Calm, history, TypeOK
<1> QED BY <1>1, <1>2

LEMMA CalmTakers ==
  ASSUME TypeOK, NEW s \in Sessions,
         \/ TryLogin(s) \/ CreateAccount(s) \/ CreateCharacter(s)
         \/ EnterRoom(s) \/ Save(s) \/ SaveLeaver(s)
  PROVE  Calm
<1>1. handler[s].at \notin {"uncount", "reload"}
  BY DEF TryLogin, CreateAccount, CreateCharacter, EnterRoom, Save, SaveLeaver, Packet,
         InRoom, Idle
<1>2. CASE TryLogin(s)
  <2> DEFINE h == [At("check") EXCEPT !.name = Head(toServer[s]).name]
  <2>1. Take(s, h, Rest(s)) /\ h.at = "check"
    BY <1>2 DEF TryLogin, At, Idle
  <2> HIDE DEF h
  <2> QED BY <1>1, <2>1, CalmTake DEF Midway
<1>3. CASE CreateAccount(s)
  <2> DEFINE h == [At("exists") EXCEPT !.name = Head(toServer[s]).name]
  <2>1. Take(s, h, Rest(s)) /\ h.at = "exists"
    BY <1>3 DEF CreateAccount, At, Idle
  <2> HIDE DEF h
  <2> QED BY <1>1, <2>1, CalmTake DEF Midway
<1>4. CASE CreateCharacter(s) \/ Save(s) \/ SaveLeaver(s)
  <2>1. PICK l \in {"count", "done"}, rest \in {Rest(s), toServer[s], <<>>} :
          Take(s, At(l), rest)
    BY <1>4, Zenon DEF CreateCharacter, Save, SaveLeaver
  <2>2. At(l).at \notin Midway
    BY DEF At, Idle, Midway
  <2> QED BY <1>1, <2>1, <2>2, CalmTake
<1>5. CASE EnterRoom(s)
  <2> DEFINE h == [At("enter") EXCEPT !.id = loaded[s][Head(toServer[s]).slot + 1].id]
  <2>1. Crash \/ Take(s, h, Rest(s))
    BY <1>5 DEF EnterRoom
  <2>2. h.at \notin Midway
    BY DEF At, Idle, Midway
  <2> HIDE DEF h
  <2> QED BY <1>1, <2>1, <2>2, CalmTake, CalmCrash
<1> QED BY <1>2, <1>3, <1>4, <1>5

LEMMA CalmHandlers ==
  ASSUME TypeOK, NEW s \in Sessions,
         \/ Refuse(s) \/ CheckName(s) \/ LoadingCharacterList(s) \/ Release(s)
         \/ AddObject(s) \/ RefuseQuest(s) \/ LeaveRoom(s) \/ CloseSession(s)
  PROVE  Calm
<1>1. CASE LoadingCharacterList(s) \/ RefuseQuest(s)
  BY <1>1 DEF LoadingCharacterList, RefuseQuest, Calm, history, server
<1>2. CASE CloseSession(s)
  BY <1>2 DEF CloseSession, Calm, history, TypeOK
<1>3. CASE Refuse(s) \/ Release(s) \/ AddObject(s) \/ LeaveRoom(s)
  <2>1. /\ \E l \in {"done", "idle", "left"} : handler' = [handler EXCEPT ![s] = At(l)]
        /\ handler[s].at \notin {"uncount", "reload"}
        /\ UNCHANGED <<rows, history, account, loaded>>
    BY <1>3 DEF Refuse, Release, AddObject, LeaveRoom, Go, InRoom, At, Idle, server, rows
  <2>2. \A l \in {"done", "idle", "left"} : At(l).at \notin Midway
    BY DEF At, Idle, Midway
  <2> QED BY <2>1, <2>2 DEF Calm, history, TypeOK
<1>4. CASE CheckName(s)
  <2>1. /\ handler[s].at = "exists"
        /\ \E h \in {At("done"), [handler[s] EXCEPT !.at = "insert"]} :
             handler' = [handler EXCEPT ![s] = h]
        /\ UNCHANGED <<rows, history, account, loaded>>
    BY <1>4, Zenon DEF CheckName, Go, server
  <2>2. handler'[s].at \notin Midway
    BY <2>1 DEF At, Idle, Midway, TypeOK
  <2> QED BY <2>1, <2>2 DEF Calm, history, TypeOK
<1> QED BY <1>1, <1>2, <1>3, <1>4

LEMMA CalmOthers ==
  ASSUME TypeOK,
         \/ UNCHANGED vars \/ AutoSave \/ Restart
         \/ \E s \in Sessions : Client(s)
  PROVE  Calm
<1>1. CASE SavePlayersWithout
  BY <1>1, CalmCrash DEF SavePlayersWithout
<1>2. CASE UNCHANGED <<rows, shared, holed, account, loaded, handler>>
  BY <1>2 DEF Calm
<1>3. CASE UNCHANGED vars \/ SaveAllPlayerDb \/ SaverDone \/ Restart
  BY <1>2, <1>3 DEF vars, SaveAllPlayerDb, SaverDone, Restart, history, server
<1>4. ASSUME NEW s \in Sessions, Client(s) PROVE Calm
  BY <1>2, <1>4 DEF Client, Connect, ClickTitle, ClickCreate, ClickSlot, ClickDelete,
     ClickEnter, Send, Arrives, SuccessLogin, CharacterList, Leave, history, server
<1> QED BY <1>1, <1>3, <1>4 DEF AutoSave

-----------------------------------------------------------------------------
(* Steps that load a list, or name what to delete from one.                *)

(* One handler goes on, the others stay.                                   *)
LEMMA HandlersAre ==
  ASSUME TypeOK, NEW s \in Sessions, NEW h, handler' = [handler EXCEPT ![s] = h]
  PROVE  handler'[s] = h /\ \A t \in Sessions \ {s} : handler'[t] = handler[t]
BY DEF TypeOK

(* A session is told an account's rows.                                    *)
LEMMA LoadKeeps ==
  ASSUME TypeOK, Books, NEW s \in Sessions, NEW a, NEW v \in Listed(RowsOf(a)),
         UNCHANGED <<rows, holed>>, shared' = SharedBy(s, a),
         account' = [account EXCEPT ![s] = a], loaded' = [loaded EXCEPT ![s] = v],
         NEW l \in {"welcome", "done", "list"}, handler' = [handler EXCEPT ![s] = At(l)]
  PROVE  Books'
<1>1. /\ \A b : RowsOf(b)' = RowsOf(b)
      /\ UNCHANGED <<accounts, players, holed>>
  BY DEF rows, RowsOf
<1>2. shared \subseteq shared'
  BY DEF SharedBy
<1>3. /\ handler'[s].at \notin Midway
      /\ \A t \in Sessions \ {s} : handler'[t] = handler[t]
  <2>1. handler'[s] = At(l) /\ \A t \in Sessions \ {s} : handler'[t] = handler[t]
    BY HandlersAre
  <2> QED BY <2>1 DEF At, Idle, Midway
<1>4. /\ account'[s] = a /\ loaded'[s] = v
      /\ \A t \in Sessions \ {s} : account'[t] = account[t] /\ loaded'[t] = loaded[t]
  BY DEF TypeOK
<1>5. OwnersExist'
  BY <1>1 DEF Books, OwnersExist
<1>6. Alone'
  <2>1. \A t \in Sessions \ {s} : account[t] = a => a \in shared'
    BY DEF SharedBy
  <2> QED BY <1>2, <1>4, <2>1 DEF Books, Alone
<1>7. Known'
  BY <1>1, <1>2, <1>3, <1>4 DEF Books, Known
<1>8. Blank' /\ Deletable'
  BY <1>1, <1>2, <1>3, <1>4 DEF Books, Blank, Deletable, Midway
<1>9. Counted' /\ Numbered'
  BY <1>1, <1>2, <1>3, <1>4 DEF Books, Counted, Numbered, Midway
<1> QED BY <1>5, <1>6, <1>7, <1>8, <1>9 DEF Books

(* Who logs in, adopts its new account or reads its rows again.            *)
LEMMA LoadersKeep ==
  ASSUME TypeOK, Books, NEW s \in Sessions, LogIn(s) \/ Adopt(s) \/ Reload(s)
  PROVE  Books'
<1>1. CASE LogIn(s)
  <2>1. PICK a \in DOMAIN accounts :
          \E v \in Listed(RowsOf(a)) : SetMyAccount(s, a, v)
    BY <1>1, Zenon DEF LogIn
  <2>2. PICK v \in Listed(RowsOf(a)) : SetMyAccount(s, a, v)
    BY <2>1
  <2>3. handler' = [handler EXCEPT ![s] = At("welcome")]
    BY <1>1 DEF LogIn
  <2> QED BY <2>2, <2>3, LoadKeeps DEF SetMyAccount
<1>2. CASE Adopt(s)
  <2>1. PICK a \in DOMAIN accounts :
          accounts[a].name = handler[s].name /\ SetMyAccount(s, a, <<>>)
    BY <1>2, Zenon DEF Adopt
  <2>2. handler[s].at = "adopt" /\ handler' = [handler EXCEPT ![s] = At("done")]
    BY <1>2 DEF Adopt
  <2>3. <<>> \in Listed(RowsOf(a))
    BY <2>1, <2>2, EmptyList DEF Books, Blank
  <2> QED BY <2>1, <2>2, <2>3, LoadKeeps DEF SetMyAccount
<1>3. CASE Reload(s)
  <2>1. PICK v \in Listed(RowsOf(account[s])) : loaded' = [loaded EXCEPT ![s] = v]
    BY <1>3 DEF Reload
  <2>2. /\ UNCHANGED <<rows, holed, shared, account>> /\ handler[s].at = "reload"
        /\ handler' = [handler EXCEPT ![s] = At("list")]
    BY <1>3 DEF Reload, history
  <2>3. account[s] # 0
    BY <2>2 DEF TypeOK, OfAccount
  <2>4. account' = [account EXCEPT ![s] = account[s]]
    BY <2>2 DEF TypeOK
  <2>5. shared' = SharedBy(s, account[s])
    BY <2>2, <2>3 DEF SharedBy, Books, Alone
  <2> QED BY <2>1, <2>2, <2>4, <2>5, LoadKeeps
<1> QED BY <1>1, <1>2, <1>3

(* What a session is to delete is on its list, so it is there.             *)
LEMMA DeleterKeeps ==
  ASSUME TypeOK, TypeOK', RowsOwned, Books, NEW s \in Sessions, DeleteCharacter(s)
  PROVE  Books'
<1> DEFINE k == Head(toServer[s]).slot + 1
           h == [At("delete") EXCEPT !.id = loaded[s][k].id]
<1>1. Crash \/ (k \in DOMAIN loaded[s] /\ Take(s, h, Rest(s)))
  BY DEF DeleteCharacter
<1>2. /\ h.at = "delete" /\ h.id = loaded[s][k].id
      /\ handler[s] = Idle
  BY DEF DeleteCharacter, Packet, At, Idle
<1> HIDE DEF k, h
<1>3. CASE Crash \/ Popped = Null
  BY <1>1, <1>3, CalmCrash, CalmKeeps DEF Take
<1>4. CASE k \in DOMAIN loaded[s] /\ Take(s, h, Rest(s)) /\ Popped # Null
  <2>1. /\ handler' = [handler EXCEPT ![s] = h]
        /\ UNCHANGED <<accounts, players, account, loaded, shared, holed>>
    BY <1>4 DEF Take, rows, server, history
  <2>2. \A a : RowsOf(a)' = RowsOf(a)
    BY <2>1 DEF RowsOf
  <2>3. handler'[s] = h /\ \A t \in Sessions \ {s} : handler'[t] = handler[t]
    BY <2>1, HandlersAre
  <2>4. account[s] # 0
    BY <1>2, <2>1, <2>3 DEF TypeOK, OfAccount
  <2>5. account[s] \notin shared => \E p \in RowsOf(account[s]) : p.id = h.id
    <3>1. account[s] \notin shared => loaded[s] \in Listed(RowsOf(account[s]))
      BY <1>2, <2>4 DEF Books, Known, Idle
    <3>2. account[s] \notin shared => loaded[s][k] \in RowsOf(account[s])
      <4> SUFFICES ASSUME account[s] \notin shared
                   PROVE  loaded[s][k] \in RowsOf(account[s])
        OBVIOUS
      <4>1. \A i \in DOMAIN loaded[s] :
              loaded[s][i] \in players /\ loaded[s][i].owner = account[s]
        BY <3>1, ListedIs
      <4> QED BY <1>4, <4>1 DEF RowsOf
    <3> QED BY <1>2, <3>2
  <2>6. Deletable'
    BY <2>1, <2>2, <2>3, <2>5 DEF Books, Deletable
  <2>7. OwnersExist' /\ Alone' /\ Known' /\ Blank'
    BY <1>2, <2>1, <2>2, <2>3 DEF Books, OwnersExist, Alone, Known, Blank, Idle
  <2>8. Counted' /\ Numbered'
    BY <1>2, <2>1, <2>2, <2>3 DEF Books, Counted, Numbered
  <2> QED BY <2>6, <2>7, <2>8 DEF Books
<1> QED BY <1>1, <1>3, <1>4

-----------------------------------------------------------------------------
(* Steps that change rows.                                                 *)

(* A new account has no rows.                                              *)
LEMMA InsertAccountKeeps ==
  ASSUME TypeOK, Books, NameIsFree, NEW s \in Sessions, InsertAccount(s)
  PROVE  Books'
<1> DEFINE n == Len(accounts) + 1
<1>1. /\ handler[s].at = "insert"
      /\ accounts' = Append(accounts, [name |-> handler[s].name, slots |-> 0])
      /\ UNCHANGED <<players, account, loaded, shared, holed>>
      /\ handler' = [handler EXCEPT ![s] = [handler[s] EXCEPT !.at = "adopt"]]
  BY DEF InsertAccount, Go, server, history
<1>2. /\ DOMAIN accounts' = DOMAIN accounts \cup {n} /\ n \notin DOMAIN accounts
      /\ accounts'[n].slots = 0 /\ 0 \notin DOMAIN accounts
      /\ \A a \in DOMAIN accounts : accounts'[a] = accounts[a]
  <2>1. accounts \in Seq([name : Names, slots : Int])
    BY DEF TypeOK
  <2> QED BY <1>1, <2>1
<1> HIDE DEF n
<1>3. (\A a : RowsOf(a)' = RowsOf(a)) /\ RowsOf(n) = {} /\ Cardinality(RowsOf(n)) = 0
  BY <1>1, <1>2, FS_EmptySet DEF RowsOf, Books, OwnersExist
<1>4. /\ handler'[s].at = "adopt" /\ handler'[s].name = handler[s].name
      /\ \A t \in Sessions \ {s} : handler'[t] = handler[t]
  BY <1>1 DEF TypeOK
<1>5. OwnersExist' /\ Alone'
  BY <1>1, <1>2 DEF Books, OwnersExist, Alone
<1>6. Known'
  BY <1>1, <1>3, <1>4 DEF Books, Known
<1>7. Blank'
  <2> SUFFICES ASSUME NEW t \in Sessions, handler'[t].at = "adopt",
                      NEW a \in DOMAIN accounts', accounts'[a].name = handler'[t].name
               PROVE  RowsOf(a)' = {}
    BY DEF Blank
  <2>1. CASE a = n
    BY <1>3, <2>1
  <2>2. CASE a # n
    <3>1. a \in DOMAIN accounts /\ accounts'[a] = accounts[a]
      BY <1>2, <2>2
    <3>2. t # s
      BY <1>1, <1>4, <3>1 DEF NameIsFree
    <3> QED BY <1>3, <1>4, <3>1, <3>2 DEF Books, Blank
  <2> QED BY <2>1, <2>2
<1>8. Deletable'
  BY <1>1, <1>3, <1>4 DEF Books, Deletable
<1>9. Counted'
  <2>1. \A t \in Sessions : handler[t].at \in {"insertPlayer", "uncount"} =>
          account[t] \in DOMAIN accounts
    BY DEF TypeOK, OfAccount
  <2>2. \A a \in DOMAIN accounts' \ shared' :
          accounts'[a].slots >= Cardinality(RowsOf(a)')
    <3> SUFFICES ASSUME NEW a \in DOMAIN accounts', a \notin shared
                 PROVE  accounts'[a].slots >= Cardinality(RowsOf(a))
      BY <1>1, <1>3
    <3>1. CASE a = n
      BY <1>2, <1>3, <3>1
    <3>2. CASE a # n
      <4>1. a \in DOMAIN accounts \ shared /\ accounts'[a] = accounts[a]
        BY <1>2, <3>2
      <4> QED BY <4>1 DEF Books, Counted
    <3> QED BY <3>1, <3>2
  <2>3. \A t \in Sessions :
          handler'[t].at \in {"insertPlayer", "uncount"} /\ account[t] \notin shared =>
            accounts'[account[t]].slots > Cardinality(RowsOf(account[t]))
    BY <1>2, <1>4, <2>1 DEF Books, Counted
  <2> QED BY <1>1, <1>3, <2>2, <2>3 DEF Counted
<1>10. Numbered'
  <2>1. \A v \in Listed({}) : DOMAIN v = {}
    BY FS_EmptySet DEF Listed
  <2> QED BY <1>1, <1>2, <1>3, <2>1 DEF Books, Numbered
<1> QED BY <1>5, <1>6, <1>7, <1>8, <1>9, <1>10 DEF Books

(* A statement that sets an account's UsingPlayerSlot.                     *)
LEMMA SlotsSet ==
  ASSUME TypeOK, NEW b \in DOMAIN accounts, NEW n \in Int,
         accounts' = [accounts EXCEPT ![b].slots = n]
  PROVE  /\ DOMAIN accounts' = DOMAIN accounts
         /\ accounts'[b].slots = n
         /\ \A a \in DOMAIN accounts : accounts'[a].name = accounts[a].name
         /\ \A a \in DOMAIN accounts \ {b} : accounts'[a].slots = accounts[a].slots
<1>1. accounts \in [DOMAIN accounts -> [name : Names, slots : Int]]
  <2>1. accounts \in Seq([name : Names, slots : Int])
    BY DEF TypeOK
  <2> QED BY <2>1, LenProperties
<1> QED BY <1>1

(* UsingPlayerSlot is one more before the row comes, and one less after it *)
(* has gone.                                                               *)
LEMMA CountersKeep ==
  ASSUME TypeOK, RowsOwned, Books, NEW s \in Sessions, CountSlot(s) \/ UncountSlot(s)
  PROVE  Books'
<1> DEFINE b == account[s]
<1>1. /\ b # 0 /\ b \in DOMAIN accounts
      /\ UNCHANGED <<players, account, loaded, shared, holed>>
  BY DEF CountSlot, UncountSlot, Go, server, history, TypeOK, OfAccount
<1>2. accounts \in Seq([name : Names, slots : Int])
  BY DEF TypeOK
<1>5. \A a : RowsOf(a)' = RowsOf(a)
  BY <1>1 DEF RowsOf
<1>6. accounts[b].slots \in Int /\ Cardinality(RowsOf(b)) \in Nat
  <2>1. Cardinality(RowsOf(b)) \in Nat
    BY RowsAre
  <2>2. accounts[b] \in [name : Names, slots : Int]
    BY <1>1, <1>2, LenProperties
  <2> QED BY <2>1, <2>2
<1> DEFINE more == accounts[b].slots + 1
           less == accounts[b].slots - 1
<1>12. /\ CountSlot(s) => accounts' = [accounts EXCEPT ![b].slots = more]
       /\ UncountSlot(s) => accounts' = [accounts EXCEPT ![b].slots = less]
       /\ more \in Int /\ less \in Int
  BY <1>6 DEF CountSlot, UncountSlot
<1> HIDE DEF more, less
<1>3. /\ DOMAIN accounts' = DOMAIN accounts
      /\ \A a \in DOMAIN accounts : accounts'[a].name = accounts[a].name
      /\ \A a \in DOMAIN accounts \ {b} : accounts'[a].slots = accounts[a].slots
  BY <1>1, <1>12, SlotsSet
<1>4. /\ CountSlot(s) => accounts'[b].slots = accounts[b].slots + 1
      /\ UncountSlot(s) => accounts'[b].slots = accounts[b].slots - 1
  BY <1>1, <1>12, SlotsSet DEF more, less
<1>7. /\ CountSlot(s) => handler[s].at = "count" /\ handler'[s].at = "insertPlayer"
      /\ UncountSlot(s) => handler[s].at = "uncount" /\ handler'[s].at = "reload"
      /\ handler[s].at \in {"count", "uncount"}
      /\ \A t \in Sessions \ {s} : handler'[t] = handler[t]
  <2>1. \E l \in {"insertPlayer", "reload"} : handler' = [handler EXCEPT ![s] = At(l)]
    BY DEF CountSlot, UncountSlot, Go
  <2>2. \A l \in {"insertPlayer", "reload"} : At(l).at = l
    BY DEF At, Idle
  <2>3. handler'[s] \in {At("insertPlayer"), At("reload")}
    BY <2>1, HandlersAre
  <2>4. \A t \in Sessions \ {s} : handler'[t] = handler[t]
    BY <2>1, HandlersAre
  <2>5. /\ CountSlot(s) => handler'[s] = At("insertPlayer") /\ handler[s].at = "count"
        /\ UncountSlot(s) => handler'[s] = At("reload") /\ handler[s].at = "uncount"
    BY HandlersAre DEF CountSlot, UncountSlot, Go
  <2> QED BY <2>2, <2>4, <2>5
<1> HIDE DEF b
<1>8. OwnersExist' /\ Alone'
  BY <1>1, <1>3 DEF Books, OwnersExist, Alone
<1>9. Known'
  BY <1>1, <1>5, <1>7 DEF Books, Known
<1>13. Blank' /\ Deletable'
  <2>1. \A t \in Sessions : handler'[t].at \in {"adopt", "delete"} =>
          handler'[t] = handler[t]
    BY <1>7
  <2> QED BY <1>1, <1>3, <1>5, <2>1 DEF Books, Blank, Deletable
<1>10. Counted'
  <2>1. \A t \in Sessions \ {s} : account[t] = b => b \in shared
    BY <1>1 DEF Books, Alone, b
  <2>2. \A t \in Sessions : handler[t].at \in {"insertPlayer", "uncount"} =>
          account[t] \in DOMAIN accounts
    BY DEF TypeOK, OfAccount
  <2>3. CASE CountSlot(s)
    <3>1. b \notin shared => accounts'[b].slots > Cardinality(RowsOf(b))
      BY <1>1, <1>4, <1>6, <2>3 DEF Books, Counted
    <3>2. \A a \in DOMAIN accounts' \ shared' :
            accounts'[a].slots >= Cardinality(RowsOf(a)')
      BY <1>1, <1>3, <1>4, <1>5, <1>6, <2>3 DEF Books, Counted
    <3>3. \A t \in Sessions :
            handler'[t].at \in {"insertPlayer", "uncount"} /\ account[t] \notin shared =>
              accounts'[account[t]].slots > Cardinality(RowsOf(account[t]))
      BY <1>1, <1>3, <1>5, <1>7, <2>1, <2>2, <3>1 DEF Books, Counted, b
    <3> QED BY <1>1, <1>5, <3>2, <3>3 DEF Counted
  <2>4. CASE UncountSlot(s)
    <3>1. b \notin shared => accounts[b].slots > Cardinality(RowsOf(b))
      BY <1>7, <2>4 DEF Books, Counted, b
    <3>2. b \notin shared => accounts'[b].slots >= Cardinality(RowsOf(b))
      BY <1>4, <1>6, <2>4, <3>1
    <3>3. \A a \in DOMAIN accounts' \ shared' :
            accounts'[a].slots >= Cardinality(RowsOf(a)')
      BY <1>1, <1>3, <1>5, <3>2 DEF Books, Counted
    <3>4. \A t \in Sessions :
            handler'[t].at \in {"insertPlayer", "uncount"} /\ account[t] \notin shared =>
              accounts'[account[t]].slots > Cardinality(RowsOf(account[t]))
      BY <1>1, <1>3, <1>5, <1>7, <2>1, <2>2, <2>4 DEF Books, Counted
    <3> QED BY <1>1, <1>5, <3>3, <3>4 DEF Counted
  <2> QED BY <2>3, <2>4
<1>11. Numbered'
  BY <1>1, <1>3, <1>5 DEF Books, Numbered
<1> QED BY <1>8, <1>9, <1>10, <1>11, <1>13 DEF Books

(* The rows of one account change.                                         *)
LEMMA OtherAccounts ==
  ASSUME TypeOK, Books, NEW s \in Sessions, account[s] # 0,
         UNCHANGED <<accounts, account, shared>>, holed \subseteq holed',
         handler[s].at \in AtWork, handler'[s].at \in {"uncount", "reload"},
         \A t \in Sessions \ {s} : handler'[t] = handler[t],
         \A t \in Sessions \ {s} : loaded'[t] = loaded[t],
         \A a : a # account[s] => RowsOf(a)' = RowsOf(a)
  PROVE  /\ Alone' /\ Known' /\ Deletable'
         /\ \A a \in DOMAIN accounts \ (shared \cup {account[s]}) :
              accounts[a].slots >= Cardinality(RowsOf(a)')
         /\ \A t \in Sessions \ {s} :
              handler[t].at \in {"insertPlayer", "uncount"} /\ account[t] \notin shared =>
                accounts[account[t]].slots > Cardinality(RowsOf(account[t])')
         /\ \A a \in DOMAIN accounts \ (shared \cup holed' \cup {account[s]}) :
              \A v \in Listed(RowsOf(a)') : \A i \in DOMAIN v : v[i].slot = i - 1
<1>1. \A t \in Sessions \ {s} : account[t] \notin shared => account[t] # account[s]
  BY DEF Books, Alone
<1>2. Alone'
  BY DEF Books, Alone
<1>3. \A t \in Sessions \ {s} : account[t] \notin shared =>
        RowsOf(account[t])' = RowsOf(account[t])
  BY <1>1
<1>4. Known'
  BY <1>3 DEF Books, Known
<1>5. Deletable'
  BY <1>3 DEF Books, Deletable
<1>6. \A a \in DOMAIN accounts \ (shared \cup {account[s]}) :
        accounts[a].slots >= Cardinality(RowsOf(a)')
  BY DEF Books, Counted
<1>7. \A t \in Sessions \ {s} :
        handler[t].at \in {"insertPlayer", "uncount"} /\ account[t] \notin shared =>
          accounts[account[t]].slots > Cardinality(RowsOf(account[t])')
  BY <1>3 DEF Books, Counted
<1>8. \A a \in DOMAIN accounts \ (shared \cup holed' \cup {account[s]}) :
        \A v \in Listed(RowsOf(a)') : \A i \in DOMAIN v : v[i].slot = i - 1
  BY DEF Books, Numbered
<1> QED BY <1>2, <1>4, <1>5, <1>6, <1>7, <1>8

(* The new row comes last, with the length of the list as its slot.        *)
LEMMA InsertPlayerKeeps ==
  ASSUME ConnectionCount = 1, TypeOK, RowsOwned, ConnectionsApart, Books,
         NEW s \in Sessions, InsertPlayer(s)
  PROVE  Books'
<1> DEFINE b == account[s]
           r == [id |-> nextId, owner |-> b, slot |-> Len(loaded[s])]
           R == RowsOf(b)
           n == Cardinality(R)
<1>1. /\ handler[s].at = "insertPlayer" /\ b # 0 /\ b \in DOMAIN accounts
      /\ players' = players \cup {r}
      /\ UNCHANGED <<accounts, account, loaded, shared, holed>>
      /\ handler' = [handler EXCEPT ![s] = At("reload")]
  BY DEF InsertPlayer, Go, server, history, TypeOK, OfAccount
<1>2. /\ handler'[s].at = "reload"
      /\ \A t \in Sessions \ {s} : handler'[t] = handler[t]
  <2>1. At("reload").at = "reload"
    BY DEF At, Idle
  <2>2. handler'[s] = At("reload")
    BY <1>1, HandlersAre
  <2>3. \A t \in Sessions \ {s} : handler'[t] = handler[t]
    BY <1>1, HandlersAre
  <2> QED BY <2>1, <2>2, <2>3
<1>3. r \in Character /\ r.owner = b /\ r.id = nextId /\ r.slot = Len(loaded[s])
  <2>1. accounts \in Seq([name : Names, slots : Int]) /\ loaded[s] \in Seq(Character)
    BY DEF TypeOK
  <2>2. b \in Nat /\ Len(loaded[s]) \in Nat /\ nextId \in Nat \ {0}
    BY <1>1, <2>1, LenProperties DEF TypeOK
  <2> QED BY <1>1, <2>2 DEF Character
<1>4. /\ \A a : a # b => RowsOf(a)' = RowsOf(a)
      /\ RowsOf(b)' = R \cup {r}
  BY <1>1, <1>3 DEF RowsOf
<1>5. /\ R \in SUBSET Character /\ IsFiniteSet(R) /\ n \in Nat
      /\ \A q \in R : q.id < r.id
  BY <1>3, RowsAre DEF RowsOwned
<1> HIDE DEF r, R, n
<1>6. Cardinality(R \cup {r}) = n + 1
  <2>1. r \notin R
    BY <1>3, <1>5 DEF Character
  <2> QED BY <1>5, <2>1, FS_AddElement DEF n
<1>7. /\ Alone' /\ Known' /\ Deletable'
      /\ \A a \in DOMAIN accounts \ (shared \cup {b}) :
           accounts[a].slots >= Cardinality(RowsOf(a)')
      /\ \A t \in Sessions \ {s} :
           handler[t].at \in {"insertPlayer", "uncount"} /\ account[t] \notin shared =>
             accounts[account[t]].slots > Cardinality(RowsOf(account[t])')
      /\ \A a \in DOMAIN accounts \ (shared \cup holed \cup {b}) :
           \A v \in Listed(RowsOf(a)') : \A i \in DOMAIN v : v[i].slot = i - 1
  <2>1. /\ holed \subseteq holed' /\ handler[s].at \in AtWork
        /\ handler'[s].at \in {"uncount", "reload"}
        /\ \A t \in Sessions \ {s} : loaded'[t] = loaded[t]
    BY <1>1, <1>2 DEF AtWork
  <2> QED BY <1>1, <1>2, <1>4, <2>1, OtherAccounts
<1>8. OwnersExist'
  BY <1>1, <1>3 DEF Books, OwnersExist
<1>9. Blank'
  <2>1. \A t \in Sessions \ {s} : handler'[t].at # "adopt"
    BY <1>1, <1>2, OneAtWork DEF AtWork
  <2> QED BY <1>2, <2>1 DEF Blank
<1>10. Counted'
  <2>1. b \notin shared => accounts[b].slots > n
    BY <1>1 DEF Books, Counted, R, n
  <2>2. accounts[b].slots \in Int
    <3>1. accounts \in Seq([name : Names, slots : Int])
      BY DEF TypeOK
    <3>2. accounts[b] \in [name : Names, slots : Int]
      BY <1>1, <3>1, LenProperties
    <3> QED BY <3>2
  <2>3. b \notin shared => accounts[b].slots >= Cardinality(RowsOf(b)')
    BY <1>4, <1>5, <1>6, <2>1, <2>2
  <2>4. \A a \in DOMAIN accounts \ shared : accounts[a].slots >= Cardinality(RowsOf(a)')
    <3> SUFFICES ASSUME NEW a \in DOMAIN accounts \ shared
                 PROVE  accounts[a].slots >= Cardinality(RowsOf(a)')
      OBVIOUS
    <3>1. CASE a = b
      <4>1. RowsOf(b)' = RowsOf(a)'
        BY <1>1, <3>1 DEF RowsOf
      <4> QED BY <2>3, <3>1, <4>1
    <3>2. CASE a # b
      BY <1>7, <3>2
    <3> QED BY <3>1, <3>2
  <2> QED BY <1>1, <1>2, <1>7, <2>4 DEF Counted
<1>11. Numbered'
  <2> SUFFICES ASSUME b \notin shared \cup holed,
                      NEW v \in Listed(R \cup {r}), NEW i \in DOMAIN v
               PROVE  v[i].slot = i - 1
    BY <1>1, <1>4, <1>7 DEF Numbered
  <2> DEFINE w == [j \in 1..n |-> v[j]]
  <2>1. DOMAIN v = 1..(n + 1) /\ v[n + 1] = r /\ w \in Listed(R)
    BY <1>3, <1>5, ListWithNew DEF n
  <2>2. CASE i = n + 1
    <3>1. loaded[s] \in Listed(R)
      BY <1>1 DEF Books, Known, R
    <3>2. loaded[s] \in [1..n -> R]
      BY <3>1 DEF Listed, n
    <3>3. loaded[s] \in Seq(Character)
      BY DEF TypeOK
    <3>4. Len(loaded[s]) = n
      BY <1>5, <3>2, <3>3, LenProperties
    <3> QED BY <1>3, <1>5, <2>1, <2>2, <3>4
  <2>3. CASE i # n + 1
    <3>1. i \in DOMAIN w /\ w[i] = v[i]
      BY <1>5, <2>1, <2>3
    <3>2. \A u \in Listed(R) : \A j \in DOMAIN u : u[j].slot = j - 1
      BY <1>1 DEF Books, Numbered, R
    <3> HIDE DEF w
    <3>3. w[i].slot = i - 1
      BY <2>1, <3>1, <3>2
    <3> QED BY <3>1, <3>3
  <2> QED BY <2>2, <2>3
<1> QED BY <1>7, <1>8, <1>9, <1>10, <1>11 DEF Books

(* The row that is deleted is the last, or its account is holed.           *)
LEMMA DeletePlayerKeeps ==
  ASSUME ConnectionCount = 1, TypeOK, RowsOwned, ConnectionsApart, Books,
         NEW s \in Sessions, DeletePlayer(s)
  PROVE  Books'
<1> DEFINE b == account[s]
           gone == {p \in players : p.id = handler[s].id}
           R == RowsOf(b)
           n == Cardinality(R)
<1>1. /\ handler[s].at = "delete" /\ b # 0 /\ b \in DOMAIN accounts
      /\ players' = players \ gone
      /\ holed' = holed \cup {a \in DOMAIN accounts :
                    \E p \in gone, q \in players :
                      p.owner = a /\ q.owner = a /\ q.id > p.id}
      /\ UNCHANGED <<accounts, account, loaded, shared>>
      /\ handler' = [handler EXCEPT ![s] = At("uncount")]
  BY DEF DeletePlayer, server, TypeOK, OfAccount
<1>2. /\ handler'[s].at = "uncount"
      /\ \A t \in Sessions \ {s} : handler'[t] = handler[t]
  <2>1. At("uncount").at = "uncount"
    BY DEF At, Idle
  <2>2. handler'[s] = At("uncount")
    BY <1>1, HandlersAre
  <2>3. \A t \in Sessions \ {s} : handler'[t] = handler[t]
    BY <1>1, HandlersAre
  <2> QED BY <2>1, <2>2, <2>3
<1>3. /\ \A p \in gone : p \in players /\ p.owner = b
      /\ \A p, q \in gone : p = q
  BY <1>1 DEF RowsOwned
<1>4. b \notin shared => \E p \in R : gone = {p}
  <2> SUFFICES ASSUME b \notin shared PROVE \E p \in R : gone = {p}
    OBVIOUS
  <2>1. PICK p \in R : p.id = handler[s].id
    BY <1>1 DEF Books, Deletable
  <2>2. p \in gone
    BY <2>1 DEF RowsOf
  <2> QED BY <1>3, <2>2
<1> HIDE DEF gone
<1>5. /\ \A a : a # b => RowsOf(a)' = RowsOf(a)
      /\ RowsOf(b)' = R \ gone
  BY <1>1, <1>3 DEF RowsOf
<1>6. R \in SUBSET Character /\ R \subseteq players /\ IsFiniteSet(R) /\ n \in Nat
  BY RowsAre
<1>7. \A q \in R : q.owner = b
  BY DEF RowsOf
<1> HIDE DEF R, n
<1>8. b \notin shared => Cardinality(R \ gone) = n - 1
  BY <1>4, <1>6, FS_RemoveElement DEF n
<1>9. /\ Alone' /\ Known' /\ Deletable'
      /\ \A a \in DOMAIN accounts \ (shared \cup {b}) :
           accounts[a].slots >= Cardinality(RowsOf(a)')
      /\ \A t \in Sessions \ {s} :
           handler[t].at \in {"insertPlayer", "uncount"} /\ account[t] \notin shared =>
             accounts[account[t]].slots > Cardinality(RowsOf(account[t])')
      /\ \A a \in DOMAIN accounts \ (shared \cup holed' \cup {b}) :
           \A v \in Listed(RowsOf(a)') : \A i \in DOMAIN v : v[i].slot = i - 1
  <2>1. /\ holed \subseteq holed' /\ handler[s].at \in AtWork
        /\ handler'[s].at \in {"uncount", "reload"}
        /\ \A t \in Sessions \ {s} : loaded'[t] = loaded[t]
    BY <1>1, <1>2 DEF AtWork
  <2> QED BY <1>1, <1>2, <1>5, <2>1, OtherAccounts
<1>10. OwnersExist'
  BY <1>1 DEF Books, OwnersExist
<1>11. Blank'
  <2>1. \A t \in Sessions \ {s} : handler'[t].at # "adopt"
    BY <1>1, <1>2, OneAtWork DEF AtWork
  <2> QED BY <1>2, <2>1 DEF Blank
<1>12. Counted'
  <2>1. b \notin shared => accounts[b].slots >= n
    BY <1>1 DEF Books, Counted, R, n
  <2>2. accounts[b].slots \in Int
    <3>1. accounts \in Seq([name : Names, slots : Int])
      BY DEF TypeOK
    <3>2. accounts[b] \in [name : Names, slots : Int]
      BY <1>1, <3>1, LenProperties
    <3> QED BY <3>2
  <2>3. b \notin shared => /\ accounts[b].slots >= Cardinality(RowsOf(b)')
                           /\ accounts[b].slots > Cardinality(RowsOf(b)')
    BY <1>5, <1>6, <1>8, <2>1, <2>2
  <2>4. \A a \in DOMAIN accounts \ shared : accounts[a].slots >= Cardinality(RowsOf(a)')
    <3> SUFFICES ASSUME NEW a \in DOMAIN accounts \ shared
                 PROVE  accounts[a].slots >= Cardinality(RowsOf(a)')
      OBVIOUS
    <3>1. CASE a = b
      <4>1. RowsOf(b)' = RowsOf(a)'
        BY <1>1, <3>1 DEF RowsOf
      <4> QED BY <2>3, <3>1, <4>1
    <3>2. CASE a # b
      BY <1>9, <3>2
    <3> QED BY <3>1, <3>2
  <2>5. \A t \in Sessions :
          handler'[t].at \in {"insertPlayer", "uncount"} /\ account[t] \notin shared =>
            accounts[account[t]].slots > Cardinality(RowsOf(account[t])')
    BY <1>2, <1>9, <2>3
  <2> QED BY <1>1, <2>4, <2>5 DEF Counted
<1>13. Numbered'
  <2> SUFFICES ASSUME b \notin shared, b \notin holed',
                      NEW v \in Listed(R \ gone), NEW i \in DOMAIN v
               PROVE  v[i].slot = i - 1
    BY <1>1, <1>5, <1>9 DEF Numbered
  <2>1. PICK p \in R : gone = {p}
    BY <1>4
  <2>2. \A q \in R \ {p} : q.id < p.id
    <3> SUFFICES ASSUME NEW q \in R \ {p} PROVE q.id < p.id
      OBVIOUS
    <3>1. ~(q.id > p.id)
      BY <1>1, <1>6, <1>7, <2>1
    <3>2. q.id # p.id
      BY <1>6 DEF RowsOwned
    <3>3. q.id \in Nat /\ p.id \in Nat
      BY <1>6 DEF Character
    <3> QED BY <3>1, <3>2, <3>3
  <2> DEFINE w == [j \in 1..n |-> IF j < n THEN v[j] ELSE p]
  <2>3. DOMAIN v = 1..(n - 1) /\ w \in Listed(R)
    BY <1>6, <2>1, <2>2, ListWithoutLast DEF n
  <2>4. i \in DOMAIN w /\ w[i] = v[i]
    BY <1>6, <2>3
  <2>5. \A u \in Listed(R) : \A j \in DOMAIN u : u[j].slot = j - 1
    BY <1>1 DEF Books, Numbered, R
  <2> HIDE DEF w
  <2>6. w[i].slot = i - 1
    BY <2>3, <2>4, <2>5
  <2> QED BY <2>4, <2>6
<1> QED BY <1>9, <1>10, <1>11, <1>12, <1>13 DEF Books

(* What the books say is kept by every step.                               *)
LEMMA BooksStep ==
  ASSUME ConnectionCount = 1, TInv, TInv', NameIsFree, Books, [Next]_vars
  PROVE  Books'
<1> USE DEF TInv
<1>1. CASE UNCHANGED vars \/ AutoSave \/ Restart \/ \E s \in Sessions : Client(s)
  BY <1>1, CalmOthers, CalmKeeps
<1>2. ASSUME NEW s \in Sessions, Handler(s) PROVE Books'
  <2>1. CASE TryLogin(s) \/ CreateAccount(s) \/ CreateCharacter(s)
             \/ EnterRoom(s) \/ Save(s) \/ SaveLeaver(s)
    BY <2>1, CalmTakers, CalmKeeps
  <2>2. CASE Refuse(s) \/ CheckName(s) \/ LoadingCharacterList(s) \/ Release(s)
             \/ AddObject(s) \/ RefuseQuest(s) \/ LeaveRoom(s) \/ CloseSession(s)
    BY <2>2, CalmHandlers, CalmKeeps
  <2>3. CASE LogIn(s) \/ Adopt(s) \/ Reload(s)
    BY <2>3, LoadersKeep
  <2>4. CASE CountSlot(s) \/ UncountSlot(s)
    BY <2>4, CountersKeep
  <2>5. CASE InsertAccount(s)
    BY <2>5, InsertAccountKeeps
  <2>6. CASE DeleteCharacter(s)
    BY <2>6, DeleterKeeps
  <2>7. CASE InsertPlayer(s)
    BY <2>7, InsertPlayerKeeps
  <2>8. CASE DeletePlayer(s)
    BY <2>8, DeletePlayerKeeps
  <2> QED BY <1>2, <2>1, <2>2, <2>3, <2>4, <2>5, <2>6, <2>7, <2>8 DEF Handler
<1> QED BY <1>1, <1>2 DEF Next

(* At the start there is nothing on the books.                             *)
LEMMA InitBooks == Init => Books
<1> SUFFICES ASSUME Init PROVE Books
  OBVIOUS
<1>1. /\ accounts = <<>> /\ DOMAIN accounts = {} /\ players = {}
      /\ \A s \in Sessions : account[s] = 0 /\ handler[s].at = "idle"
  BY DEF Init, Idle
<1> QED BY <1>1 DEF Books, OwnersExist, Alone, Known, Blank, Deletable, Counted, Numbered

(* The invariant that the theorems below rest on.                          *)
LInv == IInv /\ Books

LEMMA BooksInvariant == ASSUME ConnectionCount = 1 PROVE Spec => []LInv
<1>1. Init => LInv
  BY InitTypes, InitApart, InitBooks DEF LInv, IInv, TInv
<1>2. LInv /\ [Next]_vars => LInv'
  <2> SUFFICES ASSUME LInv, [Next]_vars PROVE LInv'
    OBVIOUS
  <2>1. TInv /\ NameIsFree /\ Books
    BY DEF LInv, IInv
  <2>2. TInv'
    BY <2>1, TStep
  <2>3. NameIsFree'
    BY <2>1, NameStep DEF TInv
  <2>4. Books'
    BY <2>1, <2>2, BooksStep
  <2> QED BY <2>2, <2>3, <2>4 DEF LInv, IInv
<1> QED BY <1>1, <1>2, PTL DEF Spec

(* With one connection, an idle session that is alone in its account has   *)
(* the database's rows in its list: GameSession::_myAccount->_players.     *)
THEOREM ListsAreCurrent == ASSUME ConnectionCount = 1 PROVE Spec => []CopyCurrent
<1>1. LInv => CopyCurrent
  BY DEF LInv, Books, Known, CopyCurrent, Idle
<1> QED BY <1>1, BooksInvariant, PTL

(* With one connection, UsingPlayerSlot covers the characters whatever the *)
(* statement between which the server ends.                                *)
THEOREM CountsCoverRows == ASSUME ConnectionCount = 1 PROVE Spec => []CountCoversRows
<1>1. LInv => CountCoversRows
  BY DEF LInv, Books, Counted, CountCoversRows
<1> QED BY <1>1, BooksInvariant, PTL

-----------------------------------------------------------------------------
(* What the client of a session shows.                                     *)

LoggingIn == {"check", "exists", "insert", "adopt"}

(* The client has asked for the list, and the session has not read it.     *)
ListAsked(s) == \E i \in DOMAIN toServer[s] : toServer[s][i].op = "list"

(* What the client will show when all answers have come is the session's.  *)
WillShow(s) ==
  /\ \A i \in DOMAIN toClient[s] :
       /\ toClient[s][i].op = "list"
       /\ \A j \in DOMAIN toClient[s] : j > i => toClient[s][j].op # "list"
       => toClient[s][i].chars = loaded[s]
  /\ (\A i \in DOMAIN toClient[s] : toClient[s][i].op # "list") => infos[s] = loaded[s]

(* A login that is still to be handled is followed by a request for the    *)
(* list, which the lobby sends as it opens; and an answer is on its way    *)
(* whenever the session's list is not what the client will show.           *)
Answered(s) ==
  /\ screen[s] = "lobby" =>
       /\ \A i \in DOMAIN toServer[s] : toServer[s][i].op \in {"login", "account"} =>
            \E j \in DOMAIN toServer[s] : j > i /\ toServer[s][j].op = "list"
       /\ \/ ListAsked(s)
          \/ /\ handler[s].at \notin LoggingIn
             /\ handler[s].at = "list" \/ WillShow(s)
  /\ handler[s].at = "left" => screen[s] = "lost"

Same(s) == toServer'[s] = toServer[s] /\ screen'[s] = screen[s]
Shown(s) == toClient'[s] = toClient[s] /\ loaded'[s] = loaded[s] /\ infos'[s] = infos[s]

(* The elements of a queue after its first.                                *)
LEMMA TailIs ==
  ASSUME NEW S, NEW q \in Seq(S), q # <<>>
  PROVE  /\ Head(q) = q[1] /\ 1 \in DOMAIN q
         /\ \A i \in DOMAIN Tail(q) : i \in Nat \ {0} /\ i + 1 \in DOMAIN q /\ Tail(q)[i] = q[i + 1]
         /\ \A i \in DOMAIN q : i \in Nat \ {0} /\ (i > 1 => i - 1 \in DOMAIN Tail(q) /\ Tail(q)[i - 1] = q[i])
<1>1. Len(q) \in Nat \ {0} /\ DOMAIN q = 1..Len(q)
  BY EmptySeq, LenProperties
<1>2. /\ Head(q) = q[1] /\ Len(Tail(q)) = Len(q) - 1
      /\ \A i \in 1..Len(Tail(q)) : Tail(q)[i] = q[i + 1]
  BY HeadTailProperties
<1>3. Tail(q) \in Seq(S)
  BY HeadTailProperties
<1>4. DOMAIN Tail(q) = 1..Len(Tail(q))
  BY <1>3, LenProperties
<1> QED BY <1>1, <1>2, <1>4

(* A session that still logs in has a request for the list to come.        *)
LEMMA AnsweredAtLogin ==
  ASSUME NEW s \in Sessions, Answered(s), Same(s),
         handler[s].at \in LoggingIn, handler'[s].at # "left"
  PROVE  Answered(s)'
BY DEF Answered, ListAsked, Same

(* Nothing that the client shows changes.                                  *)
LEMMA AnsweredStays ==
  ASSUME NEW s \in Sessions, Answered(s), Same(s), Shown(s),
         \/ handler'[s] = handler[s]
         \/ handler[s].at # "list" /\ handler'[s].at \notin LoggingIn \cup {"left"}
  PROVE  Answered(s)'
BY DEF Answered, ListAsked, WillShow, Same, Shown

(* The answer to a create or delete is on its way.                         *)
LEMMA AnsweredSoon ==
  ASSUME NEW s \in Sessions, Answered(s), Same(s), handler'[s].at = "list"
  PROVE  Answered(s)'
BY DEF Answered, ListAsked, Same, LoggingIn

(* There is no lobby.                                                      *)
LEMMA AnsweredElsewhere ==
  ASSUME NEW s \in Sessions, screen'[s] # "lobby",
         handler'[s].at = "left" => screen'[s] = "lost"
  PROVE  Answered(s)'
BY DEF Answered

LEMMA AnsweredCrash ==
  ASSUME NEW s \in Sessions, Crash
  PROVE  Answered(s)'
BY AnsweredElsewhere DEF Crash, Idle

(* A request is read.                                                      *)
LEMMA AnsweredRead ==
  ASSUME TypeOK, NEW s \in Sessions, Answered(s), handler[s] = Idle,
         toServer[s] # <<>>, toServer'[s] = Rest(s), screen'[s] = screen[s], Shown(s),
         handler'[s].at # "left",
         \/ Head(toServer[s]).op \in {"login", "account"}
         \/ Head(toServer[s]).op # "list" /\ handler'[s].at \notin LoggingIn
  PROVE  Answered(s)'
<1> SUFFICES ASSUME screen[s] = "lobby" PROVE Answered(s)'
  BY DEF Answered
<1> DEFINE q == toServer[s]
<1>1. q \in Seq(Requests) /\ q # <<>> /\ toServer'[s] = Tail(q)
  BY DEF TypeOK, Rest
<1>2. /\ Head(q) = q[1] /\ 1 \in DOMAIN q
      /\ \A i \in DOMAIN Tail(q) : i \in Nat \ {0} /\ i + 1 \in DOMAIN q /\ Tail(q)[i] = q[i + 1]
      /\ \A i \in DOMAIN q : i \in Nat \ {0} /\ (i > 1 => i - 1 \in DOMAIN Tail(q) /\ Tail(q)[i - 1] = q[i])
  BY <1>1, TailIs
<1>3. \A i \in DOMAIN q : q[i].op \in {"login", "account"} =>
        \E j \in DOMAIN q : j > i /\ q[j].op = "list"
  BY DEF Answered
<1>4. ASSUME NEW i \in DOMAIN Tail(q), Tail(q)[i].op \in {"login", "account"}
      PROVE  \E j \in DOMAIN Tail(q) : j > i /\ Tail(q)[j].op = "list"
  <2>1. PICK k \in DOMAIN q : k > i + 1 /\ q[k].op = "list"
    BY <1>2, <1>3, <1>4
  <2>2. k - 1 \in DOMAIN Tail(q) /\ Tail(q)[k - 1] = q[k] /\ k - 1 > i
    BY <1>2, <2>1
  <2> QED BY <2>1, <2>2
<1>5. ListAsked(s)' \/ (handler'[s].at \notin LoggingIn /\ WillShow(s)')
  <2>1. CASE Head(q).op \in {"login", "account"}
    <3>1. PICK k \in DOMAIN q : k > 1 /\ q[k].op = "list"
      BY <1>2, <1>3, <2>1
    <3>2. k - 1 \in DOMAIN Tail(q) /\ Tail(q)[k - 1] = q[k]
      BY <1>2, <3>1
    <3> QED BY <1>1, <3>1, <3>2 DEF ListAsked
  <2>2. CASE Head(q).op # "list" /\ handler'[s].at \notin LoggingIn
    <3>1. CASE ListAsked(s)
      <4>1. PICK k \in DOMAIN q : q[k].op = "list"
        BY <3>1 DEF ListAsked
      <4>2. k > 1
        BY <1>2, <2>2, <4>1
      <4>3. k - 1 \in DOMAIN Tail(q) /\ Tail(q)[k - 1] = q[k]
        BY <1>2, <4>2
      <4> QED BY <1>1, <4>1, <4>3 DEF ListAsked
    <3>2. CASE ~ListAsked(s)
      <4>1. WillShow(s)
        BY <3>2 DEF Answered, Idle
      <4> QED BY <2>2, <4>1 DEF WillShow, Shown
    <3> QED BY <3>1, <3>2
  <2> QED BY <2>1, <2>2
<1> HIDE DEF q
<1> QED BY <1>1, <1>4, <1>5 DEF Answered

(* The session answers with its list.                                      *)
LEMMA ShowsAnswer ==
  ASSUME TypeOK, NEW s \in Sessions,
         toClient'[s] = Append(toClient[s], [op |-> "list", chars |-> loaded[s]]),
         loaded'[s] = loaded[s]
  PROVE  WillShow(s)'
<1> DEFINE n == Len(toClient[s]) + 1
<1>1. /\ DOMAIN toClient'[s] = 1..n /\ n \in Nat \ {0}
      /\ toClient'[s][n] = [op |-> "list", chars |-> loaded[s]]
  <2>1. toClient[s] \in Seq(Answers)
    BY DEF TypeOK
  <2> QED BY <2>1
<1> HIDE DEF n
<1>2. n \in DOMAIN toClient'[s] /\ \A i \in DOMAIN toClient'[s] : i # n => n > i
  BY <1>1
<1> QED BY <1>1, <1>2 DEF WillShow

(* The session answers a login.                                            *)
LEMMA ShowsWelcome ==
  ASSUME TypeOK, NEW s \in Sessions, WillShow(s), NEW c,
         toClient'[s] = Append(toClient[s], [op |-> "welcome", chars |-> c]),
         loaded'[s] = loaded[s], infos'[s] = infos[s]
  PROVE  WillShow(s)'
<1> DEFINE n == Len(toClient[s]) + 1
<1>1. /\ DOMAIN toClient'[s] = DOMAIN toClient[s] \cup {n}
      /\ toClient'[s][n].op = "welcome"
      /\ \A i \in DOMAIN toClient[s] : toClient'[s][i] = toClient[s][i]
  <2>1. toClient[s] \in Seq(Answers)
    BY DEF TypeOK
  <2> QED BY <2>1
<1> HIDE DEF n
<1> QED BY <1>1 DEF WillShow

(* The client reads an answer.                                             *)
LEMMA ShowsRead ==
  ASSUME TypeOK, NEW s \in Sessions, WillShow(s), toClient[s] # <<>>,
         toClient'[s] = Tail(toClient[s]), loaded'[s] = loaded[s],
         infos'[s] = IF Head(toClient[s]).op = "list" THEN Head(toClient[s]).chars
                     ELSE infos[s]
  PROVE  WillShow(s)'
<1> DEFINE q == toClient[s]
<1>1. q \in Seq(Answers) /\ q # <<>>
  BY DEF TypeOK
<1>2. /\ Head(q) = q[1] /\ 1 \in DOMAIN q
      /\ \A i \in DOMAIN Tail(q) : i \in Nat \ {0} /\ i + 1 \in DOMAIN q /\ Tail(q)[i] = q[i + 1]
      /\ \A i \in DOMAIN q : i \in Nat \ {0} /\ (i > 1 => i - 1 \in DOMAIN Tail(q) /\ Tail(q)[i - 1] = q[i])
  BY <1>1, TailIs
<1>3. ASSUME NEW i \in DOMAIN Tail(q), Tail(q)[i].op = "list",
             \A j \in DOMAIN Tail(q) : j > i => Tail(q)[j].op # "list"
      PROVE  Tail(q)[i].chars = loaded[s]
  <2>1. \A j \in DOMAIN q : j > i + 1 => q[j].op # "list"
    <3> SUFFICES ASSUME NEW j \in DOMAIN q, j > i + 1 PROVE q[j].op # "list"
      OBVIOUS
    <3>1. j - 1 \in DOMAIN Tail(q) /\ Tail(q)[j - 1] = q[j] /\ j - 1 > i
      BY <1>2
    <3> QED BY <1>3, <3>1
  <2>2. i + 1 \in DOMAIN q /\ Tail(q)[i] = q[i + 1]
    BY <1>2
  <2> QED BY <1>3, <2>1, <2>2 DEF WillShow
<1>4. ASSUME \A i \in DOMAIN Tail(q) : Tail(q)[i].op # "list"
      PROVE  infos'[s] = loaded[s]
  <2>1. \A j \in DOMAIN q : j > 1 => q[j].op # "list"
    BY <1>2, <1>4
  <2>2. CASE Head(q).op = "list"
    BY <1>2, <2>1, <2>2 DEF WillShow
  <2>3. CASE Head(q).op # "list"
    <3>1. \A j \in DOMAIN q : q[j].op # "list"
      BY <1>2, <2>1, <2>3
    <3> QED BY <2>3, <3>1 DEF WillShow
  <2> QED BY <2>2, <2>3
<1> HIDE DEF q
<1>5. toClient'[s] = Tail(q)
  BY DEF q
<1> QED BY <1>3, <1>4, <1>5 DEF WillShow

(* A request is sent from the lobby, or the lobby opens with one.          *)
LEMMA AnsweredSent ==
  ASSUME TypeOK, NEW s \in Sessions, Answered(s), NEW r, Shown(s) \/ r.op = "list",
         toServer'[s] = Append(toServer[s], r), handler'[s] = handler[s],
         \/ r.op \in {"create", "delete"} /\ screen'[s] = screen[s]
         \/ r.op = "list" /\ screen[s] = "title"
  PROVE  Answered(s)'
<1> DEFINE n == Len(toServer[s]) + 1
<1>1. /\ DOMAIN toServer'[s] = DOMAIN toServer[s] \cup {n}
      /\ \A i \in DOMAIN toServer[s] : n > i /\ toServer'[s][i] = toServer[s][i]
      /\ toServer'[s][n] = r
  <2>1. toServer[s] \in Seq(Requests)
    BY DEF TypeOK
  <2> QED BY <2>1
<1> HIDE DEF n
<1>2. CASE r.op = "list" /\ screen[s] = "title"
  <2>1. n \in DOMAIN toServer'[s] /\ toServer'[s][n].op = "list"
    BY <1>1, <1>2
  <2>2. \A i \in DOMAIN toServer'[s] : toServer'[s][i].op \in {"login", "account"} =>
          n > i
    BY <1>1, <1>2
  <2>3. handler[s].at # "left"
    BY <1>2 DEF Answered
  <2> QED BY <2>1, <2>2, <2>3 DEF Answered, ListAsked
<1>3. CASE r.op \in {"create", "delete"} /\ screen'[s] = screen[s] /\ Shown(s)
  <2>1. ListAsked(s) => ListAsked(s)'
    BY <1>1 DEF ListAsked
  <2>2. \A i \in DOMAIN toServer'[s] : toServer'[s][i].op \in {"login", "account"} =>
          i \in DOMAIN toServer[s] /\ toServer[s][i].op \in {"login", "account"}
    BY <1>1, <1>3
  <2>3. \A i, j \in DOMAIN toServer[s] : j > i /\ toServer[s][j].op = "list" =>
          j \in DOMAIN toServer'[s] /\ j > i /\ toServer'[s][j].op = "list"
    BY <1>1
  <2>4. WillShow(s) => WillShow(s)'
    BY <1>3 DEF WillShow, Shown
  <2> QED BY <1>3, <2>1, <2>2, <2>3, <2>4 DEF Answered
<1> QED BY <1>2, <1>3

(* What a handler that takes a connection changes.                         *)
LEMMA TakeChanges ==
  ASSUME TypeOK, NEW t \in Sessions, NEW h, NEW rest, Take(t, h, rest)
  PROVE  \/ Crash
         \/ /\ handler'[t] = h /\ toServer'[t] = rest
            /\ \A s \in Sessions \ {t} :
                 handler'[s] = handler[s] /\ toServer'[s] = toServer[s]
            /\ UNCHANGED <<toClient, loaded, infos, screen>>
BY DEF Take, TypeOK, server, client

(* A session's steps leave the others as they are, or the server ends.     *)
Untouched(s) == Same(s) /\ Shown(s) /\ handler'[s] = handler[s]

LEMMA TakersApart ==
  ASSUME TypeOK, NEW s \in Sessions, NEW t \in Sessions \ {s},
         \/ TryLogin(t) \/ CreateAccount(t) \/ CreateCharacter(t) \/ DeleteCharacter(t)
         \/ EnterRoom(t) \/ Save(t) \/ SaveLeaver(t)
  PROVE  Crash \/ Untouched(s)
<1>1. ASSUME NEW h, NEW rest, Take(t, h, rest) PROVE Crash \/ Untouched(s)
  BY <1>1, TakeChanges DEF Untouched, Same, Shown
<1>2. CASE TryLogin(t)
  <2> DEFINE h == [At("check") EXCEPT !.name = Head(toServer[t]).name]
  <2>1. Take(t, h, Rest(t))
    BY <1>2 DEF TryLogin
  <2> HIDE DEF h
  <2> QED BY <1>1, <2>1
<1>3. CASE CreateAccount(t)
  <2> DEFINE h == [At("exists") EXCEPT !.name = Head(toServer[t]).name]
  <2>1. Take(t, h, Rest(t))
    BY <1>3 DEF CreateAccount
  <2> HIDE DEF h
  <2> QED BY <1>1, <2>1
<1>4. CASE CreateCharacter(t)
  BY <1>1, <1>4 DEF CreateCharacter
<1>5. CASE DeleteCharacter(t)
  <2> DEFINE h == [At("delete") EXCEPT !.id = loaded[t][Head(toServer[t]).slot + 1].id]
  <2>1. Crash \/ Take(t, h, Rest(t))
    BY <1>5 DEF DeleteCharacter
  <2> HIDE DEF h
  <2> QED BY <1>1, <2>1
<1>6. CASE EnterRoom(t)
  <2> DEFINE h == [At("enter") EXCEPT !.id = loaded[t][Head(toServer[t]).slot + 1].id]
  <2>1. Crash \/ Take(t, h, Rest(t))
    BY <1>6 DEF EnterRoom
  <2> HIDE DEF h
  <2> QED BY <1>1, <2>1
<1>7. CASE Save(t) \/ SaveLeaver(t)
  BY <1>1, <1>7 DEF Save, SaveLeaver
<1> QED BY <1>2, <1>3, <1>4, <1>5, <1>6, <1>7

LEMMA HandlersApart ==
  ASSUME TypeOK, NEW s \in Sessions, NEW t \in Sessions \ {s}, Handler(t)
  PROVE  Crash \/ Untouched(s)
<1> USE DEF Untouched, Same, Shown, server, client, history, TypeOK
<1>1. CASE Refuse(t) \/ InsertAccount(t) \/ CountSlot(t) \/ InsertPlayer(t) \/ UncountSlot(t)
  BY <1>1 DEF Refuse, InsertAccount, CountSlot, InsertPlayer, UncountSlot, Go
<1>2. CASE CheckName(t)
  BY <1>2 DEF CheckName, Go
<1>3. CASE LogIn(t)
  <2>1. \E a, v : SetMyAccount(t, a, v)
    BY <1>3, Zenon DEF LogIn
  <2> QED BY <1>3, <2>1 DEF LogIn, SetMyAccount
<1>4. CASE Adopt(t)
  <2>1. \E a, v : SetMyAccount(t, a, v)
    BY <1>4, Zenon DEF Adopt
  <2> QED BY <1>4, <2>1 DEF Adopt, SetMyAccount
<1>5. CASE LoadingCharacterList(t) \/ DeletePlayer(t) \/ Reload(t)
  BY <1>5 DEF LoadingCharacterList, DeletePlayer, Reload
<1>6. CASE Release(t) \/ AddObject(t) \/ RefuseQuest(t)
  BY <1>6 DEF Release, AddObject, RefuseQuest
<1>7. CASE LeaveRoom(t) \/ CloseSession(t)
  BY <1>7 DEF LeaveRoom, CloseSession
<1>8. CASE TryLogin(t) \/ CreateAccount(t) \/ CreateCharacter(t) \/ DeleteCharacter(t)
           \/ EnterRoom(t) \/ Save(t) \/ SaveLeaver(t)
  BY <1>8, TakersApart
<1> QED BY <1>1, <1>2, <1>3, <1>4, <1>5, <1>6, <1>7, <1>8 DEF Handler

LEMMA ClientsApart ==
  ASSUME TypeOK, NEW s \in Sessions, NEW t \in Sessions \ {s}, Client(t)
  PROVE  Untouched(s)
<1> USE DEF Untouched, Same, Shown, server, client, history, TypeOK
<1>1. CASE Connect(t) \/ ClickSlot(t) \/ Leave(t)
  BY <1>1 DEF Connect, ClickSlot, Leave, Closes
<1>2. CASE ClickTitle(t) \/ ClickCreate(t) \/ ClickDelete(t) \/ ClickEnter(t)
  <2>1. \E r : Send(t, r)
    BY <1>2, Zenon DEF ClickTitle, ClickCreate, ClickDelete, ClickEnter
  <2>2. UNCHANGED client \/ Closes(t, "game")
    BY <1>2 DEF ClickTitle, ClickCreate, ClickDelete, ClickEnter
  <2> QED BY <2>1, <2>2 DEF Send, Closes
<1>3. CASE SuccessLogin(t) \/ CharacterList(t)
  BY <1>3 DEF SuccessLogin, CharacterList, Arrives
<1> QED BY <1>1, <1>2, <1>3 DEF Client

(* The session's own handlers that take a connection.                      *)
LEMMA TakersAnswer ==
  ASSUME TypeOK, NEW s \in Sessions, Answered(s),
         \/ TryLogin(s) \/ CreateAccount(s) \/ CreateCharacter(s) \/ DeleteCharacter(s)
         \/ EnterRoom(s) \/ Save(s) \/ SaveLeaver(s)
  PROVE  Answered(s)'
<1>1. ASSUME NEW o \in {"login", "account", "create", "delete", "enter"}, Packet(s, o),
             NEW h, Take(s, h, Rest(s)), h.at # "left",
             o \in {"login", "account"} \/ h.at \notin LoggingIn
      PROVE  Answered(s)'
  <2>1. CASE Crash
    BY <2>1, AnsweredCrash
  <2>2. CASE ~Crash
    <3>1. /\ handler'[s] = h /\ toServer'[s] = Rest(s)
          /\ UNCHANGED <<toClient, loaded, infos, screen>>
      BY <1>1, <2>2, TakeChanges
    <3>2. handler[s] = Idle /\ toServer[s] # <<>> /\ Head(toServer[s]).op = o
      BY <1>1 DEF Packet
    <3> QED BY <1>1, <3>1, <3>2, AnsweredRead DEF Shown
  <2> QED BY <2>1, <2>2
<1>2. CASE TryLogin(s)
  <2> DEFINE h == [At("check") EXCEPT !.name = Head(toServer[s]).name]
  <2>1. Packet(s, "login") /\ Take(s, h, Rest(s)) /\ h.at = "check"
    BY <1>2 DEF TryLogin, At, Idle
  <2> HIDE DEF h
  <2> QED BY <1>1, <2>1
<1>3. CASE CreateAccount(s)
  <2> DEFINE h == [At("exists") EXCEPT !.name = Head(toServer[s]).name]
  <2>1. Packet(s, "account") /\ Take(s, h, Rest(s)) /\ h.at = "exists"
    BY <1>3 DEF CreateAccount, At, Idle
  <2> HIDE DEF h
  <2> QED BY <1>1, <2>1
<1>4. CASE CreateCharacter(s)
  <2>1. Packet(s, "create") /\ Take(s, At("count"), Rest(s)) /\ At("count").at = "count"
    BY <1>4 DEF CreateCharacter, At, Idle
  <2> QED BY <1>1, <2>1 DEF LoggingIn
<1>5. CASE DeleteCharacter(s)
  <2> DEFINE h == [At("delete") EXCEPT !.id = loaded[s][Head(toServer[s]).slot + 1].id]
  <2>1. Packet(s, "delete") /\ (Crash \/ Take(s, h, Rest(s))) /\ h.at = "delete"
    BY <1>5 DEF DeleteCharacter, At, Idle
  <2> HIDE DEF h
  <2> QED BY <1>1, <2>1, AnsweredCrash DEF LoggingIn
<1>6. CASE EnterRoom(s)
  <2> DEFINE h == [At("enter") EXCEPT !.id = loaded[s][Head(toServer[s]).slot + 1].id]
  <2>1. Packet(s, "enter") /\ (Crash \/ Take(s, h, Rest(s))) /\ h.at = "enter"
    BY <1>6 DEF EnterRoom, At, Idle
  <2> HIDE DEF h
  <2> QED BY <1>1, <2>1, AnsweredCrash DEF LoggingIn
<1>7. CASE Save(s)
  <2>1. Take(s, At("done"), toServer[s]) /\ handler[s].at = "idle" /\ At("done").at = "done"
    BY <1>7 DEF Save, InRoom, At, Idle
  <2>2. CASE Crash
    BY <2>2, AnsweredCrash
  <2>3. CASE ~Crash
    <3>1. /\ handler'[s] = At("done") /\ toServer'[s] = toServer[s]
          /\ UNCHANGED <<toClient, loaded, infos, screen>>
      BY <2>1, <2>3, TakeChanges
    <3> QED BY <2>1, <3>1, AnsweredStays DEF Same, Shown, LoggingIn
  <2> QED BY <2>2, <2>3
<1>8. CASE SaveLeaver(s)
  <2>1. Take(s, At("done"), <<>>) /\ handler[s].at = "left" /\ At("done").at = "done"
    BY <1>8 DEF SaveLeaver, At, Idle
  <2>2. CASE Crash
    BY <2>2, AnsweredCrash
  <2>3. CASE ~Crash
    <3>1. handler'[s] = At("done") /\ screen' = screen
      BY <2>1, <2>3, TakeChanges
    <3>2. screen[s] = "lost"
      BY <2>1 DEF Answered
    <3> QED BY <2>1, <3>1, <3>2, AnsweredElsewhere
  <2> QED BY <2>2, <2>3
<1> QED BY <1>2, <1>3, <1>4, <1>5, <1>6, <1>7, <1>8

(* The list that the lobby asked for.                                      *)
LEMMA ListAnswers ==
  ASSUME TypeOK, NEW s \in Sessions, Answered(s), LoadingCharacterList(s)
  PROVE  Answered(s)'
<1> DEFINE q == toServer[s]
<1>1. /\ handler[s] = Idle /\ q # <<>> /\ Head(q).op = "list"
      /\ toServer'[s] = Tail(q)
      /\ toClient'[s] = Append(toClient[s], [op |-> "list", chars |-> loaded[s]])
      /\ UNCHANGED <<handler, loaded, screen, infos>>
  BY DEF LoadingCharacterList, Packet, Rest, TypeOK, server, client
<1>2. q \in Seq(Requests)
  BY DEF TypeOK
<1>3. /\ Head(q) = q[1] /\ 1 \in DOMAIN q
      /\ \A i \in DOMAIN Tail(q) : i \in Nat \ {0} /\ i + 1 \in DOMAIN q /\ Tail(q)[i] = q[i + 1]
      /\ \A i \in DOMAIN q : i \in Nat \ {0} /\ (i > 1 => i - 1 \in DOMAIN Tail(q) /\ Tail(q)[i - 1] = q[i])
  BY <1>1, <1>2, TailIs
<1>4. screen[s] = "lobby" =>
        \A i \in DOMAIN Tail(q) : Tail(q)[i].op \in {"login", "account"} =>
          \E j \in DOMAIN Tail(q) : j > i /\ Tail(q)[j].op = "list"
  <2> SUFFICES ASSUME screen[s] = "lobby",
                      NEW i \in DOMAIN Tail(q), Tail(q)[i].op \in {"login", "account"}
               PROVE  \E j \in DOMAIN Tail(q) : j > i /\ Tail(q)[j].op = "list"
    OBVIOUS
  <2>1. PICK k \in DOMAIN q : k > i + 1 /\ q[k].op = "list"
    BY <1>3 DEF Answered
  <2>2. k - 1 \in DOMAIN Tail(q) /\ Tail(q)[k - 1] = q[k] /\ k - 1 > i
    BY <1>3, <2>1
  <2> QED BY <2>1, <2>2
<1>5. WillShow(s)'
  BY <1>1, ShowsAnswer
<1> HIDE DEF q
<1> QED BY <1>1, <1>4, <1>5 DEF Answered, Idle, LoggingIn

(* What a handler answers as it ends.                                      *)
LEMMA ReleaseAnswers ==
  ASSUME TypeOK, NEW s \in Sessions, Answered(s), Release(s)
  PROVE  Answered(s)'
<1>1. /\ handler[s].at \in {"done", "welcome", "list"} /\ handler'[s].at = "idle"
      /\ UNCHANGED <<toServer, loaded, screen, infos>>
      /\ IF handler[s].at = "done" THEN toClient' = toClient
         ELSE toClient'[s] =
                Append(toClient[s], [op |-> handler[s].at, chars |-> loaded[s]])
  BY DEF Release, server, client, TypeOK, Idle
<1>2. screen[s] = "lobby" /\ ~ListAsked(s) => WillShow(s)'
  <2> SUFFICES ASSUME screen[s] = "lobby", ~ListAsked(s) PROVE WillShow(s)'
    OBVIOUS
  <2>1. handler[s].at = "list" \/ WillShow(s)
    BY DEF Answered
  <2>2. CASE handler[s].at = "list"
    BY <1>1, <2>2, ShowsAnswer
  <2>3. CASE handler[s].at = "done"
    BY <1>1, <2>1, <2>3 DEF WillShow
  <2>4. CASE handler[s].at = "welcome"
    BY <1>1, <2>1, <2>4, ShowsWelcome
  <2> QED BY <1>1, <2>2, <2>3, <2>4
<1>3. ListAsked(s)' <=> ListAsked(s)
  BY <1>1 DEF ListAsked
<1> QED BY <1>1, <1>2, <1>3 DEF Answered, LoggingIn

(* The session's other steps.                                              *)
LEMMA HandlersAnswer ==
  ASSUME TypeOK, NEW s \in Sessions, Answered(s), Handler(s)
  PROVE  Answered(s)'
<1>1. CASE Refuse(s) \/ LogIn(s) \/ CheckName(s) \/ InsertAccount(s) \/ Adopt(s)
  <2>1. handler[s].at \in LoggingIn
    BY <1>1 DEF Refuse, LogIn, CheckName, InsertAccount, Adopt, LoggingIn
  <2>2. Same(s)
    <3>1. CASE Refuse(s) \/ CheckName(s) \/ InsertAccount(s)
      BY <3>1 DEF Refuse, CheckName, InsertAccount, Go, Same, client
    <3>2. CASE LogIn(s) \/ Adopt(s)
      <4>1. \E a, v : SetMyAccount(s, a, v)
        BY <3>2, Zenon DEF LogIn, Adopt
      <4> QED BY <4>1 DEF SetMyAccount, Same, client
    <3> QED BY <1>1, <3>1, <3>2
  <2>3. \E h \in {At("done"), At("welcome"), [handler[s] EXCEPT !.at = "insert"],
                  [handler[s] EXCEPT !.at = "adopt"]} :
          handler' = [handler EXCEPT ![s] = h]
    BY <1>1, Zenon DEF Refuse, LogIn, CheckName, InsertAccount, Adopt, Go
  <2>4. handler'[s].at # "left"
    BY <2>3 DEF TypeOK, At, Idle
  <2> QED BY <2>1, <2>2, <2>4, AnsweredAtLogin
<1>2. CASE CountSlot(s) \/ InsertPlayer(s) \/ DeletePlayer(s) \/ UncountSlot(s)
           \/ AddObject(s)
  <2>1. Same(s) /\ Shown(s) /\ handler[s].at # "list"
    BY <1>2 DEF CountSlot, InsertPlayer, DeletePlayer, UncountSlot, AddObject, Go,
       Same, Shown, server, client
  <2>2. \E l \in {"insertPlayer", "reload", "uncount", "idle"} :
          handler' = [handler EXCEPT ![s] = At(l)]
    BY <1>2 DEF CountSlot, InsertPlayer, DeletePlayer, UncountSlot, AddObject, Go, At, Idle
  <2>3. handler'[s].at \notin LoggingIn \cup {"left"}
    BY <2>2 DEF TypeOK, At, Idle, LoggingIn
  <2> QED BY <2>1, <2>3, AnsweredStays
<1>3. CASE RefuseQuest(s)
  BY <1>3, AnsweredStays DEF RefuseQuest, Same, Shown, server, client
<1>4. CASE Reload(s)
  BY <1>4, AnsweredSoon DEF Reload, Same, client, TypeOK, At, Idle
<1>5. CASE LeaveRoom(s)
  BY <1>5, AnsweredElsewhere DEF LeaveRoom, client
<1>6. CASE CloseSession(s)
  BY <1>6, AnsweredElsewhere DEF CloseSession, Idle, TypeOK
<1>7. CASE TryLogin(s) \/ CreateAccount(s) \/ CreateCharacter(s) \/ DeleteCharacter(s)
           \/ EnterRoom(s) \/ Save(s) \/ SaveLeaver(s)
  BY <1>7, TakersAnswer
<1> QED BY <1>1, <1>2, <1>3, <1>4, <1>5, <1>6, <1>7, ListAnswers, ReleaseAnswers DEF Handler

(* The client's steps.                                                     *)
LEMMA ClientsAnswer ==
  ASSUME TypeOK, NEW s \in Sessions, Answered(s), Client(s)
  PROVE  Answered(s)'
<1>1. CASE Connect(s) \/ Leave(s)
  <2>1. handler' = handler /\ screen'[s] \in {"title", "lost"} /\ screen[s] # "lost"
    BY <1>1 DEF Connect, Leave, Closes, TypeOK
  <2> QED BY <2>1, AnsweredElsewhere DEF Answered
<1>2. CASE ClickTitle(s)
  <2>1. handler' = handler /\ screen'[s] = "title" /\ screen[s] = "title"
    <3>1. \E r : Send(s, r)
      BY <1>2, Zenon DEF ClickTitle
    <3> QED BY <1>2, <3>1 DEF ClickTitle, Send, client
  <2> QED BY <2>1, AnsweredElsewhere DEF Answered
<1>3. CASE ClickEnter(s)
  <2>1. handler' = handler /\ screen'[s] = "game" /\ screen[s] = "lobby"
    <3>1. \E r : Send(s, r)
      BY <1>3, Zenon DEF ClickEnter
    <3> QED BY <1>3, <3>1 DEF ClickEnter, Send, Closes, TypeOK
  <2> QED BY <2>1, AnsweredElsewhere DEF Answered
<1>4. CASE ClickCreate(s) \/ ClickDelete(s)
  <2>1. \E r : r.op \in {"create", "delete"} /\ Send(s, r)
    <3>1. CASE ClickCreate(s)
      BY <3>1 DEF ClickCreate, Request
    <3>2. CASE ClickDelete(s)
      <4> DEFINE r == [Request("delete") EXCEPT
                         !.slot = infos[s][selected[s] + 1].slot]
      <4>1. r.op = "delete" /\ Send(s, r)
        BY <3>2 DEF ClickDelete, Request
      <4> HIDE DEF r
      <4> QED BY <4>1
    <3> QED BY <1>4, <3>1, <3>2
  <2>2. PICK r : r.op \in {"create", "delete"} /\ Send(s, r)
    BY <2>1
  <2>3. /\ toServer'[s] = Append(toServer[s], r) /\ handler' = handler
        /\ UNCHANGED <<toClient, loaded, infos, screen>>
    BY <1>4, <2>2 DEF ClickCreate, ClickDelete, Send, server, client, TypeOK
  <2> QED BY <2>2, <2>3, AnsweredSent DEF Shown
<1>5. CASE ClickSlot(s)
  BY <1>5, AnsweredStays DEF ClickSlot, Same, Shown, server
<1>6. CASE (SuccessLogin(s) \/ CharacterList(s)) /\ screen[s] # "title"
  <2>1. /\ toClient[s] # <<>> /\ toClient'[s] = Tail(toClient[s])
        /\ UNCHANGED <<toServer, loaded, handler, screen>>
        /\ screen[s] = "lobby" =>
             infos'[s] = IF Head(toClient[s]).op = "list" THEN Head(toClient[s]).chars
                         ELSE infos[s]
    BY <1>6 DEF SuccessLogin, CharacterList, Arrives, server, TypeOK
  <2>2. screen[s] = "lobby" /\ WillShow(s) => WillShow(s)'
    BY <2>1, ShowsRead
  <2> QED BY <2>1, <2>2 DEF Answered, ListAsked
<1>7. CASE SuccessLogin(s) /\ screen[s] = "title"
  <2>1. toServer'[s] = Append(toServer[s], Request("list")) /\ handler' = handler
    BY <1>7 DEF SuccessLogin, Arrives, TypeOK
  <2>2. Request("list").op = "list"
    BY DEF Request
  <2> QED BY <1>7, <2>1, <2>2, AnsweredSent
<1>8. CASE CharacterList(s) /\ screen[s] = "title"
  <2>1. handler' = handler /\ screen' = screen
    BY <1>8 DEF CharacterList, Arrives
  <2> QED BY <1>8, <2>1, AnsweredElsewhere DEF Answered
<1> QED BY <1>1, <1>2, <1>3, <1>4, <1>5, <1>6, <1>7, <1>8 DEF Client

AllAnswered == \A s \in Sessions : Answered(s)

LEMMA AnsweredStep ==
  ASSUME TypeOK, AllAnswered, [Next]_vars
  PROVE  AllAnswered'
<1> SUFFICES ASSUME NEW s \in Sessions PROVE Answered(s)'
  BY DEF AllAnswered
<1>1. Answered(s)
  BY DEF AllAnswered
<1>2. ASSUME Untouched(s) PROVE Answered(s)'
  BY <1>1, <1>2, AnsweredStays DEF Untouched
<1>3. CASE UNCHANGED vars \/ SaveAllPlayerDb \/ SaverDone \/ Restart
  <2>1. Untouched(s)
    BY <1>3 DEF vars, SaveAllPlayerDb, SaverDone, Restart, Untouched, Same, Shown,
       server, client
  <2> QED BY <1>2, <2>1
<1>4. CASE SavePlayersWithout
  BY <1>4, AnsweredCrash DEF SavePlayersWithout
<1>5. CASE Handler(s) \/ Client(s)
  BY <1>1, <1>5, HandlersAnswer, ClientsAnswer
<1>6. ASSUME NEW t \in Sessions \ {s}, Handler(t) \/ Client(t) PROVE Answered(s)'
  <2>1. Crash \/ Untouched(s)
    BY <1>6, HandlersApart, ClientsApart
  <2> QED BY <1>2, <2>1, AnsweredCrash
<1> QED BY <1>3, <1>4, <1>5, <1>6 DEF Next, AutoSave

LEMMA InitAnswered == Init => AllAnswered
BY DEF Init, AllAnswered, Answered, Idle

(* With one connection, the slot that a client at rest in the lobby would  *)
(* send for a character is that character's index at the server, in any    *)
(* account never open twice that never lost a character but its last.      *)
THEOREM SlotsNameCharacters == ASSUME ConnectionCount = 1 PROVE Spec => []SlotIsIndex
<1>1. Init => AllAnswered
  BY InitAnswered
<1>2. LInv /\ AllAnswered /\ [Next]_vars => AllAnswered'
  BY AnsweredStep DEF LInv, IInv, TInv
<1>3. LInv /\ AllAnswered => SlotIsIndex
  <2> SUFFICES ASSUME LInv, AllAnswered, NEW s \in Sessions,
                      screen[s] = "lobby", account[s] \notin shared \cup holed,
                      toServer[s] = <<>>, toClient[s] = <<>>, handler[s] = Idle,
                      NEW i \in DOMAIN infos[s]
               PROVE  /\ infos[s][i].slot + 1 \in DOMAIN loaded[s]
                      /\ loaded[s][infos[s][i].slot + 1] = infos[s][i]
    BY DEF SlotIsIndex
  <2>1. TypeOK /\ LoggedIn /\ Books
    BY DEF LInv, IInv, TInv
  <2>2. account[s] # 0 /\ account[s] \in DOMAIN accounts
    BY <2>1 DEF LoggedIn, TypeOK
  <2>3. infos[s] = loaded[s]
    <3>1. ~ListAsked(s) /\ \A j \in DOMAIN toClient[s] : FALSE
      BY DEF ListAsked
    <3>2. WillShow(s)
      BY <3>1 DEF AllAnswered, Answered, Idle
    <3> QED BY <3>1, <3>2 DEF WillShow
  <2>4. loaded[s] \in Listed(RowsOf(account[s]))
    BY <2>1, <2>2 DEF Books, Known, Idle
  <2>5. infos[s][i].slot = i - 1
    BY <2>1, <2>2, <2>3, <2>4 DEF Books, Numbered
  <2>6. i \in Nat
    <3>1. infos[s] \in Seq(Character)
      BY <2>1 DEF TypeOK
    <3> QED BY <3>1, LenProperties
  <2>7. infos[s][i].slot + 1 = i
    BY <2>5, <2>6
  <2> QED BY <2>3, <2>7
<1> QED BY <1>1, <1>2, <1>3, BooksInvariant, PTL DEF Spec
=============================================================================
