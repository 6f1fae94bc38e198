---------------------------- MODULE CharacterStore ----------------------------
(***************************************************************************)
(* What the account service promises, whatever its sessions do at the same *)
(* time and whenever the server dies: an account name is given once, a     *)
(* character is made for the account that its session is logged in as, and *)
(* only a session of that account deletes it; ids are never used again.    *)
(***************************************************************************)
EXTENDS Naturals, Sequences

CONSTANTS Sessions, Names

VARIABLES
  given,       \* the name of each account, in the order they were made
  characters,  \* [id, owner] of each character
  nextId,      \* id of the next one
  as           \* the account each session is logged in as, or 0

vars == <<given, characters, nextId, as>>

Init ==
  /\ given = <<>> /\ characters = {} /\ nextId = 1
  /\ as = [s \in Sessions |-> 0]

Register(n) ==
  /\ \A i \in DOMAIN given : given[i] # n
  /\ given' = Append(given, n)
  /\ UNCHANGED <<characters, nextId, as>>

LogIn(s, a) ==
  /\ a \in DOMAIN given
  /\ as' = [as EXCEPT ![s] = a]
  /\ UNCHANGED <<given, characters, nextId>>

(* One session goes, or all of them with the server.                       *)
LogOut(S) ==
  /\ as' = [s \in Sessions |-> IF s \in S THEN 0 ELSE as[s]]
  /\ UNCHANGED <<given, characters, nextId>>

Create(s) ==
  /\ as[s] # 0
  /\ characters' = characters \cup {[id |-> nextId, owner |-> as[s]]}
  /\ nextId' = nextId + 1
  /\ UNCHANGED <<given, as>>

Delete(s, c) ==
  /\ c \in characters /\ c.owner = as[s]
  /\ characters' = characters \ {c}
  /\ UNCHANGED <<given, nextId, as>>

Next ==
  \/ \E n \in Names : Register(n)
  \/ \E s \in Sessions :
       \/ \E a \in DOMAIN given : LogIn(s, a)
       \/ Create(s)
       \/ \E c \in characters : Delete(s, c)
  \/ \E S \in SUBSET Sessions : LogOut(S)

Spec == Init /\ [][Next]_vars
=============================================================================
