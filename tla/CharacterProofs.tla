--------------------------- MODULE CharacterProofs ---------------------------
(* Proofs about a character and its rows, for any templates, prices, bag   *)
(* size and bounds: the weapon in use is always found in the bag, however  *)
(* often the character dies; a used potion has no row and comes back by no *)
(* login; nobody plays with no hp; and until the first death the rows hold *)
(* the character's gold and items, each in a slot of its own, and its      *)
(* quest, until it takes a second one.                                     *)
EXTENDS Character, FiniteSetTheorems, SequenceTheorems, WellFoundedInduction, TLAPS

(* An item, and a set of items by id: the ids were handed out before n,    *)
(* and only weapons are equipped.                                          *)
IsItem(x) ==
  /\ x = [tmpl |-> x.tmpl, slot |-> x.slot, equipped |-> x.equipped]
  /\ x.equipped \in BOOLEAN
  /\ x.equipped = TRUE => x.tmpl \in Weapons

IsBag(b, n) ==
  \A i \in DOMAIN b : IsItem(b[i]) /\ i \in Nat /\ 0 < i /\ i < n

(* An id means the same item wherever it occurs.                           *)
Agree(b, c) == \A i \in DOMAIN b \cap DOMAIN c : b[i].tmpl = c[i].tmpl

WeaponOK == weapon # NoWeapon => weapon \in DOMAIN inven /\ inven[weapon].tmpl \in Weapons

(* The inductive invariant.  WeaponInBag alone is not inductive: UseItem   *)
(* removes an item, and it must not be the weapon, so the weapon must be   *)
(* one by template; and the weapon comes from rows that SavePlayerInfo     *)
(* wrote by id, so ids must mean the same item in all three copies.        *)
ItemInv ==
  /\ nextId \in Nat /\ 0 < nextId
  /\ IsBag(itemRows, nextId) /\ IsBag(inven, nextId) /\ IsBag(snapshot.items, nextId)
  /\ Agree(itemRows, inven) /\ Agree(itemRows, snapshot.items) /\ Agree(inven, snapshot.items)
  /\ snapshot = [gold |-> snapshot.gold, hp |-> snapshot.hp, items |-> snapshot.items]
  /\ WeaponOK

-----------------------------------------------------------------------------
(* Bags.                                                                   *)

(* Ids handed out before n were handed out before a later n.               *)
LEMMA LaterBag ==
  ASSUME NEW b, NEW n \in Nat, IsBag(b, n)
  PROVE  IsBag(b, n + 1)
BY DEF IsBag

(* Dropping an id leaves a bag.                                            *)
LEMMA DropBag ==
  ASSUME NEW b, NEW n \in Nat, NEW k, IsBag(b, n)
  PROVE  /\ IsBag(Drop(b, k), n)
         /\ DOMAIN Drop(b, k) = DOMAIN b \ {k}
         /\ \A i \in DOMAIN b \ {k} : Drop(b, k)[i] = b[i]
BY DEF IsBag, Drop

(* Putting an unequipped item at a fresh id leaves a bag.                  *)
LEMMA PutBag ==
  ASSUME NEW b, NEW n \in Nat, 0 < n, IsBag(b, n), NEW t, NEW s
  PROVE  LET p == Put(b, n, [tmpl |-> t, slot |-> s, equipped |-> FALSE])
         IN  /\ IsBag(p, n + 1)
             /\ DOMAIN p = DOMAIN b \cup {n}
             /\ p[n].tmpl = t
             /\ \A i \in DOMAIN b : p[i] = b[i]
<1> DEFINE x == [tmpl |-> t, slot |-> s, equipped |-> FALSE]
           p == Put(b, n, x)
<1>1. IsItem(x)
  BY DEF IsItem
<1>2. x.tmpl = t
  OBVIOUS
<1> HIDE DEF x
<1>3. DOMAIN p = DOMAIN b \cup {n} /\ p[n] = x
  BY DEF Put
<1>4. n \notin DOMAIN b
  BY DEF IsBag
<1>5. \A i \in DOMAIN b : p[i] = b[i]
  BY <1>4 DEF Put
<1> HIDE DEF p
<1>6. IsBag(p, n + 1)
  <2> SUFFICES ASSUME NEW i \in DOMAIN p
               PROVE  IsItem(p[i]) /\ i \in Nat /\ 0 < i /\ i < n + 1
    BY DEF IsBag
  <2>1. CASE i = n
    BY <2>1, <1>1, <1>3
  <2>2. CASE i \in DOMAIN b
    BY <2>2, <1>5 DEF IsBag
  <2> QED
    BY <2>1, <2>2, <1>3
<1> QED
  BY <1>2, <1>3, <1>5, <1>6 DEF p, x

(* Saving a bag over rows that agree with it keeps ids and templates.      *)
LEMMA SavedBag ==
  ASSUME NEW rows, NEW bag, NEW n \in Nat,
         IsBag(rows, n), IsBag(bag, n), Agree(rows, bag)
  PROVE  /\ IsBag(SavedItems(rows, bag), n)
         /\ DOMAIN SavedItems(rows, bag) = DOMAIN rows
         /\ \A i \in DOMAIN rows : SavedItems(rows, bag)[i].tmpl = rows[i].tmpl
<1> DEFINE s == SavedItems(rows, bag)
<1>1. DOMAIN s = DOMAIN rows
  BY DEF SavedItems
<1>2. ASSUME NEW i \in DOMAIN rows
      PROVE  s[i].tmpl = rows[i].tmpl /\ IsItem(s[i]) /\ i \in Nat /\ 0 < i /\ i < n
  <2>1. IsItem(rows[i]) /\ i \in Nat /\ 0 < i /\ i < n
    BY DEF IsBag
  <2>2. CASE i \in DOMAIN bag
    <3>1. s[i] = [rows[i] EXCEPT !.slot = bag[i].slot, !.equipped = bag[i].equipped]
      BY <2>2 DEF SavedItems
    <3>2. rows[i] = [tmpl |-> rows[i].tmpl, slot |-> rows[i].slot, equipped |-> rows[i].equipped]
      BY <2>1 DEF IsItem
    <3>3. s[i] = [tmpl |-> rows[i].tmpl, slot |-> bag[i].slot, equipped |-> bag[i].equipped]
      BY <3>1, <3>2
    <3>4. IsItem(bag[i]) /\ bag[i].tmpl = rows[i].tmpl
      BY <2>2 DEF IsBag, Agree
    <3> QED
      BY <2>1, <3>3, <3>4 DEF IsItem
  <2>3. CASE i \notin DOMAIN bag
    BY <2>1, <2>3 DEF SavedItems
  <2> QED
    BY <2>2, <2>3
<1> QED
  BY <1>1, <1>2 DEF IsBag

(* Setting the equipped flag of a weapon, or clearing one, leaves a bag.   *)
Flag(b, k, v) == [b EXCEPT ![k].equipped = v]

SameItems(b, c) == DOMAIN b = DOMAIN c /\ \A i \in DOMAIN b : b[i].tmpl = c[i].tmpl

(* Flag changes a flag: it keeps ids and templates, and only weapons get   *)
(* equipped.                                                               *)
LEMMA EquipBag ==
  ASSUME NEW b, NEW n \in Nat, IsBag(b, n), NEW k \in DOMAIN b, NEW v \in BOOLEAN,
         v = TRUE => b[k].tmpl \in Weapons
  PROVE  IsBag(Flag(b, k, v), n) /\ SameItems(Flag(b, k, v), b)
<1> DEFINE e == Flag(b, k, v)
<1>1. DOMAIN e = DOMAIN b
  BY DEF Flag
<1>2. ASSUME NEW i \in DOMAIN b
      PROVE  e[i].tmpl = b[i].tmpl /\ IsItem(e[i]) /\ i \in Nat /\ 0 < i /\ i < n
  <2>1. IsItem(b[i]) /\ i \in Nat /\ 0 < i /\ i < n
    BY DEF IsBag
  <2>2. CASE i = k
    <3>1. e[i] = [b[i] EXCEPT !.equipped = v]
      BY <2>2 DEF Flag
    <3>2. b[i] = [tmpl |-> b[i].tmpl, slot |-> b[i].slot, equipped |-> b[i].equipped]
      BY <2>1 DEF IsItem
    <3>3. e[i] = [tmpl |-> b[i].tmpl, slot |-> b[i].slot, equipped |-> v]
      BY <3>1, <3>2
    <3> QED
      BY <2>1, <2>2, <3>3 DEF IsItem
  <2>3. CASE i # k
    <3>1. e[i] = b[i]
      BY <2>3 DEF Flag
    <3> QED
      BY <2>1, <3>1
  <2> QED
    BY <2>2, <2>3
<1> HIDE DEF e
<1>3. IsBag(e, n)
  BY <1>1, <1>2 DEF IsBag
<1> QED
  BY <1>1, <1>2, <1>3 DEF e, SameItems

(* The weapon CreatePlayer chooses is an equipped item of the bag.         *)
LEMMA WieldedFact ==
  ASSUME NEW b, NEW n, IsBag(b, n), NEW w \in Wielded(b)
  PROVE  w # NoWeapon => w \in DOMAIN b /\ b[w].tmpl \in Weapons
<1>1. w = NoWeapon \/ (w \in DOMAIN b /\ b[w].equipped)
  BY DEF Wielded
<1> QED
  BY <1>1 DEF IsBag, IsItem

-----------------------------------------------------------------------------
(* Handlers.  Most of them change the bag and the rows in a way that keeps *)
(* every item where it was: same ids, same templates.                      *)

(* A step that keeps the items, the weapon and the snapshot's items.       *)
LEMMA KeepItems ==
  ASSUME ItemInv, nextId' = nextId,
         IsBag(itemRows', nextId), SameItems(itemRows', itemRows),
         IsBag(inven', nextId), SameItems(inven', inven),
         snapshot' = snapshot, WeaponOK'
  PROVE  ItemInv'
<1>1. Agree(itemRows', inven')
  BY DEF ItemInv, Agree, SameItems
<1>2. Agree(itemRows', snapshot'.items)
  BY DEF ItemInv, Agree, SameItems
<1>3. Agree(inven', snapshot'.items)
  BY DEF ItemInv, Agree, SameItems
<1> QED
  BY <1>1, <1>2, <1>3 DEF ItemInv

(* A step that saves the bag it leaves unchanged.                          *)
LEMMA SaveFact ==
  ASSUME ItemInv, nextId' = nextId, itemRows' = SavedItems(itemRows, inven),
         inven' = inven, weapon' = weapon, snapshot' = snapshot
  PROVE  ItemInv'
<1>1. IsBag(itemRows', nextId) /\ SameItems(itemRows', itemRows)
  BY SavedBag DEF ItemInv, SameItems
<1>2. IsBag(inven', nextId) /\ SameItems(inven', inven)
  BY DEF ItemInv, SameItems
<1>3. WeaponOK'
  BY DEF ItemInv, WeaponOK
<1> QED
  BY <1>1, <1>2, <1>3, KeepItems

(* C_TryLogin: the snapshot is the rows.                                   *)
LEMMA TryLoginFact ==
  ASSUME ItemInv, TryLogin
  PROVE  ItemInv'
<1>1. /\ snapshot' = [gold |-> row.gold, hp |-> row.hp, items |-> itemRows]
      /\ itemRows' = itemRows /\ nextId' = nextId /\ inven' = inven /\ weapon' = weapon
  BY DEF TryLogin, dbVars, playerVars
<1>2. /\ snapshot'.items = itemRows
      /\ snapshot' = [gold |-> snapshot'.gold, hp |-> snapshot'.hp, items |-> snapshot'.items]
  BY <1>1
<1>3. Agree(itemRows', inven') /\ Agree(itemRows', snapshot'.items)
      /\ Agree(inven', snapshot'.items)
  BY <1>1, <1>2 DEF ItemInv, Agree
<1>4. WeaponOK'
  BY <1>1 DEF ItemInv, WeaponOK
<1>5. IsBag(itemRows', nextId') /\ IsBag(inven', nextId') /\ IsBag(snapshot'.items, nextId')
      /\ nextId' \in Nat /\ 0 < nextId'
  BY <1>1, <1>2 DEF ItemInv
<1> QED
  BY <1>2, <1>3, <1>4, <1>5 DEF ItemInv

(* EnterPlayer and Revive: the bag becomes the snapshot's items, and bag   *)
(* is saved over the rows.                                                 *)
LEMMA RebuildFact ==
  ASSUME ItemInv, NEW bag, bag \in {inven, snapshot.items},
         itemRows' = SavedItems(itemRows, bag), nextId' = nextId,
         inven' = snapshot.items, weapon' \in Wielded(snapshot.items),
         snapshot'.items = snapshot.items,
         snapshot' = [gold |-> snapshot'.gold, hp |-> snapshot'.hp, items |-> snapshot'.items]
  PROVE  ItemInv'
<1>1. IsBag(bag, nextId) /\ Agree(itemRows, bag)
  BY DEF ItemInv
<1>2. IsBag(itemRows', nextId) /\ SameItems(itemRows', itemRows)
  BY <1>1, SavedBag DEF ItemInv, SameItems
<1>3. Agree(itemRows', inven') /\ Agree(itemRows', snapshot'.items)
      /\ Agree(inven', snapshot'.items)
  BY <1>2 DEF ItemInv, Agree, SameItems
<1>4. WeaponOK'
  BY WieldedFact DEF ItemInv, WeaponOK
<1>5. IsBag(itemRows', nextId') /\ IsBag(inven', nextId') /\ IsBag(snapshot'.items, nextId')
      /\ nextId' \in Nat /\ 0 < nextId'
  BY <1>2 DEF ItemInv
<1> QED
  BY <1>3, <1>4, <1>5 DEF ItemInv

(* Additem puts the same new item into the rows and into the bag.          *)
LEMMA AddedFact ==
  ASSUME ItemInv, NEW t, NEW b, IsBag(b, nextId), Additem(t)
  PROVE  /\ nextId' \in Nat /\ 0 < nextId'
         /\ IsBag(Added(b, t), nextId')
         /\ DOMAIN Added(b, t) = IF Full THEN DOMAIN b ELSE DOMAIN b \cup {nextId}
         /\ ~Full => Added(b, t)[nextId].tmpl = t
         /\ \A i \in DOMAIN b : Added(b, t)[i] = b[i]
         /\ nextId' = IF Full THEN nextId ELSE nextId + 1
<1>0. nextId \in Nat /\ 0 < nextId
  BY DEF ItemInv
<1>1. CASE Full
  BY <1>0, <1>1 DEF Additem, Added
<1>2. CASE ~Full
  <2> DEFINE p == Put(b, nextId, [tmpl |-> t, slot |-> GetEmptySlot(inven), equipped |-> FALSE])
  <2>1. Added(b, t) = p /\ nextId' = nextId + 1
    BY <1>2 DEF Additem, Added
  <2>2. /\ IsBag(p, nextId + 1) /\ DOMAIN p = DOMAIN b \cup {nextId}
        /\ p[nextId].tmpl = t /\ \A i \in DOMAIN b : p[i] = b[i]
    BY <1>0, PutBag
  <2> HIDE DEF p
  <2> QED
    BY <1>0, <1>2, <2>1, <2>2
<1> QED
  BY <1>1, <1>2

(* C_PickUpItem and C_BuyItem: rows are what Additem made of the rows, or  *)
(* those saved with the new bag.                                           *)
LEMMA AdditemFact ==
  ASSUME ItemInv, NEW t, Additem(t),
         itemRows' \in {Added(itemRows, t), SavedItems(Added(itemRows, t), inven')},
         weapon' = weapon, snapshot' = snapshot
  PROVE  ItemInv'
<1> DEFINE rows == Added(itemRows, t)
<1>1. inven' = Added(inven, t)
  BY DEF Additem
<1>2. IsBag(itemRows, nextId) /\ IsBag(inven, nextId) /\ IsBag(snapshot.items, nextId)
  BY DEF ItemInv
<1>3. /\ nextId' \in Nat /\ 0 < nextId'
      /\ IsBag(rows, nextId')
      /\ DOMAIN rows = IF Full THEN DOMAIN itemRows ELSE DOMAIN itemRows \cup {nextId}
      /\ ~Full => rows[nextId].tmpl = t
      /\ \A i \in DOMAIN itemRows : rows[i] = itemRows[i]
      /\ nextId' = IF Full THEN nextId ELSE nextId + 1
  BY <1>2, AddedFact
<1>4. /\ IsBag(inven', nextId')
      /\ DOMAIN inven' = IF Full THEN DOMAIN inven ELSE DOMAIN inven \cup {nextId}
      /\ ~Full => inven'[nextId].tmpl = t
      /\ \A i \in DOMAIN inven : inven'[i] = inven[i]
  BY <1>1, <1>2, AddedFact
<1> HIDE DEF rows
<1>5. nextId \notin DOMAIN itemRows /\ nextId \notin DOMAIN inven
      /\ nextId \notin DOMAIN snapshot.items
  BY <1>2 DEF IsBag, ItemInv
<1>6. Agree(rows, inven')
  <2> SUFFICES ASSUME NEW i \in DOMAIN rows, i \in DOMAIN inven'
               PROVE  rows[i].tmpl = inven'[i].tmpl
    BY DEF Agree
  <2>1. CASE i = nextId
    <3>1. ~Full
      BY <2>1, <1>3, <1>5
    <3> QED
      BY <2>1, <3>1, <1>3, <1>4
  <2>2. CASE i # nextId
    <3>1. i \in DOMAIN itemRows /\ i \in DOMAIN inven
      BY <2>2, <1>3, <1>4
    <3>2. itemRows[i].tmpl = inven[i].tmpl
      BY <3>1 DEF ItemInv, Agree
    <3> QED
      BY <3>1, <3>2, <1>3, <1>4
  <2> QED
    BY <2>1, <2>2
<1>7. IsBag(itemRows', nextId') /\ SameItems(itemRows', rows)
  <2>1. CASE itemRows' = rows
    BY <2>1, <1>3 DEF SameItems
  <2>2. CASE itemRows' = SavedItems(rows, inven')
    BY <2>2, <1>3, <1>4, <1>6, SavedBag DEF SameItems
  <2> QED
    BY <2>1, <2>2 DEF rows
<1>8. Agree(itemRows', inven')
  BY <1>6, <1>7 DEF Agree, SameItems
<1>9. Agree(rows, snapshot.items)
  <2> SUFFICES ASSUME NEW i \in DOMAIN rows, i \in DOMAIN snapshot.items
               PROVE  rows[i].tmpl = snapshot.items[i].tmpl
    BY DEF Agree
  <2>1. i \in DOMAIN itemRows
    BY <1>3, <1>5
  <2> QED
    BY <2>1, <1>3 DEF ItemInv, Agree
<1>10. Agree(itemRows', snapshot'.items)
  BY <1>7, <1>9 DEF Agree, SameItems
<1>11. Agree(inven', snapshot'.items)
  <2> SUFFICES ASSUME NEW i \in DOMAIN inven', i \in DOMAIN snapshot.items
               PROVE  inven'[i].tmpl = snapshot.items[i].tmpl
    BY DEF Agree
  <2>1. i \in DOMAIN inven
    BY <1>4, <1>5
  <2> QED
    BY <2>1, <1>4 DEF ItemInv, Agree
<1>12. IsBag(snapshot'.items, nextId')
  BY <1>2, <1>3, LaterBag DEF ItemInv
<1>13. WeaponOK'
  BY <1>4 DEF ItemInv, WeaponOK
<1> QED
  BY <1>3, <1>4, <1>7, <1>8, <1>10, <1>11, <1>12, <1>13 DEF ItemInv

(* C_EquippedItem: flags of two weapons change, no item does.              *)
LEMMA EquippedItemFact ==
  ASSUME ItemInv, NEW i \in DOMAIN inven, EquippedItem(i)
  PROVE  ItemInv'
<1> DEFINE off == IF weapon = NoWeapon THEN inven
                  ELSE [inven EXCEPT ![weapon].equipped = FALSE]
<1>1. /\ inven[i].tmpl \in Weapons /\ inven' = [off EXCEPT ![i].equipped = TRUE]
      /\ weapon' = (IF weapon = NoWeapon THEN NoWeapon ELSE i)
      /\ itemRows' = SavedItems(itemRows, inven')
      /\ nextId' = nextId /\ snapshot' = snapshot
  BY DEF EquippedItem, SavePlayerInfo
<1>2. nextId \in Nat /\ IsBag(inven, nextId) /\ WeaponOK
  BY DEF ItemInv
<1>3. IsBag(off, nextId) /\ SameItems(off, inven)
  <2>1. CASE weapon = NoWeapon
    BY <2>1, <1>2 DEF SameItems
  <2>2. CASE weapon # NoWeapon
    <3>1. weapon \in DOMAIN inven
      BY <2>2, <1>2 DEF WeaponOK
    <3>2. off = Flag(inven, weapon, FALSE)
      BY <2>2 DEF Flag
    <3>3. FALSE \in BOOLEAN /\ ~(FALSE = TRUE)
      OBVIOUS
    <3>4. IsBag(Flag(inven, weapon, FALSE), nextId) /\ SameItems(Flag(inven, weapon, FALSE), inven)
      BY <3>1, <3>3, <1>2, EquipBag
    <3> HIDE DEF off
    <3> QED
      BY <3>2, <3>4
  <2> QED
    BY <2>1, <2>2
<1> HIDE DEF off
<1>4. IsBag(inven', nextId) /\ SameItems(inven', inven)
  <2>1. i \in DOMAIN off /\ off[i].tmpl \in Weapons
    BY <1>1, <1>3 DEF SameItems
  <2>2. inven' = Flag(off, i, TRUE) /\ TRUE \in BOOLEAN
    BY <1>1 DEF Flag, off
  <2>3. IsBag(inven', nextId) /\ SameItems(inven', off)
    BY <1>2, <1>3, <2>1, <2>2, EquipBag
  <2> QED
    BY <1>3, <2>3 DEF SameItems
<1>5. Agree(itemRows, inven') /\ IsBag(itemRows, nextId)
  BY <1>4 DEF ItemInv, Agree, SameItems
<1>6. IsBag(itemRows', nextId) /\ SameItems(itemRows', itemRows)
  <2>1. /\ IsBag(SavedItems(itemRows, inven'), nextId)
        /\ SameItems(SavedItems(itemRows, inven'), itemRows)
    BY <1>2, <1>4, <1>5, SavedBag DEF SameItems
  <2> QED
    BY <1>1, <2>1
<1>7. WeaponOK'
  BY <1>1, <1>4 DEF WeaponOK, SameItems
<1> QED
  BY <1>1, <1>4, <1>6, <1>7, KeepItems

(* C_UseItem: the item leaves the bag and the rows, and it is no weapon.   *)
LEMMA UseItemFact ==
  ASSUME ItemInv, NEW i \in DOMAIN inven, UseItem(i)
  PROVE  /\ ItemInv'
         /\ DOMAIN itemRows' = DOMAIN itemRows \ {i}
         /\ DOMAIN inven' = DOMAIN inven \ {i}
<1> DEFINE rows == Drop(itemRows, i)
<1>1. /\ inven[i].tmpl \in Potions /\ inven' = Drop(inven, i)
      /\ itemRows' = SavedItems(rows, inven')
      /\ nextId' = nextId /\ snapshot' = snapshot /\ weapon' = weapon
  BY DEF UseItem, SavePlayerInfo
<1>2. nextId \in Nat /\ IsBag(inven, nextId) /\ IsBag(itemRows, nextId)
  BY DEF ItemInv
<1>3. /\ IsBag(rows, nextId) /\ DOMAIN rows = DOMAIN itemRows \ {i}
      /\ \A j \in DOMAIN itemRows \ {i} : rows[j] = itemRows[j]
  BY <1>2, DropBag
<1>4. /\ IsBag(inven', nextId) /\ DOMAIN inven' = DOMAIN inven \ {i}
      /\ \A j \in DOMAIN inven \ {i} : inven'[j] = inven[j]
  BY <1>1, <1>2, DropBag
<1> HIDE DEF rows
<1>5. Agree(rows, inven')
  BY <1>3, <1>4 DEF ItemInv, Agree
<1>6. /\ IsBag(itemRows', nextId) /\ DOMAIN itemRows' = DOMAIN rows
      /\ \A j \in DOMAIN rows : itemRows'[j].tmpl = rows[j].tmpl
  BY <1>1, <1>2, <1>3, <1>4, <1>5, SavedBag
<1>7. Agree(itemRows', inven')
  BY <1>5, <1>6 DEF Agree
<1>8. Agree(itemRows', snapshot'.items)
  BY <1>1, <1>3, <1>6 DEF ItemInv, Agree
<1>9. Agree(inven', snapshot'.items)
  BY <1>1, <1>4 DEF ItemInv, Agree
<1>10. WeaponOK'
  <2>1. CASE weapon = NoWeapon
    BY <2>1, <1>1 DEF WeaponOK
  <2>2. CASE weapon # NoWeapon
    <3>1. weapon \in DOMAIN inven /\ inven[weapon].tmpl \in Weapons
      BY <2>2 DEF ItemInv, WeaponOK
    <3>2. weapon # i
      BY <1>1, <3>1, CharacterAssumption
    <3> QED
      BY <1>1, <1>4, <3>1, <3>2 DEF WeaponOK
  <2> QED
    BY <2>1, <2>2
<1>11. ItemInv'
  <2>1. IsBag(itemRows', nextId') /\ IsBag(inven', nextId')
    BY <1>1, <1>4, <1>6
  <2>2. /\ IsBag(snapshot'.items, nextId') /\ nextId' \in Nat /\ 0 < nextId'
        /\ snapshot' = [gold |-> snapshot'.gold, hp |-> snapshot'.hp, items |-> snapshot'.items]
    BY <1>1 DEF ItemInv
  <2> QED
    BY <2>1, <2>2, <1>7, <1>8, <1>9, <1>10 DEF ItemInv
<1> QED
  BY <1>3, <1>4, <1>6, <1>11

(* A step that touches neither the items nor the weapon nor the snapshot.  *)
LEMMA StutterFact ==
  ASSUME ItemInv, UNCHANGED <<itemRows, nextId, snapshot, inven, weapon>>
  PROVE  ItemInv'
<1>1. snapshot' = snapshot /\ nextId' = nextId /\ itemRows' = itemRows
      /\ inven' = inven /\ weapon' = weapon
  OBVIOUS
<1>2. WeaponOK'
  BY <1>1 DEF ItemInv, WeaponOK
<1> QED
  BY <1>1, <1>2 DEF ItemInv

(* Every step of the character keeps the invariant.                        *)
LEMMA NextFact ==
  ASSUME ItemInv, [Next]_vars
  PROVE  ItemInv'
<1>1. CASE TryLogin
  BY <1>1, TryLoginFact
<1>2. CASE EnterPlayer
  <2>1. /\ itemRows' = SavedItems(itemRows, snapshot.items) /\ nextId' = nextId
        /\ inven' = snapshot.items /\ weapon' \in Wielded(snapshot.items)
        /\ snapshot' = snapshot
    BY <1>2 DEF EnterPlayer, CreatePlayer, SavePlayerInfo
  <2>2. snapshot' = [gold |-> snapshot'.gold, hp |-> snapshot'.hp, items |-> snapshot'.items]
    BY <2>1 DEF ItemInv
  <2> QED
    BY <2>1, <2>2, RebuildFact
<1>3. CASE \E damage \in 1..MaxHp : OnDead(damage)
  <2>1. /\ itemRows' = SavedItems(itemRows, inven) /\ nextId' = nextId
        /\ snapshot' = [snapshot EXCEPT !.hp = MaxHp]
        /\ inven' = snapshot'.items /\ weapon' \in Wielded(snapshot'.items)
    BY <1>3 DEF OnDead, CreatePlayer, SavePlayerInfo
  <2>2. snapshot = [gold |-> snapshot.gold, hp |-> snapshot.hp, items |-> snapshot.items]
    BY DEF ItemInv
  <2>3. snapshot' = [gold |-> snapshot.gold, hp |-> MaxHp, items |-> snapshot.items]
    BY <2>1, <2>2
  <2>4. /\ snapshot'.items = snapshot.items
        /\ snapshot' = [gold |-> snapshot'.gold, hp |-> snapshot'.hp, items |-> snapshot'.items]
    BY <2>3
  <2> QED
    BY <2>1, <2>4, RebuildFact
<1>4. CASE Disconnect \/ SaveAllPlayerDb
  <2>1. /\ itemRows' = SavedItems(itemRows, inven) /\ nextId' = nextId
        /\ inven' = inven /\ weapon' = weapon /\ snapshot' = snapshot
    BY <1>4 DEF Disconnect, SaveAllPlayerDb, SavePlayerInfo, playerVars
  <2> QED
    BY <2>1, SaveFact
<1>5. CASE LeaveLobby \/ Crash \/ UNCHANGED vars
  BY <1>5, StutterFact DEF LeaveLobby, Crash, vars, dbVars, playerVars
<1>6. CASE \E t \in Templates : PickItem(t) \/ BuyItem(t)
  <2>1. PICK t \in Templates : PickItem(t) \/ BuyItem(t)
    BY <1>6
  <2>2. /\ Additem(t)
        /\ itemRows' \in {Added(itemRows, t), SavedItems(Added(itemRows, t), inven')}
        /\ weapon' = weapon /\ snapshot' = snapshot
    BY <2>1 DEF PickItem, BuyItem, SavePlayerInfo
  <2> QED
    BY <2>2, AdditemFact
<1>7. CASE \E i \in DOMAIN inven : EquippedItem(i) \/ UseItem(i)
  BY <1>7, EquippedItemFact, UseItemFact
<1>8. CASE \E q \in Quests : AcceptQuest(q) \/ AcceptQuestAgain(q)
  BY <1>8, StutterFact DEF AcceptQuest, AcceptQuestAgain, dbVars, playerVars
<1>9. CASE \E m \in Monsters, reward \in 0..1 : Kill(m, reward)
  <2>1. /\ itemRows' = SavedItems(itemRows, inven) /\ nextId' = nextId
        /\ inven' = inven /\ weapon' = weapon /\ snapshot' = snapshot
    BY <1>9 DEF Kill
  <2> QED
    BY <2>1, SaveFact
<1>10. CASE \E damage \in 1..MaxHp : OnDamaged(damage)
  BY <1>10, StutterFact DEF OnDamaged, dbVars
<1> QED
  BY <1>1, <1>2, <1>3, <1>4, <1>5, <1>6, <1>7, <1>8, <1>9, <1>10 DEF Next

(* A new character has no items.                                           *)
LEMMA InitFact == Init => ItemInv
<1> SUFFICES ASSUME Init PROVE ItemInv
  OBVIOUS
<1>1. /\ itemRows = Empty /\ inven = Empty /\ nextId = 1 /\ weapon = NoWeapon
      /\ snapshot = [gold |-> 0, hp |-> MaxHp, items |-> Empty]
  BY DEF Init
<1>2. DOMAIN Empty = {}
  BY DEF Empty
<1>3. snapshot.items = Empty
      /\ snapshot = [gold |-> snapshot.gold, hp |-> snapshot.hp, items |-> snapshot.items]
  BY <1>1
<1> QED
  BY <1>1, <1>2, <1>3 DEF ItemInv, IsBag, Agree, WeaponOK

(* Every item's id means one thing in the rows, the bag and the snapshot.  *)
THEOREM ItemsInvariant == Spec => []ItemInv
<1>1. ItemInv /\ [Next]_vars => ItemInv'
  BY NextFact
<1> QED
  BY InitFact, <1>1, PTL DEF Spec

(* EquippedItem always finds the weapon it takes off: GetItem does not     *)
(* return null there, after any number of deaths, crashes and logins.      *)
THEOREM WeaponIsInBag == Spec => []WeaponInBag
<1>1. ItemInv => WeaponInBag
  BY DEF ItemInv, WeaponOK, WeaponInBag
<1> QED
  BY ItemsInvariant, <1>1, PTL

-----------------------------------------------------------------------------
(* Used items.                                                             *)

(* Inductive: a used item has no row, and its id is never handed out       *)
(* again; nor is it among what the player holds (until it dies), or is     *)
(* about to be given at the next EnterPlayer.                              *)
UsedInv ==
  /\ deaths \in Nat
  /\ \A i \in used : i \in Nat /\ i < nextId
  /\ used \cap DOMAIN itemRows = {}
  /\ status = "room" /\ deaths = 0 => used \cap DOMAIN inven = {}
  /\ status = "lobby" => used \cap DOMAIN snapshot.items = {}

(* A step that uses no item and hands out no id, and keeps the rows, the   *)
(* bag and the snapshot.                                                   *)
LEMMA UsedKept ==
  ASSUME UsedInv, used' = used, deaths' = deaths, nextId' = nextId,
         DOMAIN itemRows' = DOMAIN itemRows, inven' = inven, snapshot' = snapshot,
         status' \in {status, "offline"}
  PROVE  UsedInv'
BY DEF UsedInv

(* A new item is not a used one.                                           *)
LEMMA UsedAdditem ==
  ASSUME ItemInv, UsedInv, NEW t, Playing, Additem(t), used' = used, deaths' = deaths,
         itemRows' \in {Added(itemRows, t), SavedItems(Added(itemRows, t), inven')},
         snapshot' = snapshot, status' = status
  PROVE  UsedInv'
<1>1. IsBag(itemRows, nextId) /\ IsBag(inven, nextId) /\ nextId \in Nat
  BY DEF ItemInv
<1>2. /\ DOMAIN Added(itemRows, t) \subseteq DOMAIN itemRows \cup {nextId}
      /\ DOMAIN Added(inven, t) \subseteq DOMAIN inven \cup {nextId}
      /\ nextId' \in {nextId, nextId + 1}
  BY <1>1, AddedFact
<1>3. DOMAIN itemRows' \subseteq DOMAIN itemRows \cup {nextId}
  BY <1>2 DEF SavedItems
<1>4. inven' = Added(inven, t) /\ status = "room"
  BY DEF Additem, Playing
<1>5. nextId \notin used
  BY <1>1 DEF UsedInv
<1> QED
  BY <1>1, <1>2, <1>3, <1>4, <1>5 DEF UsedInv

(* Every step keeps UsedInv.                                               *)
LEMMA UsedNext ==
  ASSUME ItemInv, UsedInv, [Next]_vars
  PROVE  UsedInv'
<1>1. CASE TryLogin
  <2>1. /\ status' = "lobby" /\ snapshot'.items = itemRows /\ itemRows' = itemRows
        /\ nextId' = nextId /\ used' = used /\ deaths' = deaths
    BY <1>1 DEF TryLogin, dbVars
  <2> QED
    BY <2>1 DEF UsedInv
<1>2. CASE EnterPlayer
  <2>1. /\ status = "lobby" /\ status' = "room" /\ inven' = snapshot.items
        /\ itemRows' = SavedItems(itemRows, inven') /\ nextId' = nextId
        /\ used' = used /\ deaths' = deaths
    BY <1>2 DEF EnterPlayer, CreatePlayer, SavePlayerInfo
  <2>2. DOMAIN itemRows' = DOMAIN itemRows
    BY <2>1 DEF SavedItems
  <2> QED
    BY <2>1, <2>2 DEF UsedInv
<1>3. CASE \E damage \in 1..MaxHp : OnDead(damage)
  <2>1. PICK damage \in 1..MaxHp : OnDead(damage)
    BY <1>3
  <2>2. /\ itemRows' = SavedItems(itemRows, inven) /\ nextId' = nextId
        /\ used' = used /\ deaths' = deaths + 1 /\ status = "room" /\ status' = status
    BY <2>1 DEF OnDead, SavePlayerInfo, Playing
  <2>3. DOMAIN itemRows' = DOMAIN itemRows
    BY <2>2 DEF SavedItems
  <2> QED
    BY <2>2, <2>3 DEF UsedInv
<1>4. CASE Disconnect \/ SaveAllPlayerDb
  <2>1. /\ itemRows' = SavedItems(itemRows, inven) /\ nextId' = nextId /\ inven' = inven
        /\ snapshot' = snapshot /\ used' = used /\ deaths' = deaths
        /\ status' \in {status, "offline"}
    BY <1>4 DEF Disconnect, SaveAllPlayerDb, SavePlayerInfo, playerVars
  <2>2. DOMAIN itemRows' = DOMAIN itemRows
    BY <2>1 DEF SavedItems
  <2> QED
    BY <2>1, <2>2, UsedKept
<1>5. CASE LeaveLobby \/ Crash \/ UNCHANGED vars
  BY <1>5, UsedKept DEF LeaveLobby, Crash, vars, dbVars, playerVars
<1>6. CASE \E t \in Templates : PickItem(t) \/ BuyItem(t)
  <2>1. PICK t \in Templates : PickItem(t) \/ BuyItem(t)
    BY <1>6
  <2>2. /\ Playing /\ Additem(t) /\ used' = used /\ deaths' = deaths
        /\ itemRows' \in {Added(itemRows, t), SavedItems(Added(itemRows, t), inven')}
        /\ snapshot' = snapshot /\ status' = status
    BY <2>1 DEF PickItem, BuyItem, SavePlayerInfo
  <2> QED
    BY <2>2, UsedAdditem
<1>7. CASE \E i \in DOMAIN inven : EquippedItem(i)
  <2>1. PICK i \in DOMAIN inven : EquippedItem(i)
    BY <1>7
  <2>2. /\ itemRows' = SavedItems(itemRows, inven') /\ nextId' = nextId
        /\ snapshot' = snapshot /\ used' = used /\ deaths' = deaths /\ status' = status
        /\ DOMAIN inven' = DOMAIN inven
    BY <2>1 DEF EquippedItem, SavePlayerInfo
  <2>3. DOMAIN itemRows' = DOMAIN itemRows
    BY <2>2 DEF SavedItems
  <2> QED
    BY <2>2, <2>3 DEF UsedInv
<1>8. CASE \E i \in DOMAIN inven : UseItem(i)
  <2>1. PICK i \in DOMAIN inven : UseItem(i)
    BY <1>8
  <2>2. /\ DOMAIN itemRows' = DOMAIN itemRows \ {i} /\ DOMAIN inven' = DOMAIN inven \ {i}
    BY <2>1, UseItemFact
  <2>3. /\ used' = used \cup {i} /\ nextId' = nextId /\ status = "room" /\ status' = status
        /\ deaths' = deaths
    BY <2>1 DEF UseItem, Playing
  <2>4. i \in Nat /\ i < nextId
    BY DEF ItemInv, IsBag
  <2> QED
    BY <2>2, <2>3, <2>4 DEF UsedInv
<1>9. CASE \E q \in Quests : AcceptQuest(q) \/ AcceptQuestAgain(q)
  BY <1>9, UsedKept DEF AcceptQuest, AcceptQuestAgain, dbVars, playerVars
<1>10. CASE \E m \in Monsters, reward \in 0..1 : Kill(m, reward)
  <2>1. /\ itemRows' = SavedItems(itemRows, inven) /\ nextId' = nextId /\ inven' = inven
        /\ snapshot' = snapshot /\ used' = used /\ deaths' = deaths /\ status' = status
    BY <1>10 DEF Kill
  <2>2. DOMAIN itemRows' = DOMAIN itemRows
    BY <2>1 DEF SavedItems
  <2> QED
    BY <2>1, <2>2, UsedKept
<1>11. CASE \E damage \in 1..MaxHp : OnDamaged(damage)
  BY <1>11, UsedKept DEF OnDamaged, dbVars
<1> QED
  BY <1>1, <1>2, <1>3, <1>4, <1>5, <1>6, <1>7, <1>8, <1>9, <1>10, <1>11 DEF Next

(* A used potion is gone for good: from the database and every later       *)
(* login, and from the bag as long as no revival brings it back.           *)
THEOREM UsedIsGone == Spec => []UsedStaysUsed
<1>1. Init => UsedInv
  BY DEF Init, UsedInv
<1>2. ItemInv /\ UsedInv /\ [Next]_vars => UsedInv'
  BY UsedNext
<1>3. UsedInv => UsedStaysUsed
  BY DEF UsedInv, UsedStaysUsed
<1> QED
  BY ItemsInvariant, <1>1, <1>2, <1>3, PTL DEF Spec

-----------------------------------------------------------------------------
(* Numbers and bags as functions.                                          *)

(* The least of a set of naturals.                                         *)
LEMMA MinIs ==
  ASSUME NEW S \in SUBSET Nat, S # {}
  PROVE  Min(S) \in S /\ \A y \in S : Min(S) <= y
<1> DEFINE R == OpToRel(<, Nat)
<1>1. \A x, y \in Nat : x < y => <<x, y>> \in R
  BY DEF OpToRel
<1>2. IsWellFoundedOn(R, Nat)
  BY NatLessThanWellFounded
<1> HIDE DEF R
<1>3. \E x \in S : \A y \in S : ~ (<<y, x>> \in R)
  BY <1>2, WFMin
<1>4. PICK x \in S : \A y \in S : ~ (<<y, x>> \in R)
  BY <1>3
<1>5. \A y \in S : y \in Nat /\ x \in Nat /\ ~ (y < x)
  BY <1>1, <1>4
<1>6. \A y \in S : x <= y
  BY <1>5
<1> QED BY <1>6 DEF Min

(* The greatest of a finite one: were there none, the next greater element *)
(* would be an injection of the set that misses its least one.             *)
LEMMA MaxIs ==
  ASSUME NEW S \in SUBSET Nat, S # {}, IsFiniteSet(S)
  PROVE  Max(S) \in S /\ \A y \in S : y <= Max(S)
<1> SUFFICES ASSUME ~ \E x \in S : \A y \in S : x >= y PROVE FALSE
  <2> SUFFICES ASSUME NEW x \in S, \A y \in S : x >= y
               PROVE  Max(S) \in S /\ \A y \in S : y <= Max(S)
    OBVIOUS
  <2>1. Max(S) \in S /\ \A y \in S : Max(S) >= y
    BY DEF Max
  <2> QED BY <2>1
<1>0. \A x \in S : \E y \in S : x < y
  OBVIOUS
<1> DEFINE Above(x) == {y \in S : x < y}
           next == [x \in S |-> Min(Above(x))]
<1>1. ASSUME NEW x \in S PROVE next[x] \in S /\ x < next[x] /\ \A y \in S : x < y => next[x] <= y
  <2>1. Above(x) \in SUBSET Nat /\ Above(x) # {}
    BY <1>0
  <2>2. Min(Above(x)) \in Above(x) /\ \A y \in Above(x) : Min(Above(x)) <= y
    BY <2>1, MinIs
  <2>3. next[x] = Min(Above(x))
    OBVIOUS
  <2> QED BY <2>2, <2>3
<1>2. next \in [S -> S]
  BY <1>1
<1> HIDE DEF next, Above
<1>3. next \in Injection(S, S)
  <2>1. ASSUME NEW x \in S, NEW z \in S, x # z PROVE next[x] # next[z]
    <3>1. x < z \/ z < x
      BY <2>1
    <3>2. next[x] \in Nat /\ next[z] \in Nat /\ x \in Nat /\ z \in Nat
      BY <1>1
    <3> QED BY <1>1, <3>1, <3>2
  <2> QED BY <1>2, <2>1 DEF Injection, IsInjective
<1>4. next \in Surjection(S, S)
  BY <1>3, FS_Injection
<1>5. PICK x \in S : next[x] = Min(S)
  BY <1>4, MinIs DEF Surjection
<1>6. Min(S) <= x /\ x < next[x] /\ x \in Nat /\ Min(S) \in Nat
  BY <1>1, MinIs
<1> QED BY <1>5, <1>6

(* The slot Additem uses is one of the bag's and is empty.                 *)
LEMMA EmptySlotIs ==
  ASSUME NEW b, GetEmptySlot(b) # -1
  PROVE  /\ GetEmptySlot(b) \in 0..(MaxSlot - 1)
         /\ \A i \in DOMAIN b : b[i].slot # GetEmptySlot(b)
<1> DEFINE free == {s \in 0..(MaxSlot - 1) : \A i \in DOMAIN b : b[i].slot # s}
<1>1. free # {} /\ GetEmptySlot(b) = Min(free)
  BY DEF GetEmptySlot
<1>2. free \in SUBSET Nat
  BY CharacterAssumption
<1>3. Min(free) \in free
  <2> HIDE DEF free
  <2> QED BY <1>1, <1>2, MinIs
<1> QED BY <1>1, <1>3

(* No two items of a bag are in one slot.                                  *)
Apart(b) == \A i, j \in DOMAIN b : b[i].slot = b[j].slot => i = j

Bag(b) == b \in [DOMAIN b -> Item]

(* What Additem puts into a bag is put where nothing is.                   *)
LEMMA AddedIs ==
  ASSUME NEW b, Bag(b), NEW t \in Templates
  PROVE  /\ Bag(Added(b, t))
         /\ (b = inven /\ Apart(b)) => Apart(Added(b, t))
<1>1. CASE Full
  BY <1>1 DEF Added
<1>2. CASE ~Full
  <2> DEFINE x == [tmpl |-> t, slot |-> GetEmptySlot(inven), equipped |-> FALSE]
             c == Put(b, nextId, x)
  <2>1. /\ GetEmptySlot(inven) \in 0..(MaxSlot - 1)
        /\ \A i \in DOMAIN inven : inven[i].slot # GetEmptySlot(inven)
    BY <1>2, EmptySlotIs DEF Full
  <2>2. x \in Item /\ x.slot = GetEmptySlot(inven)
    BY <2>1 DEF Item
  <2>3. Added(b, t) = c
    BY <1>2 DEF Added
  <2> HIDE DEF x
  <2>4. c \in [DOMAIN b \cup {nextId} -> Item]
    BY <2>2 DEF Put, Bag
  <2>5. DOMAIN c = DOMAIN b \cup {nextId}
    BY <2>4
  <2>6. \A i \in DOMAIN c : c[i] = IF i = nextId THEN x ELSE b[i]
    BY DEF Put
  <2> HIDE DEF c
  <2>7. b = inven /\ Apart(b) => Apart(c)
    BY <2>1, <2>2, <2>5, <2>6 DEF Apart
  <2> QED BY <2>3, <2>4, <2>5, <2>7 DEF Bag
<1> QED BY <1>1, <1>2

(* The rest of a bag is a bag.                                             *)
LEMMA DropIs ==
  ASSUME NEW b, Bag(b), NEW i
  PROVE  Bag(Drop(b, i)) /\ (Apart(b) => Apart(Drop(b, i)))
<1>1. Drop(b, i) \in [DOMAIN b \ {i} -> Item]
  BY DEF Drop, Bag
<1>2. DOMAIN Drop(b, i) = DOMAIN b \ {i} /\ \A j \in DOMAIN b \ {i} : Drop(b, i)[j] = b[j]
  BY DEF Drop
<1> QED BY <1>1, <1>2 DEF Bag, Apart

(* Saving a bag over rows gives rows, which are the bag itself if they     *)
(* were its items.                                                         *)
LEMMA SavedIs ==
  ASSUME NEW rows, Bag(rows), NEW b, Bag(b)
  PROVE  /\ Bag(SavedItems(rows, b))
         /\ SameItems(rows, b) => SavedItems(rows, b) = b
<1> DEFINE v == SavedItems(rows, b)
<1>1. DOMAIN v = DOMAIN rows
  BY DEF SavedItems
<1>2. ASSUME NEW i \in DOMAIN rows
      PROVE  /\ v[i] \in Item
             /\ i \in DOMAIN b /\ rows[i].tmpl = b[i].tmpl => v[i] = b[i]
  <2>1. rows[i] \in Item
    BY DEF Bag
  <2>2. CASE i \in DOMAIN b
    <3>1. v[i] = [rows[i] EXCEPT !.slot = b[i].slot, !.equipped = b[i].equipped]
      BY <2>2 DEF SavedItems
    <3>2. v[i] = [tmpl |-> rows[i].tmpl, slot |-> b[i].slot, equipped |-> b[i].equipped]
      BY <2>1, <3>1 DEF Item
    <3>3. b[i] \in Item
      BY <2>2 DEF Bag
    <3> QED BY <2>1, <3>2, <3>3 DEF Item
  <2>3. CASE i \notin DOMAIN b
    BY <2>1, <2>3 DEF SavedItems
  <2> QED BY <2>2, <2>3
<1>3. v \in [DOMAIN rows -> Item]
  BY <1>2 DEF SavedItems
<1> HIDE DEF v
<1>4. SameItems(rows, b) => v = b
  <2> SUFFICES ASSUME SameItems(rows, b) PROVE v = b
    OBVIOUS
  <2>1. DOMAIN rows = DOMAIN b /\ \A i \in DOMAIN rows : v[i] = b[i]
    BY <1>2 DEF SameItems
  <2> QED BY <1>3, <2>1 DEF Bag
<1> QED BY <1>1, <1>3, <1>4 DEF Bag, v

(* SetEquipped on an item of a bag.                                        *)
LEMMA FlagIs ==
  ASSUME NEW b, Bag(b), NEW k \in DOMAIN b, NEW v \in BOOLEAN
  PROVE  Bag(Flag(b, k, v)) /\ SameItems(b, Flag(b, k, v)) /\ (Apart(b) => Apart(Flag(b, k, v)))
<1> DEFINE e == Flag(b, k, v)
<1>1. ASSUME NEW i \in DOMAIN b
      PROVE  e[i] \in Item /\ e[i].tmpl = b[i].tmpl /\ e[i].slot = b[i].slot
  <2>1. b[i] \in Item
    BY DEF Bag
  <2>2. CASE i = k
    <3>1. e[i] = [b[i] EXCEPT !.equipped = v]
      BY <2>2 DEF Flag
    <3>2. e[i] = [tmpl |-> b[i].tmpl, slot |-> b[i].slot, equipped |-> v]
      BY <2>1, <3>1 DEF Item
    <3> QED BY <2>1, <3>2 DEF Item
  <2>3. CASE i # k
    BY <2>1, <2>3 DEF Flag
  <2> QED BY <2>2, <2>3
<1>2. e \in [DOMAIN b -> Item] /\ DOMAIN e = DOMAIN b
  BY <1>1 DEF Flag
<1> HIDE DEF e
<1> QED BY <1>1, <1>2 DEF Bag, SameItems, Apart, e

-----------------------------------------------------------------------------
(* Types, and that nobody plays with no hp.                                *)

QuestRow == [quest : Quests, progress : Nat]
Hp == 0..MaxHp

(* What is saved is sound, if what is played is, and that again if what    *)
(* login loaded is.                                                        *)
RowsSound ==
  /\ row.gold \in Nat /\ row.hp \in Hp /\ 0 < row.hp
  /\ Bag(itemRows) /\ questRows \in Seq(QuestRow)

PlayerSound ==
  /\ gold \in Nat /\ hp \in Hp /\ Bag(inven)
  /\ status = "room" => 0 < hp

LoadedSound ==
  /\ snapshot.gold \in Nat /\ snapshot.hp \in Hp /\ 0 < snapshot.hp
  /\ Bag(snapshot.items)
  /\ DOMAIN quests \subseteq Quests /\ IsFiniteSet(DOMAIN quests)
  /\ quests \in [DOMAIN quests -> Nat]

Sound ==
  /\ status \in {"offline", "lobby", "room"} /\ connection \in BOOLEAN
  /\ RowsSound /\ PlayerSound /\ LoadedSound

(* SaveQuestInfo for any quests the character has.                         *)
LEMMA SavedQuestsAre ==
  ASSUME NEW rows \in Seq(QuestRow), NEW qs \in SUBSET Quests, IsFiniteSet(qs),
         NEW list, \A q \in qs : list[q] \in Nat
  PROVE  SavedQuests(rows, qs, list) \in Seq(QuestRow)
<1>1. CASE qs = {}
  BY <1>1 DEF SavedQuests
<1>2. CASE qs # {}
  <2>1. qs \in SUBSET Nat
    BY CharacterAssumption
  <2>2. Max(qs) \in qs
    BY <1>2, <2>1, MaxIs
  <2> DEFINE q == Max(qs)
             x == [quest |-> q, progress |-> list[q]]
  <2>3. SavedQuests(rows, qs, list) = [r \in DOMAIN rows |-> x]
    BY <1>2 DEF SavedQuests, SaveQuestInfo
  <2>4. x \in QuestRow
    BY <2>2 DEF QuestRow
  <2> HIDE DEF x
  <2>5. DOMAIN rows = 1..Len(rows) /\ Len(rows) \in Nat
    BY LenProperties
  <2> QED BY <2>3, <2>4, <2>5
<1> QED BY <1>1, <1>2

(* LoadQuestDb's map of the rows.                                          *)
LEMMA LoadedAre ==
  ASSUME questRows \in Seq(QuestRow), NEW f \in LoadedQuests
  PROVE  /\ DOMAIN f = {questRows[r].quest : r \in DOMAIN questRows}
         /\ DOMAIN f \subseteq Quests /\ IsFiniteSet(DOMAIN f)
         /\ f \in [DOMAIN f -> Nat]
<1> DEFINE ids == {questRows[r].quest : r \in DOMAIN questRows}
           g == [r \in DOMAIN questRows |-> questRows[r].quest]
<1>1. f \in [ids -> 0..MaxProgress]
  BY DEF LoadedQuests
<1>2. ids \subseteq Quests
  <2>1. \A r \in DOMAIN questRows : questRows[r] \in QuestRow
    BY ElementOfSeq, LenProperties
  <2> QED BY <2>1 DEF QuestRow
<1>3. IsFiniteSet(ids)
  <2>1. DOMAIN questRows = 1..Len(questRows) /\ Len(questRows) \in Nat
    BY LenProperties
  <2>2. IsFiniteSet(DOMAIN questRows)
    BY <2>1, FS_Interval
  <2>3. g \in Surjection(DOMAIN questRows, ids)
    BY DEF Surjection
  <2> HIDE DEF ids, g
  <2> QED BY <2>2, <2>3, FS_Surjection
<1>4. 0..MaxProgress \subseteq Nat
  BY CharacterAssumption
<1> HIDE DEF ids
<1> QED BY <1>1, <1>2, <1>3, <1>4 DEF ids

(* Saving what is sound.                                                   *)
LEMMA SaveIsSound ==
  ASSUME Sound, NEW rows, Bag(rows), NEW g \in Nat, NEW h \in Hp, 0 < h, NEW b, Bag(b),
         SavePlayerInfo(rows, g, h, b)
  PROVE  RowsSound'
<1>1. /\ row' = [gold |-> g, hp |-> h] /\ itemRows' = SavedItems(rows, b)
      /\ questRows' = SavedQuests(questRows, DOMAIN quests, quests)
  BY DEF SavePlayerInfo
<1>2. row'.gold = g /\ row'.hp = h
  BY <1>1
<1>3. Bag(itemRows')
  BY <1>1, SavedIs
<1>4. questRows' \in Seq(QuestRow)
  <2>1. \A q \in DOMAIN quests : quests[q] \in Nat
    BY DEF Sound, LoadedSound
  <2> QED BY <1>1, <2>1, SavedQuestsAre DEF Sound, RowsSound, LoadedSound
<1> QED BY <1>2, <1>3, <1>4 DEF RowsSound, Hp

(* A player's own save, as it is.                                          *)
LEMMA PlayerSaves ==
  ASSUME Sound, status = "room", SavePlayerInfo(itemRows, gold, hp, inven)
  PROVE  RowsSound'
<1>1. Bag(itemRows) /\ Bag(inven) /\ gold \in Nat /\ hp \in Hp /\ 0 < hp
  BY DEF Sound, RowsSound, PlayerSound
<1> QED BY <1>1, SaveIsSound

(* Login and its like: what is loaded comes from sound rows.               *)
LEMMA EntersSound ==
  ASSUME Sound, TryLogin \/ EnterPlayer
  PROVE  Sound'
<1>1. CASE TryLogin
  <2>1. /\ snapshot' = [gold |-> row.gold, hp |-> row.hp, items |-> itemRows]
        /\ quests' \in LoadedQuests /\ status' = "lobby"
        /\ UNCHANGED <<row, itemRows, questRows, connection, gold, hp, inven>>
    BY <1>1 DEF TryLogin, dbVars, playerVars
  <2>2. snapshot'.gold = row.gold /\ snapshot'.hp = row.hp /\ snapshot'.items = itemRows
    BY <2>1
  <2>3. LoadedSound'
    BY <2>1, <2>2, LoadedAre DEF Sound, RowsSound, LoadedSound
  <2>4. RowsSound' /\ PlayerSound'
    BY <2>1 DEF Sound, RowsSound, PlayerSound
  <2> QED BY <2>1, <2>3, <2>4 DEF Sound
<1>2. CASE EnterPlayer
  <2>1. /\ gold' = snapshot.gold /\ hp' = snapshot.hp /\ inven' = snapshot.items
        /\ SavePlayerInfo(itemRows, gold', hp', inven') /\ status' = "room"
        /\ UNCHANGED <<connection, snapshot, quests>>
    BY <1>2 DEF EnterPlayer, CreatePlayer
  <2>2. PlayerSound' /\ LoadedSound' /\ Bag(itemRows)
    BY <2>1 DEF Sound, RowsSound, PlayerSound, LoadedSound
  <2>3. gold' \in Nat /\ hp' \in Hp /\ 0 < hp' /\ Bag(inven')
    BY <2>1 DEF Sound, LoadedSound
  <2>4. RowsSound'
    BY <2>1, <2>2, <2>3, SaveIsSound
  <2> QED BY <2>1, <2>2, <2>4 DEF Sound
<1> QED BY <1>1, <1>2

(* What comes into the bag, and what is done with it.                      *)
LEMMA ItemsSound ==
  ASSUME ItemInv, Sound,
         \/ \E t \in Templates : PickItem(t) \/ BuyItem(t)
         \/ \E i \in DOMAIN inven : EquippedItem(i) \/ UseItem(i)
  PROVE  Sound'
<1>0. /\ Bag(itemRows) /\ Bag(inven) /\ gold \in Nat /\ hp \in Hp
      /\ MaxHp \in Nat /\ Heal \in Nat
  BY CharacterAssumption DEF Sound, RowsSound, PlayerSound
<1>1. ASSUME NEW t \in Templates, PickItem(t) PROVE Sound'
  <2>1. /\ inven' = Added(inven, t) /\ itemRows' = Added(itemRows, t)
        /\ UNCHANGED <<status, row, questRows, connection, snapshot, quests, gold, hp>>
    BY <1>1 DEF PickItem, Additem
  <2>2. Bag(inven') /\ Bag(itemRows')
    BY <1>0, <2>1, AddedIs
  <2> QED BY <2>1, <2>2 DEF Sound, RowsSound, PlayerSound, LoadedSound
<1>2. ASSUME NEW t \in Templates, BuyItem(t) PROVE Sound'
  <2>1. /\ inven' = Added(inven, t) /\ status = "room" /\ Price[t] <= gold
        /\ gold' = gold - Price[t]
        /\ SavePlayerInfo(Added(itemRows, t), gold', hp, inven')
        /\ UNCHANGED <<status, connection, snapshot, quests, hp>>
    BY <1>2 DEF BuyItem, Additem, Playing
  <2>2. Bag(inven') /\ Bag(Added(itemRows, t))
    BY <1>0, <2>1, AddedIs
  <2>3. gold' \in Nat
    BY <1>0, <2>1, CharacterAssumption
  <2>4. 0 < hp
    BY <2>1 DEF Sound, PlayerSound
  <2>5. RowsSound'
    BY <1>0, <2>1, <2>2, <2>3, <2>4, SaveIsSound
  <2> QED BY <2>1, <2>2, <2>3, <2>5 DEF Sound, PlayerSound, LoadedSound
<1>3. ASSUME NEW i \in DOMAIN inven, EquippedItem(i) PROVE Sound'
  <2>1. /\ status = "room" /\ SavePlayerInfo(itemRows, gold, hp, inven')
        /\ UNCHANGED <<status, connection, snapshot, quests, gold, hp>>
    BY <1>3 DEF EquippedItem, Playing
  <2>2. Bag(inven')
    <3> DEFINE off == IF weapon = NoWeapon THEN inven ELSE Flag(inven, weapon, FALSE)
    <3>1. inven' = Flag(off, i, TRUE)
      BY <1>3 DEF EquippedItem, Flag
    <3>2. Bag(off) /\ SameItems(inven, off)
      <4>1. weapon # NoWeapon => weapon \in DOMAIN inven
        BY DEF ItemInv, WeaponOK
      <4>2. CASE weapon = NoWeapon
        BY <1>0, <4>2 DEF SameItems
      <4>3. CASE weapon # NoWeapon
        <5>1. Bag(Flag(inven, weapon, FALSE)) /\ SameItems(inven, Flag(inven, weapon, FALSE))
          BY <1>0, <4>1, <4>3, FlagIs
        <5> QED BY <4>3, <5>1
      <4> QED BY <4>2, <4>3
    <3> HIDE DEF off
    <3>3. Bag(Flag(off, i, TRUE))
      BY <3>2, FlagIs DEF SameItems
    <3> QED BY <3>1, <3>3
  <2>3. 0 < hp
    BY <2>1 DEF Sound, PlayerSound
  <2>4. RowsSound'
    BY <1>0, <2>1, <2>2, <2>3, SaveIsSound
  <2> QED BY <2>1, <2>2, <2>4 DEF Sound, PlayerSound, LoadedSound
<1>4. ASSUME NEW i \in DOMAIN inven, UseItem(i) PROVE Sound'
  <2>1. /\ status = "room" /\ inven' = Drop(inven, i) /\ hp' = Min({hp + Heal, MaxHp})
        /\ SavePlayerInfo(Drop(itemRows, i), gold, hp', inven')
        /\ UNCHANGED <<status, connection, snapshot, quests, gold>>
    BY <1>4 DEF UseItem, Playing
  <2>2. Bag(inven') /\ Bag(Drop(itemRows, i))
    BY <1>0, <2>1, DropIs
  <2>3. hp' \in Hp /\ 0 < hp'
    <3>1. hp \in Nat /\ 0 < hp /\ hp <= MaxHp
      BY <1>0, <2>1 DEF Sound, PlayerSound, Hp
    <3>2. {hp + Heal, MaxHp} \in SUBSET Nat /\ {hp + Heal, MaxHp} # {}
      BY <1>0, <3>1
    <3>3. /\ Min({hp + Heal, MaxHp}) \in {hp + Heal, MaxHp}
          /\ \A y \in {hp + Heal, MaxHp} : Min({hp + Heal, MaxHp}) <= y
      BY <3>2, MinIs
    <3> DEFINE m == Min({hp + Heal, MaxHp})
    <3>4. m \in {hp + Heal, MaxHp} /\ m <= MaxHp
      BY <3>3
    <3> HIDE DEF m
    <3>5. m \in Hp /\ 0 < m
      BY <1>0, <3>1, <3>4, CharacterAssumption DEF Hp
    <3> QED BY <2>1, <3>5 DEF m
  <2>4. RowsSound'
    BY <1>0, <2>1, <2>2, <2>3, SaveIsSound
  <2> QED BY <2>1, <2>2, <2>3, <2>4 DEF Sound, PlayerSound, LoadedSound
<1> QED BY <1>1, <1>2, <1>3, <1>4

(* Damage, death and kills.                                                *)
LEMMA FightsSound ==
  ASSUME Sound, ItemInv,
         \/ \E damage \in 1..MaxHp : OnDamaged(damage) \/ OnDead(damage)
         \/ \E m \in Monsters, reward \in 0..1 : Kill(m, reward)
  PROVE  Sound'
<1>0. /\ Bag(itemRows) /\ Bag(inven) /\ gold \in Nat /\ hp \in Hp
      /\ MaxHp \in Nat \ {0}
  BY CharacterAssumption DEF Sound, RowsSound, PlayerSound
<1>1. ASSUME NEW damage \in 1..MaxHp, OnDamaged(damage) PROVE Sound'
  <2>1. /\ damage < hp /\ hp' = hp - damage
        /\ UNCHANGED <<status, row, itemRows, questRows, connection, snapshot, quests,
                       gold, inven>>
    BY <1>1 DEF OnDamaged, dbVars
  <2>2. hp' \in Hp /\ 0 < hp'
    BY <1>0, <2>1 DEF Hp
  <2> QED BY <2>1, <2>2 DEF Sound, RowsSound, PlayerSound, LoadedSound
<1>2. ASSUME NEW damage \in 1..MaxHp, OnDead(damage) PROVE Sound'
  <2>1. /\ snapshot' = [snapshot EXCEPT !.hp = MaxHp] /\ status = "room"
        /\ gold' = snapshot'.gold /\ hp' = snapshot'.hp /\ inven' = snapshot'.items
        /\ SavePlayerInfo(itemRows, gold, hp, inven)
        /\ UNCHANGED <<status, connection, quests>>
    BY <1>2 DEF OnDead, CreatePlayer, Playing
  <2>2. /\ snapshot'.gold = snapshot.gold /\ snapshot'.hp = MaxHp
        /\ snapshot'.items = snapshot.items
    <3>1. snapshot = [gold |-> snapshot.gold, hp |-> snapshot.hp, items |-> snapshot.items]
      BY DEF ItemInv
    <3>2. snapshot' = [gold |-> snapshot.gold, hp |-> MaxHp, items |-> snapshot.items]
      BY <2>1, <3>1
    <3> QED BY <3>2
  <2>3. MaxHp \in Hp /\ 0 < MaxHp
    BY <1>0 DEF Hp
  <2>4. LoadedSound' /\ PlayerSound'
    BY <2>1, <2>2, <2>3 DEF Sound, LoadedSound, PlayerSound
  <2>5. RowsSound'
    BY <2>1, PlayerSaves
  <2> QED BY <2>1, <2>4, <2>5 DEF Sound
<1>3. ASSUME NEW m \in Monsters, NEW reward \in 0..1, Kill(m, reward) PROVE Sound'
  <2> DEFINE D == DOMAIN quests
             hit == {q \in D : Target[q] = m}
             saved == SavedQuests(questRows, D, quests)
  <2>1. /\ status = "room" /\ gold' = gold + reward
        /\ quests' = [q \in D |-> IF q \in hit THEN quests[q] + 1 ELSE quests[q]]
        /\ row' = [gold |-> gold', hp |-> hp] /\ itemRows' = SavedItems(itemRows, inven)
        /\ questRows' = SavedQuests(saved, hit, quests')
        /\ UNCHANGED <<status, connection, snapshot, hp, inven>>
    BY <1>3 DEF Kill, Playing
  <2>2. /\ D \in SUBSET Quests /\ IsFiniteSet(D) /\ hit \in SUBSET D
        /\ \A q \in D : quests[q] \in Nat
    BY DEF Sound, LoadedSound
  <2>3. quests' \in [D -> Nat] /\ DOMAIN quests' = D
    BY <2>1, <2>2
  <2>4. saved \in Seq(QuestRow)
    BY <2>2, SavedQuestsAre DEF Sound, RowsSound
  <2>5. IsFiniteSet(hit) /\ hit \in SUBSET Quests /\ \A q \in hit : quests'[q] \in Nat
    BY <2>2, <2>3, FS_Subset
  <2> HIDE DEF saved, hit
  <2>6. questRows' \in Seq(QuestRow)
    BY <2>1, <2>4, <2>5, SavedQuestsAre
  <2>7. gold' \in Nat
    BY <1>0, <2>1
  <2>8. row'.gold = gold' /\ row'.hp = hp /\ 0 < hp
    BY <2>1 DEF Sound, PlayerSound
  <2>9. Bag(itemRows')
    BY <1>0, <2>1, SavedIs
  <2>10. RowsSound'
    BY <1>0, <2>6, <2>7, <2>8, <2>9 DEF RowsSound, Hp
  <2>11. LoadedSound'
    BY <2>1, <2>2, <2>3 DEF Sound, LoadedSound
  <2>12. PlayerSound'
    BY <2>1, <2>7 DEF Sound, PlayerSound
  <2> QED BY <2>1, <2>10, <2>11, <2>12 DEF Sound
<1> QED BY <1>1, <1>2, <1>3

LEMMA SoundStep ==
  ASSUME ItemInv, Sound, [Next]_vars
  PROVE  Sound'
<1>1. CASE TryLogin \/ EnterPlayer
  BY <1>1, EntersSound
<1>2. CASE Disconnect \/ SaveAllPlayerDb
  <2>1. /\ status = "room" /\ status' \in {"room", "offline"}
        /\ SavePlayerInfo(itemRows, gold, hp, inven)
        /\ UNCHANGED <<connection, snapshot, quests, gold, hp, inven>>
    BY <1>2 DEF Disconnect, SaveAllPlayerDb, Playing, playerVars
  <2>2. RowsSound'
    BY <2>1, PlayerSaves
  <2> QED BY <2>1, <2>2 DEF Sound, PlayerSound, LoadedSound
<1>3. CASE LeaveLobby \/ Crash \/ UNCHANGED vars
  <2>1. /\ UNCHANGED <<row, itemRows, questRows, snapshot, quests, gold, hp, inven>>
        /\ status' \in {status, "offline"} /\ connection' \in {connection, TRUE}
    BY <1>3 DEF LeaveLobby, Crash, vars, dbVars, playerVars
  <2> QED BY <2>1 DEF Sound, RowsSound, PlayerSound, LoadedSound
<1>4. CASE \/ \E t \in Templates : PickItem(t) \/ BuyItem(t)
           \/ \E i \in DOMAIN inven : EquippedItem(i) \/ UseItem(i)
  BY <1>4, ItemsSound
<1>5. CASE \/ \E damage \in 1..MaxHp : OnDamaged(damage) \/ OnDead(damage)
           \/ \E m \in Monsters, reward \in 0..1 : Kill(m, reward)
  BY <1>5, FightsSound
<1>6. ASSUME NEW q \in Quests, AcceptQuest(q) PROVE Sound'
  <2> DEFINE x == [quest |-> q, progress |-> 0]
  <2>1. /\ quests' = Put(quests, q, 0) /\ questRows' = Append(questRows, x)
        /\ UNCHANGED <<status, row, itemRows, connection, snapshot, gold, hp, inven>>
    BY <1>6 DEF AcceptQuest, playerVars
  <2>2. quests' \in [DOMAIN quests \cup {q} -> Nat]
    BY <2>1 DEF Put, Sound, LoadedSound
  <2>3. DOMAIN quests' = DOMAIN quests \cup {q} /\ IsFiniteSet(DOMAIN quests \cup {q})
    BY <2>2, FS_AddElement DEF Sound, LoadedSound
  <2>4. questRows' \in Seq(QuestRow)
    <3>1. x \in QuestRow
      BY DEF QuestRow
    <3> HIDE DEF x
    <3> QED BY <2>1, <3>1, AppendProperties DEF Sound, RowsSound
  <2> QED BY <2>1, <2>2, <2>3, <2>4 DEF Sound, RowsSound, PlayerSound, LoadedSound
<1>7. ASSUME NEW q \in Quests, AcceptQuestAgain(q) PROVE Sound'
  <2>1. /\ UNCHANGED <<status, row, itemRows, questRows, snapshot, quests, gold, hp, inven>>
        /\ connection' = FALSE
    BY <1>7 DEF AcceptQuestAgain, dbVars, playerVars
  <2> QED BY <2>1 DEF Sound, RowsSound, PlayerSound, LoadedSound
<1> QED BY <1>1, <1>2, <1>3, <1>4, <1>5, <1>6, <1>7 DEF Next

LEMMA InitSound == Init => Sound
<1> SUFFICES ASSUME Init PROVE Sound
  OBVIOUS
<1>1. /\ status = "offline" /\ connection = TRUE
      /\ row = [gold |-> 0, hp |-> MaxHp] /\ itemRows = Empty /\ questRows = <<>>
      /\ snapshot = [gold |-> 0, hp |-> MaxHp, items |-> Empty]
      /\ quests = Empty /\ gold = 0 /\ hp = MaxHp /\ inven = Empty
  BY DEF Init
<1>2. DOMAIN Empty = {} /\ Bag(Empty) /\ Empty \in [{} -> Nat]
  BY DEF Empty, Bag
<1>3. MaxHp \in Hp /\ 0 < MaxHp
  BY CharacterAssumption DEF Hp
<1>4. row.gold = 0 /\ row.hp = MaxHp /\ snapshot.gold = 0 /\ snapshot.hp = MaxHp
      /\ snapshot.items = Empty
  BY <1>1
<1>5. RowsSound /\ PlayerSound
  BY <1>1, <1>2, <1>3, <1>4, EmptySeq DEF RowsSound, PlayerSound
<1>6. LoadedSound
  BY <1>1, <1>2, <1>3, <1>4, FS_EmptySet DEF LoadedSound
<1> QED BY <1>1, <1>5, <1>6 DEF Sound

LEMMA SoundInvariant == Spec => []Sound
<1>1. ItemInv /\ Sound /\ [Next]_vars => Sound'
  BY SoundStep
<1> QED BY ItemsInvariant, InitSound, <1>1, PTL DEF Spec

(* A bag's slots exist and gold never becomes negative, in the Player, in  *)
(* the PlayerDb and in the rows.                                           *)
THEOREM TypeCorrect == Spec => []TypeOK
<1>1. Sound => TypeOK
  <2> SUFFICES ASSUME Sound PROVE TypeOK
    OBVIOUS
  <2>1. \A r \in DOMAIN questRows : questRows[r] \in [quest : Quests, progress : Nat]
    BY LenProperties, ElementOfSeq DEF Sound, RowsSound, QuestRow
  <2>2. /\ \A i \in DOMAIN itemRows : itemRows[i] \in Item
        /\ \A i \in DOMAIN inven : inven[i] \in Item
    BY DEF Sound, RowsSound, PlayerSound, Bag
  <2> QED BY <2>1, <2>2 DEF Sound, RowsSound, PlayerSound, LoadedSound, TypeOK, Hp
<1> QED BY <1>1, SoundInvariant, PTL

(* However often a character is hit, killed, saved and loaded, it neither  *)
(* plays nor comes back from the database with no hp.                      *)
THEOREM NobodyPlaysDead == Spec => []NeverDead
<1>1. Sound => NeverDead
  BY DEF Sound, RowsSound, PlayerSound, NeverDead, Hp
<1> QED BY <1>1, SoundInvariant, PTL

-----------------------------------------------------------------------------
(* The three copies of a character that has never died.                    *)

(* Inductive: what login loads is what the rows hold, and so is what the   *)
(* player holds between two handlers.                                      *)
Kept ==
  /\ deaths \in Nat
  /\ deaths = 0 =>
       /\ Apart(inven) /\ Apart(itemRows)
       /\ status = "lobby" => snapshot.items = itemRows /\ snapshot.gold = row.gold
       /\ status = "room" => itemRows = inven /\ row.gold = gold

(* A bag saved over equal rows leaves them equal.                          *)
LEMMA SameSaved ==
  ASSUME NEW b, Bag(b), NEW rows, rows = b
  PROVE  SavedItems(rows, b) = b
<1>1. SameItems(rows, b)
  BY DEF SameItems
<1> QED BY <1>1, SavedIs

(* A handler that ends by saving what it has made of the player's bag.     *)
LEMMA SaverKeeps ==
  ASSUME Kept, status \in {"lobby", "room"}, status' \in {"room", "offline"}, deaths' = deaths,
         Bag(inven'), deaths = 0 => Apart(inven'),
         NEW rows, Bag(rows), deaths = 0 => SameItems(rows, inven'),
         SavePlayerInfo(rows, gold', hp', inven')
  PROVE  Kept'
<1>1. row'.gold = gold' /\ itemRows' = SavedItems(rows, inven')
  BY DEF SavePlayerInfo
<1>2. deaths = 0 => itemRows' = inven'
  BY <1>1, SavedIs
<1> QED BY <1>1, <1>2 DEF Kept

LEMMA ItemsKept ==
  ASSUME ItemInv, Sound, Kept,
         \/ \E t \in Templates : PickItem(t) \/ BuyItem(t)
         \/ \E i \in DOMAIN inven : EquippedItem(i) \/ UseItem(i)
  PROVE  Kept'
<1>0. Bag(itemRows) /\ Bag(inven)
  BY DEF Sound, RowsSound, PlayerSound
<1>1. ASSUME NEW t \in Templates, PickItem(t) PROVE Kept'
  <2>1. /\ inven' = Added(inven, t) /\ itemRows' = Added(itemRows, t) /\ status = "room"
        /\ UNCHANGED <<status, row, gold, deaths>>
    BY <1>1 DEF PickItem, Additem, Playing
  <2>2. Apart(inven) => Apart(inven')
    BY <1>0, <2>1, AddedIs
  <2>3. deaths = 0 => itemRows' = inven'
    BY <2>1 DEF Kept
  <2> QED BY <2>1, <2>2, <2>3 DEF Kept
<1>2. ASSUME NEW t \in Templates, BuyItem(t) PROVE Kept'
  <2>1. /\ inven' = Added(inven, t) /\ status = "room" /\ status' = status
        /\ SavePlayerInfo(Added(itemRows, t), gold', hp', inven')
        /\ deaths' = deaths
    BY <1>2 DEF BuyItem, Additem, Playing
  <2>2. Bag(inven') /\ Bag(Added(itemRows, t)) /\ (Apart(inven) => Apart(inven'))
    BY <1>0, <2>1, AddedIs
  <2>3. deaths = 0 => SameItems(Added(itemRows, t), inven')
    BY <2>1 DEF Kept, SameItems
  <2> QED BY <2>1, <2>2, <2>3, SaverKeeps DEF Kept
<1>3. ASSUME NEW i \in DOMAIN inven, EquippedItem(i) PROVE Kept'
  <2>1. /\ status = "room" /\ status' = status /\ deaths' = deaths
        /\ SavePlayerInfo(itemRows, gold', hp', inven')
    BY <1>3 DEF EquippedItem, Playing
  <2>2. Bag(inven') /\ SameItems(inven, inven') /\ (Apart(inven) => Apart(inven'))
    <3> DEFINE off == IF weapon = NoWeapon THEN inven ELSE Flag(inven, weapon, FALSE)
    <3>1. inven' = Flag(off, i, TRUE)
      BY <1>3 DEF EquippedItem, Flag
    <3>2. Bag(off) /\ SameItems(inven, off) /\ (Apart(inven) => Apart(off))
      <4>1. weapon # NoWeapon => weapon \in DOMAIN inven
        BY DEF ItemInv, WeaponOK
      <4>2. CASE weapon = NoWeapon
        BY <1>0, <4>2 DEF SameItems
      <4>3. CASE weapon # NoWeapon
        <5>1. /\ Bag(Flag(inven, weapon, FALSE))
              /\ SameItems(inven, Flag(inven, weapon, FALSE))
              /\ Apart(inven) => Apart(Flag(inven, weapon, FALSE))
          BY <1>0, <4>1, <4>3, FlagIs
        <5> QED BY <4>3, <5>1
      <4> QED BY <4>2, <4>3
    <3> HIDE DEF off
    <3>3. /\ Bag(Flag(off, i, TRUE)) /\ SameItems(off, Flag(off, i, TRUE))
          /\ Apart(off) => Apart(Flag(off, i, TRUE))
      <4>1. i \in DOMAIN off
        BY <3>2 DEF SameItems
      <4> QED BY <3>2, <4>1, FlagIs
    <3> QED BY <3>1, <3>2, <3>3 DEF SameItems
  <2>3. deaths = 0 => SameItems(itemRows, inven')
    BY <2>1, <2>2 DEF Kept
  <2> QED BY <1>0, <2>1, <2>2, <2>3, SaverKeeps DEF Kept
<1>4. ASSUME NEW i \in DOMAIN inven, UseItem(i) PROVE Kept'
  <2>1. /\ status = "room" /\ status' = status /\ deaths' = deaths
        /\ inven' = Drop(inven, i)
        /\ SavePlayerInfo(Drop(itemRows, i), gold', hp', inven')
    BY <1>4 DEF UseItem, Playing
  <2>2. Bag(inven') /\ Bag(Drop(itemRows, i)) /\ (Apart(inven) => Apart(inven'))
    BY <1>0, <2>1, DropIs
  <2>3. deaths = 0 => SameItems(Drop(itemRows, i), inven')
    BY <2>1 DEF Kept, SameItems
  <2> QED BY <2>1, <2>2, <2>3, SaverKeeps DEF Kept
<1> QED BY <1>1, <1>2, <1>3, <1>4

LEMMA KeptStep ==
  ASSUME ItemInv, Sound, Sound', Kept, [Next]_vars
  PROVE  Kept'
<1>0. /\ Bag(itemRows) /\ Bag(inven) /\ Bag(snapshot.items)
      /\ SameItems(inven, inven) /\ SameItems(itemRows, itemRows)
  BY DEF Sound, RowsSound, PlayerSound, LoadedSound, SameItems
<1>1. CASE TryLogin
  <2>1. /\ snapshot' = [gold |-> row.gold, hp |-> row.hp, items |-> itemRows]
        /\ status' = "lobby" /\ UNCHANGED <<deaths, row, itemRows, inven>>
    BY <1>1 DEF TryLogin, dbVars, playerVars
  <2>2. snapshot'.items = itemRows /\ snapshot'.gold = row.gold
    BY <2>1
  <2> QED BY <2>1, <2>2 DEF Kept
<1>2. CASE EnterPlayer
  <2>1. /\ status = "lobby" /\ status' = "room" /\ deaths' = deaths
        /\ inven' = snapshot.items
        /\ SavePlayerInfo(itemRows, gold', hp', inven')
    BY <1>2 DEF EnterPlayer, CreatePlayer
  <2>2. deaths = 0 => inven' = itemRows /\ Apart(inven')
    BY <2>1 DEF Kept
  <2> QED BY <1>0, <2>1, <2>2, SaverKeeps
<1>3. CASE Disconnect \/ SaveAllPlayerDb \/ \E m \in Monsters, reward \in 0..1 : Kill(m, reward)
  <2>1. /\ status = "room" /\ status' \in {"room", "offline"}
        /\ UNCHANGED <<deaths, inven>>
        /\ itemRows' = SavedItems(itemRows, inven) /\ row' = [gold |-> gold', hp |-> hp]
    BY <1>3 DEF Disconnect, SaveAllPlayerDb, Kill, Playing, playerVars, SavePlayerInfo
  <2>2. deaths = 0 => SavedItems(itemRows, inven) = inven
    BY <1>0, <2>1, SameSaved DEF Kept
  <2>3. row'.gold = gold'
    BY <2>1
  <2> QED BY <2>1, <2>2, <2>3 DEF Kept
<1>4. CASE LeaveLobby \/ Crash
  <2>1. status' = "offline" /\ UNCHANGED <<deaths, inven, itemRows>>
    BY <1>4 DEF LeaveLobby, Crash, dbVars, playerVars
  <2> QED BY <2>1 DEF Kept
<1>5. CASE \/ \E t \in Templates : PickItem(t) \/ BuyItem(t)
           \/ \E i \in DOMAIN inven : EquippedItem(i) \/ UseItem(i)
  BY <1>5, ItemsKept
<1>6. CASE \E damage \in 1..MaxHp : OnDead(damage)
  <2>1. deaths' = deaths + 1
    BY <1>6 DEF OnDead
  <2> QED BY <2>1 DEF Kept
<1>7. CASE \/ \E damage \in 1..MaxHp : OnDamaged(damage)
           \/ \E q \in Quests : AcceptQuest(q) \/ AcceptQuestAgain(q)
           \/ UNCHANGED vars
  <2>1. UNCHANGED <<status, deaths, inven, itemRows, row, gold, snapshot>>
    BY <1>7 DEF OnDamaged, AcceptQuest, AcceptQuestAgain, vars, dbVars, playerVars
  <2> QED BY <2>1 DEF Kept
<1> QED BY <1>1, <1>2, <1>3, <1>4, <1>5, <1>6, <1>7 DEF Next

LEMMA KeptInvariant == Spec => []Kept
<1>1. Init => Kept
  <2>1. Apart(Empty)
    BY DEF Apart, Empty
  <2> QED BY <2>1 DEF Init, Kept
<1>2. ItemInv /\ Sound /\ Sound' /\ Kept /\ [Next]_vars => Kept'
  BY KeptStep
<1> QED BY <1>1, <1>2, ItemsInvariant, SoundInvariant, PTL DEF Spec

(* Until its first death no two items of a character are in one slot of    *)
(* the bag, in memory or in the rows, over any number of sessions.         *)
THEOREM SlotsAreDistinct == Spec => []SlotsDistinct
<1>1. Kept => SlotsDistinct
  BY DEF Kept, SlotsDistinct, Apart
<1> QED BY <1>1, KeptInvariant, PTL

-----------------------------------------------------------------------------
(* The quests of a character, until it takes a second one.                 *)

(* Each AcceptQuest of a new quest adds a row, and no row is ever removed. *)
NoSecondQuest == Len(questRows) <= 1

(* What a list of quests and its rows look like then.                      *)
OnRecord(list, rows) ==
  \/ DOMAIN list = {} /\ Len(rows) = 0
  \/ \E q \in Quests : /\ DOMAIN list = {q} /\ Len(rows) = 1
                       /\ rows[1] = [quest |-> q, progress |-> list[q]]

QuestInv == NoSecondQuest /\ status # "offline" => OnRecord(quests, questRows)

(* The save of the quests adds no row and removes none.                    *)
LEMMA SavedLen ==
  ASSUME NEW rows \in Seq(QuestRow), NEW qs \in SUBSET Quests, IsFiniteSet(qs),
         NEW list, \A q \in qs : list[q] \in Nat
  PROVE  Len(SavedQuests(rows, qs, list)) = Len(rows)
<1> DEFINE saved == SavedQuests(rows, qs, list)
<1>1. saved \in Seq(QuestRow)
  BY SavedQuestsAre
<1>2. DOMAIN saved = DOMAIN rows
  BY DEF SavedQuests, SaveQuestInfo
<1> HIDE DEF saved
<1>3. /\ Len(saved) \in Nat /\ DOMAIN saved = 1..Len(saved)
      /\ Len(rows) \in Nat /\ DOMAIN rows = 1..Len(rows)
  BY <1>1, LenProperties
<1> DEFINE m == Len(saved)
           n == Len(rows)
<1>4. m \in Nat /\ n \in Nat /\ 1..m = 1..n
  BY <1>2, <1>3
<1> HIDE DEF m, n
<1>5. CASE m < n
  <2>1. n \in 1..n /\ n \notin 1..m
    BY <1>4, <1>5
  <2> QED BY <1>4, <2>1
<1>6. CASE n < m
  <2>1. m \in 1..m /\ m \notin 1..n
    BY <1>4, <1>6
  <2> QED BY <1>4, <2>1
<1>7. m = n
  BY <1>4, <1>5, <1>6
<1> QED BY <1>7 DEF saved, m, n

(* The save of the quests writes what the rows hold, or what has changed.  *)
LEMMA SavedOnRecord ==
  ASSUME NEW list, NEW rows \in Seq(QuestRow), Len(rows) \in {0, 1},
         NEW old, OnRecord(old, rows),
         DOMAIN list = DOMAIN old, NEW qs \in SUBSET DOMAIN list,
         \A q \in DOMAIN list \ qs : list[q] = old[q]
  PROVE  OnRecord(list, SavedQuests(rows, qs, list))
<1>1. CASE qs = {}
  BY <1>1 DEF OnRecord, SavedQuests
<1>2. CASE qs # {}
  <2>1. PICK q \in Quests : /\ DOMAIN old = {q} /\ Len(rows) = 1
                            /\ rows[1] = [quest |-> q, progress |-> old[q]]
    BY <1>2 DEF OnRecord
  <2>2. qs = {q} /\ Max(qs) = q
    <3>1. qs = {q}
      BY <1>2, <2>1
    <3>2. q \in Nat
      BY CharacterAssumption
    <3> QED BY <3>1, <3>2 DEF Max
  <2> DEFINE x == [quest |-> q, progress |-> list[q]]
  <2>3. SavedQuests(rows, qs, list) = [r \in 1..1 |-> x]
    <3>1. DOMAIN rows = 1..1
      BY <2>1, LenProperties
    <3> QED BY <1>2, <2>2, <3>1 DEF SavedQuests, SaveQuestInfo
  <2> HIDE DEF x
  <2>4. Len(SavedQuests(rows, qs, list)) = 1 /\ SavedQuests(rows, qs, list)[1] = x
    BY <2>3
  <2> QED BY <2>1, <2>4 DEF OnRecord, x
<1> QED BY <1>1, <1>2

LEMMA QuestStep ==
  ASSUME Sound, Sound', QuestInv, [Next]_vars
  PROVE  QuestInv'
<1>0. /\ questRows \in Seq(QuestRow) /\ Len(questRows) \in Nat
      /\ DOMAIN quests \subseteq Quests /\ IsFiniteSet(DOMAIN quests)
      /\ \A q \in DOMAIN quests : quests[q] \in Nat
      /\ NoSecondQuest => Len(questRows) \in {0, 1}
  <2>1. questRows \in Seq(QuestRow)
    BY DEF Sound, RowsSound
  <2>2. Len(questRows) \in Nat
    BY <2>1, LenProperties
  <2>3. NoSecondQuest => Len(questRows) \in {0, 1}
    <3> DEFINE n == Len(questRows)
    <3>1. n \in Nat /\ (NoSecondQuest <=> n <= 1)
      BY <2>2 DEF NoSecondQuest
    <3> HIDE DEF n
    <3>2. NoSecondQuest => n \in {0, 1}
      BY <3>1
    <3> QED BY <3>2 DEF n
  <2> QED BY <2>1, <2>2, <2>3 DEF Sound, LoadedSound
<1>1. CASE TryLogin
  <2>1. quests' \in LoadedQuests /\ questRows' = questRows
    BY <1>1 DEF TryLogin, dbVars
  <2>2. /\ DOMAIN quests' = {questRows[r].quest : r \in DOMAIN questRows}
        /\ DOMAIN quests' \subseteq Quests
    BY <1>0, <2>1, LoadedAre
  <2>3. \A q \in DOMAIN quests' : \E r \in DOMAIN questRows :
          questRows[r] = [quest |-> q, progress |-> quests'[q]]
    BY <2>1 DEF LoadedQuests
  <2>4. DOMAIN questRows = 1..Len(questRows)
    BY <1>0, LenProperties
  <2>5. ASSUME NoSecondQuest PROVE OnRecord(quests', questRows)
    <3>1. CASE Len(questRows) = 0
      BY <2>2, <2>4, <3>1 DEF OnRecord
    <3>2. CASE Len(questRows) = 1
      <4>1. DOMAIN questRows = {1}
        BY <2>4, <3>2
      <4> DEFINE q == questRows[1].quest
      <4>2. DOMAIN quests' = {q} /\ q \in Quests
        BY <2>2, <4>1
      <4>3. questRows[1] = [quest |-> q, progress |-> quests'[q]]
        BY <2>3, <4>1, <4>2
      <4> HIDE DEF q
      <4> QED BY <3>2, <4>2, <4>3 DEF OnRecord
    <3> QED BY <1>0, <2>5, <3>1, <3>2
  <2> QED BY <2>1, <2>5 DEF QuestInv, NoSecondQuest
<1>2. CASE questRows' = SavedQuests(questRows, DOMAIN quests, quests)
           /\ quests' = quests /\ status \in {"lobby", "room"}
  <2>1. Len(questRows') = Len(questRows)
    BY <1>0, <1>2, SavedLen
  <2>2. ASSUME NoSecondQuest PROVE OnRecord(quests, questRows')
    <3>1. OnRecord(quests, questRows) /\ Len(questRows) \in {0, 1}
      BY <1>0, <1>2, <2>2 DEF QuestInv
    <3> QED BY <1>0, <1>2, <3>1, SavedOnRecord
  <2> QED BY <1>2, <2>1, <2>2 DEF QuestInv, NoSecondQuest
<1>3. CASE UNCHANGED <<questRows, quests>> /\ status' \in {status, "offline"}
  BY <1>3 DEF QuestInv, NoSecondQuest
<1>4. CASE EnterPlayer \/ Disconnect \/ SaveAllPlayerDb
  BY <1>2, <1>4 DEF EnterPlayer, Disconnect, SaveAllPlayerDb, Playing, SavePlayerInfo
<1>5. CASE \/ \E t \in Templates : BuyItem(t)
           \/ \E i \in DOMAIN inven : EquippedItem(i) \/ UseItem(i)
           \/ \E damage \in 1..MaxHp : OnDead(damage)
  BY <1>2, <1>5 DEF BuyItem, EquippedItem, UseItem, OnDead, Playing, SavePlayerInfo
<1>6. CASE \/ LeaveLobby \/ Crash \/ UNCHANGED vars
           \/ \E t \in Templates : PickItem(t)
           \/ \E damage \in 1..MaxHp : OnDamaged(damage)
           \/ \E q \in Quests : AcceptQuestAgain(q)
  BY <1>3, <1>6 DEF LeaveLobby, Crash, PickItem, OnDamaged, AcceptQuestAgain,
     vars, dbVars, playerVars
<1>7. ASSUME NEW q \in Quests, AcceptQuest(q) PROVE QuestInv'
  <2> DEFINE x == [quest |-> q, progress |-> 0]
  <2>1. /\ q \notin DOMAIN quests /\ status = "room" /\ quests' = Put(quests, q, 0)
        /\ questRows' = Append(questRows, x)
    BY <1>7 DEF AcceptQuest, Playing
  <2>2. Len(questRows') = Len(questRows) + 1
    <3>1. x \in QuestRow
      BY DEF QuestRow
    <3> HIDE DEF x
    <3> QED BY <1>0, <2>1, <3>1, AppendProperties
  <2> SUFFICES ASSUME NoSecondQuest' PROVE OnRecord(quests', questRows')
    BY DEF QuestInv
  <2>3. Len(questRows) = 0 /\ DOMAIN quests = {}
    <3>1. Len(questRows) = 0
      BY <1>0, <2>2 DEF NoSecondQuest
    <3> QED BY <2>1, <3>1 DEF QuestInv, OnRecord, NoSecondQuest
  <2>4. DOMAIN quests' = {q} /\ quests'[q] = 0
    BY <2>1, <2>3 DEF Put
  <2> HIDE DEF x
  <2>5. Len(questRows') = 1 /\ questRows'[1] = x
    BY <1>0, <2>1, <2>3, EmptySeq
  <2> QED BY <2>4, <2>5 DEF OnRecord, x
<1>8. ASSUME NEW m \in Monsters, NEW reward \in 0..1, Kill(m, reward) PROVE QuestInv'
  <2> DEFINE D == DOMAIN quests
             hit == {q \in D : Target[q] = m}
             saved == SavedQuests(questRows, D, quests)
  <2>1. /\ status = "room"
        /\ quests' = [q \in D |-> IF q \in hit THEN quests[q] + 1 ELSE quests[q]]
        /\ questRows' = SavedQuests(saved, hit, quests')
    BY <1>8 DEF Kill, Playing
  <2>2. saved \in Seq(QuestRow) /\ Len(saved) = Len(questRows)
    BY <1>0, SavedQuestsAre, SavedLen
  <2>3. DOMAIN quests' = D /\ hit \in SUBSET D /\ \A q \in D \ hit : quests'[q] = quests[q]
    BY <2>1
  <2>4. Len(questRows') = Len(saved)
    <3>1. hit \in SUBSET Quests /\ IsFiniteSet(hit)
      BY <1>0, FS_Subset
    <3>2. \A q \in hit : quests'[q] \in Nat
      BY <1>0, <2>1
    <3> HIDE DEF hit, saved
    <3> QED BY <2>1, <2>2, <3>1, <3>2, SavedLen
  <2> SUFFICES ASSUME NoSecondQuest' PROVE OnRecord(quests', questRows')
    BY DEF QuestInv
  <2>5. OnRecord(quests, questRows) /\ Len(questRows) \in {0, 1}
    BY <1>0, <2>1, <2>2, <2>4 DEF QuestInv, NoSecondQuest
  <2>6. OnRecord(quests, saved)
    BY <1>0, <2>5, SavedOnRecord
  <2> HIDE DEF saved, hit
  <2> QED BY <2>1, <2>2, <2>3, <2>5, <2>6, SavedOnRecord
<1> QED BY <1>1, <1>4, <1>5, <1>6, <1>7, <1>8 DEF Next

(* The rows of a character that has never taken a second quest hold its    *)
(* quest and its progress, whatever the character does.  With two quests   *)
(* they do not: SaveQuestInfo writes one quest's progress into both rows.  *)
THEOREM OneQuestIsSaved == Spec => [](NoSecondQuest => QuestsAreSaved)
<1>1. Init => QuestInv
  BY DEF Init, QuestInv
<1>2. Sound /\ Sound' /\ QuestInv /\ [Next]_vars => QuestInv'
  BY QuestStep
<1>3. Sound /\ QuestInv => (NoSecondQuest => QuestsAreSaved)
  <2> SUFFICES ASSUME Sound, QuestInv, NoSecondQuest, status = "room" PROVE QuestsSaved
    BY DEF QuestsAreSaved
  <2>1. questRows \in Seq(QuestRow) /\ DOMAIN questRows = 1..Len(questRows)
    BY LenProperties DEF Sound, RowsSound
  <2>2. OnRecord(quests, questRows)
    BY DEF QuestInv
  <2>3. ASSUME DOMAIN quests = {}, Len(questRows) = 0
        PROVE  QuestsSaved
    <3>1. DOMAIN questRows = {} /\ Cardinality({}) = 0
      BY <2>1, <2>3, FS_EmptySet
    <3> QED BY <2>3, <3>1 DEF QuestsSaved
  <2>4. ASSUME NEW q \in Quests, DOMAIN quests = {q}, Len(questRows) = 1,
               questRows[1] = [quest |-> q, progress |-> quests[q]]
        PROVE  QuestsSaved
    <3>1. DOMAIN questRows = {1}
      BY <2>1, <2>4
    <3>2. Cardinality({q}) = 1
      BY FS_Singleton
    <3> QED BY <2>4, <3>1, <3>2 DEF QuestsSaved
  <2> QED BY <2>2, <2>3, <2>4 DEF OnRecord
<1> QED BY <1>1, <1>2, <1>3, SoundInvariant, PTL DEF Spec

(* Until its first death a character loses no gold, no item and no         *)
(* equipment if the server ends between two packets ...                    *)
THEOREM GoldAndItemsAreSaved ==
  Spec => [](status = "room" /\ deaths = 0 => row.gold = gold /\ itemRows = inven)
<1>1. Kept => (status = "room" /\ deaths = 0 => row.gold = gold /\ itemRows = inven)
  BY DEF Kept
<1> QED BY <1>1, KeptInvariant, PTL

(* ... and no quest either, if it has never taken a second one.            *)
THEOREM NothingUnsaved == Spec => [](NoSecondQuest => MemoryIsSaved)
<1>1. Kept /\ (NoSecondQuest => QuestsAreSaved) => (NoSecondQuest => MemoryIsSaved)
  BY DEF Kept, QuestsAreSaved, MemoryIsSaved
<1> QED BY <1>1, OneQuestIsSaved, KeptInvariant, PTL
=============================================================================
