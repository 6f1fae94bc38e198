---------------------------- MODULE MCCharacter ------------------------------
(* Character for TLC: one kind of weapon and one of potion, two quests.    *)
EXTENDS Character

MCPrice == [t \in Weapons \cup Potions |-> 1]
OneQuest == {1}
TwoQuests == {1, 2}
MCTarget == [q \in Quests |-> q]
=============================================================================
