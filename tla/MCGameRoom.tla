----------------------------- MODULE MCGameRoom ------------------------------
(* GameRoom for TLC: a monster and an item lie in the room.                *)
EXTENDS GameRoom, TLC

OneMonster == {1}
OneItem == {2}
Nothing == {}
Symmetry == Permutations(Clients)
=============================================================================
