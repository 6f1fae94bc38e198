------------------------------ MODULE MCMonster ------------------------------
(* Monster for TLC: an ordinary monster, and the boss, each with one       *)
(* player; ticks few, but enough for every timer to run out.               *)
EXTENDS Monster

OnePlayer == {1}
OneEach == [Monster |-> OnePlayer, Grux |-> OnePlayer]
=============================================================================
