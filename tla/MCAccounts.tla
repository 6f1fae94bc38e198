------------------------------ MODULE MCAccounts ------------------------------
(* Accounts for TLC.                                                       *)
EXTENDS Accounts, TLC

CONSTANTS a, b, kim

TwiceInLobby == [title |-> 1, lobby |-> 2]

Symmetry == Permutations(Sessions)
=============================================================================
