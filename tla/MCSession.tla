------------------------------ MODULE MCSession ------------------------------
(* Session for TLC.                                                        *)
EXTENDS Session, TLC

CONSTANTS w1, w2, w3, main

TwoWorkers == {w1, w2}
ThreeWorkers == {w1, w2, w3}
MainThread == {main}
WorkerSymmetry == Permutations(Workers)
=============================================================================
