------------------------------ MODULE MCListener ------------------------------
(* Listener for TLC.                                                       *)
EXTENDS Listener

CONSTANTS e1, e2, main, w1, w2, c1, c2, s1, s2, s3, s4, nobody
=============================================================================
