--------------------------- MODULE DBConnectionPool ---------------------------
(***************************************************************************)
(* GDBConnectionPool: connections that handlers take and give back, each   *)
(* operation under the pool's lock.  Pop never waits: of an empty pool it  *)
(* returns null.  Push takes whatever it is given, null too.               *)
(***************************************************************************)
EXTENDS Naturals, Sequences, SequencesExt

CONSTANT ConnectionCount  \* 1 in main()

ASSUME PoolAssumption == ConnectionCount \in Nat \ {0}

Connections == 1..ConnectionCount
Null == 0

VARIABLE connections  \* _connections

(* What Connect leaves in the pool.                                        *)
Connected == [i \in Connections |-> i]

(* Fault: a connection is handed out and stays in the pool.                *)
PopShared == UNCHANGED connections

(* What Pop returns, and what it does to the pool.                         *)
Popped == IF connections = <<>> THEN Null ELSE Last(connections)
Pop == connections' = IF connections = <<>> THEN <<>> ELSE Front(connections)

Push(db) == connections' = Append(connections, db)
=============================================================================
