---------------------------- MODULE MCRecvBuffer -----------------------------
(* RecvBuffer for TLC: every cycle of three packets whose sizes are a bare *)
(* header, a small payload or the largest packet.                          *)
EXTENDS RecvBuffer

Sizes == {HeaderSize, HeaderSize + 1, MaxPacket}

Cycle(a, b, c) ==
  [p \in 0..(a + b + c - 1) |->
     IF p = 0 THEN a ELSE IF p = a THEN b ELSE IF p = a + b THEN c ELSE 0]

Cycles == {Cycle(a, b, c) : a, b, c \in Sizes}
=============================================================================
