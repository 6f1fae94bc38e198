---------------------------- MODULE OrderedStream ----------------------------
(***************************************************************************)
(* What a caller of Session::Send may rely on: an ordered, duplicate-free  *)
(* stream.  Buffers are numbered by the order of their Write calls.  They  *)
(* leave from the front of the queue, a batch at a time: onto the wire,    *)
(* or, once the stream is closed, into the void.  A Lossy stream may also  *)
(* drop a batch while it is open.                                          *)
(***************************************************************************)
EXTENDS Integers, Sequences

CONSTANT Lossy  \* a Boolean

VARIABLES
  queue,   \* written, not yet on the wire
  wire,    \* taken by the network
  next,    \* number of the next Write
  open     \* "new", "open" or "closed"

vars == <<queue, wire, next, open>>

Init == queue = <<>> /\ wire = <<>> /\ next = 1 /\ open = "new"

Open == open = "new" /\ open' = "open" /\ UNCHANGED <<queue, wire, next>>

Close == open = "open" /\ open' = "closed" /\ UNCHANGED <<queue, wire, next>>

Write ==
  /\ open # "new"
  /\ queue' = Append(queue, next)
  /\ next' = next + 1
  /\ UNCHANGED <<wire, open>>

(* The first n queued buffers leave, in order.                             *)
Leave(n) == queue' = SubSeq(queue, n + 1, Len(queue))

Flush(n) ==
  /\ Leave(n)
  /\ wire' = wire \o SubSeq(queue, 1, n)
  /\ UNCHANGED <<next, open>>

Lose(n) ==
  /\ Lossy \/ open = "closed"
  /\ Leave(n)
  /\ UNCHANGED <<wire, next, open>>

Next ==
  \/ Open \/ Close \/ Write
  \/ \E n \in 1..Len(queue) : Flush(n) \/ Lose(n)

Spec == Init /\ [][Next]_vars
=============================================================================
