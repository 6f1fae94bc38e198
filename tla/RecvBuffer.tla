----------------------------- MODULE RecvBuffer ------------------------------
(***************************************************************************)
(* The receive half of one session: RecvBuffer (two cursors into a flat    *)
(* array) and PacketSession::OnRecv, which cuts the TCP byte stream into   *)
(* packets.  ProcessRecv runs the two for one completion at a time, so     *)
(* there is no concurrency here; what is hard is that TCP may deliver any  *)
(* number of bytes at once.                                                *)
(*                                                                         *)
(* The client's stream is a cycle of packets.  A byte is its position in   *)
(* the cycle, and frame[p] is the size in the header of a packet that      *)
(* starts at position p (0: no packet starts there).  Cells of the array   *)
(* outside the two cursors are never read; they hold Dead.                 *)
(***************************************************************************)
EXTENDS Integers, FiniteSets

CONSTANTS
  BufferSize,    \* Session::BUFFER_SIZE (0x10000)
  BufferCount,   \* RecvBuffer::BUFFER_COUNT (10)
  HeaderSize,    \* sizeof(PacketHeader) (4)
  MaxPacket,     \* largest value of PacketHeader::size (uint16: 0xFFFF)
  Frames         \* the streams to consider: functions from 0..Period-1

Capacity == BufferSize * BufferCount

(* A stream of whole packets: one starts it, and one starts where another  *)
(* ends.                                                                   *)
IsCycle(f) ==
  LET Period == Cardinality(DOMAIN f) IN
  /\ Period \in Nat \ {0}
  /\ f \in [0..(Period - 1) -> 0..MaxPacket]
  /\ f[0] # 0
  /\ \A p \in DOMAIN f : f[p] # 0 => f[(p + f[p]) % Period] # 0

ASSUME RecvBufferAssumption ==
  /\ BufferSize \in Nat /\ BufferCount \in Nat
  /\ HeaderSize \in Nat /\ MaxPacket \in Nat
  /\ 0 < HeaderSize /\ HeaderSize <= MaxPacket /\ MaxPacket < BufferSize
  /\ 3 <= BufferCount
  /\ \A f \in Frames : IsCycle(f)

Dead == -1

VARIABLES
  pc,          \* "recv": a WSARecv is pending; "parse": inside OnRecv's loop
  readPos, writePos, buffer,
  processLen,  \* OnRecv's progress within the unread bytes
  arriving,    \* stream position of the next byte to arrive
  frame        \* the stream of this behaviour

vars == <<pc, readPos, writePos, buffer, processLen, arriving, frame>>

DataSize == writePos - readPos
FreeSize == Capacity - writePos

After(p, n) == (p + n) % Cardinality(DOMAIN frame)

(* The size field OnRecv reads at a cell: what the client wrote if a       *)
(* packet starts there, otherwise some payload bytes.                      *)
HeaderAt(i) ==
  IF buffer[i] \in DOMAIN frame /\ frame[buffer[i]] # 0
    THEN {frame[buffer[i]]} ELSE 0..MaxPacket

Init ==
  /\ pc = "recv"
  /\ readPos = 0 /\ writePos = 0 /\ processLen = 0
  /\ buffer = [i \in 0..(Capacity - 1) |-> Dead]
  /\ arriving = 0
  /\ frame \in Frames

(* A completion with n bytes: the kernel filled n cells at WritePos, of    *)
(* the FreeSize it was given; OnWrite, then OnRecv starts.                 *)
Recv(n) ==
  /\ pc = "recv"
  /\ n <= FreeSize
  /\ writePos' = writePos + n
  /\ buffer' = [i \in DOMAIN buffer |->
                  IF i \in writePos..(writePos + n - 1)
                    THEN After(arriving, i - writePos) ELSE buffer[i]]
  /\ arriving' = After(arriving, n)
  /\ processLen' = 0
  /\ pc' = "parse"
  /\ UNCHANGED <<readPos, frame>>

(* Fault: OnRecv that checks only that the header is all there.            *)
OnRecvPacket_HeaderOnly(size) ==
  /\ pc = "parse"
  /\ HeaderSize <= DataSize - processLen
  /\ size \in HeaderAt(readPos + processLen)
  /\ processLen' = processLen + size
  /\ UNCHANGED <<pc, readPos, writePos, buffer, arriving, frame>>

(* One turn of OnRecv's loop: a whole packet is there and is handed over.  *)
OnRecvPacket(size) ==
  /\ pc = "parse"
  /\ HeaderSize <= DataSize - processLen
  /\ size \in HeaderAt(readPos + processLen)
  /\ size <= DataSize - processLen
  /\ processLen' = processLen + size
  /\ UNCHANGED <<pc, readPos, writePos, buffer, arriving, frame>>

(* Fault: OnRecv handles one packet per receive.                           *)
LoopDone_OnePacket == TRUE

(* Fault: a packet that is exactly all there counts as not there yet.      *)
LoopDone_OffByOne ==
  HeaderSize <= DataSize - processLen =>
    \E size \in HeaderAt(readPos + processLen) : DataSize - processLen <= size

(* OnRecv's loop stops at the first packet that is not all there.          *)
LoopDone ==
  HeaderSize <= DataSize - processLen =>
    \E size \in HeaderAt(readPos + processLen) : DataSize - processLen < size

(* Fault: Clean that moves the cursors only when nothing is free.          *)
Clean_WhenFull(r) ==
  LET size == writePos - r
      Place(to) == /\ readPos' = to
                   /\ writePos' = to + size
                   /\ buffer' = [i \in DOMAIN buffer |->
                                   IF i \in to..(to + size - 1)
                                     THEN buffer[r + (i - to)] ELSE Dead]
  IN  IF size = 0 \/ FreeSize = 0 THEN Place(0) ELSE Place(r)

(* Fault: Clean that resets the cursors without moving the bytes.          *)
Clean_NoCopy(r) ==
  LET size == writePos - r
      Place(to) == /\ readPos' = to
                   /\ writePos' = to + size
                   /\ UNCHANGED buffer
  IN  IF size = 0 \/ FreeSize < BufferSize THEN Place(0) ELSE Place(r)

(* RecvBuffer::Clean, with the unread bytes starting at r: rewind the      *)
(* cursors if there are none, move them to the front if less than one      *)
(* BufferSize is free, else leave them.                                    *)
Clean(r) ==
  LET size == writePos - r
      Place(to) == /\ readPos' = to
                   /\ writePos' = to + size
                   /\ buffer' = [i \in DOMAIN buffer |->
                                   IF i \in to..(to + size - 1)
                                     THEN buffer[r + (i - to)] ELSE Dead]
  IN  IF size = 0 \/ FreeSize < BufferSize THEN Place(0) ELSE Place(r)

(* OnRecv returns processLen: OnRead, Clean, and RegisterRecv posts the    *)
(* next WSARecv with the free space.                                       *)
OnRecvDone ==
  /\ pc = "parse"
  /\ LoopDone
  /\ Clean(readPos + processLen)
  /\ processLen' = 0
  /\ pc' = "recv"
  /\ UNCHANGED <<arriving, frame>>

Next ==
  \/ \E n \in 1..Capacity : Recv(n)
  \/ \E size \in 0..MaxPacket : OnRecvPacket(size)
  \/ OnRecvDone

Spec == Init /\ [][Next]_vars

-----------------------------------------------------------------------------
(* Properties.                                                             *)

(* The cursors stay inside the array, in order; OnRecv stays within what   *)
(* was received.                                                           *)
CursorsOK ==
  /\ pc \in {"recv", "parse"} /\ frame \in Frames
  /\ readPos \in Nat /\ writePos \in Nat /\ processLen \in Nat
  /\ readPos + processLen <= writePos
  /\ writePos <= Capacity

(* Every WSARecv is posted with room for at least one buffer, so for any   *)
(* packet: never with length zero, which would complete with zero bytes    *)
(* and be taken for a closed connection.                                   *)
RoomToReceive == pc = "recv" => FreeSize >= BufferSize

(* Clean's memcpy, whose regions must not overlap, never overlaps.         *)
MoveDisjoint ==
  pc = "parse" /\ LoopDone /\ FreeSize < BufferSize =>
    writePos - (readPos + processLen) <= readPos + processLen

(* The unread bytes are the client's bytes, none lost, repeated or         *)
(* reordered by OnWrite, OnRead and Clean, and every header OnRecv reads   *)
(* is a header the client wrote.                                           *)
StreamIntact ==
  /\ \A i \in readPos..(writePos - 1) :
       After(buffer[i], writePos - i) = arriving
  /\ pc = "parse" /\ processLen < DataSize => frame[buffer[readPos + processLen]] # 0

(* While the session waits for more bytes, no whole packet is left         *)
(* unhandled in the buffer.                                                *)
NothingWithheld ==
  pc = "recv" /\ HeaderSize <= DataSize => DataSize < frame[buffer[readPos]]
=============================================================================
