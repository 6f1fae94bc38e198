-------------------------- MODULE RecvBufferProofs ---------------------------
(* Proofs about RecvBuffer, for every BufferSize, packet size below it, at *)
(* least three buffers, and every stream of packets: first the cursors,    *)
(* then the bytes between them, for which positions in the stream are      *)
(* reckoned modulo its period.                                             *)
EXTENDS RecvBuffer, TLAPS

(* The inductive invariant: the cursors are in order, and every receive    *)
(* has room for one buffer.                                                *)
CursorInv == CursorsOK /\ RoomToReceive

(* The array has room for three buffers.                                   *)
LEMMA CapacityFact ==
  /\ Capacity \in Nat
  /\ 3 * BufferSize <= Capacity
BY RecvBufferAssumption DEF Capacity

(* A size field is at most MaxPacket: either the client's or payload.      *)
LEMMA HeaderFact ==
  ASSUME frame \in Frames, NEW i
  PROVE  HeaderAt(i) \subseteq 0..MaxPacket
<1>1. frame \in [DOMAIN frame -> 0..MaxPacket]
  <2>1. IsCycle(frame)
    BY RecvBufferAssumption
  <2> QED BY <2>1 DEF IsCycle
<1>2. CASE buffer[i] \in DOMAIN frame /\ frame[buffer[i]] # 0
  <2>1. frame[buffer[i]] \in 0..MaxPacket
    BY <1>1, <1>2
  <2> QED
    BY <1>2, <2>1 DEF HeaderAt
<1>3. CASE ~(buffer[i] \in DOMAIN frame /\ frame[buffer[i]] # 0)
  BY <1>3 DEF HeaderAt
<1> QED
  BY <1>2, <1>3

(* When OnRecv's loop stops, less than one packet is left unread.          *)
LEMMA UnreadFact ==
  ASSUME CursorsOK, LoopDone
  PROVE  /\ writePos - (readPos + processLen) \in Nat
         /\ writePos - (readPos + processLen) < MaxPacket
<1>0. DataSize - processLen = writePos - (readPos + processLen)
  BY DEF CursorsOK, DataSize
<1>1. CASE HeaderSize <= DataSize - processLen
  <2>1. PICK size \in HeaderAt(readPos + processLen) : DataSize - processLen < size
    BY <1>1 DEF LoopDone
  <2>2. size \in 0..MaxPacket
    BY <2>1, HeaderFact DEF CursorsOK
  <2> QED
    BY <1>0, <2>1, <2>2, RecvBufferAssumption DEF CursorsOK
<1>2. CASE ~(HeaderSize <= DataSize - processLen)
  BY <1>0, <1>2, RecvBufferAssumption DEF CursorsOK
<1> QED
  BY <1>1, <1>2

(* Initially the whole array is free.                                      *)
LEMMA InitFact == Init => CursorInv
BY CapacityFact, RecvBufferAssumption
DEF Init, CursorInv, CursorsOK, RoomToReceive, FreeSize

(* A receive completion keeps the cursors inside the array.                *)
LEMMA RecvFact ==
  ASSUME CursorInv, NEW n \in 1..Capacity, Recv(n)
  PROVE  CursorInv'
<1>1. /\ pc' = "parse" /\ processLen' = 0 /\ readPos' = readPos
      /\ writePos' = writePos + n /\ n <= Capacity - writePos
      /\ frame' = frame
  BY DEF Recv, FreeSize
<1> QED
  BY <1>1, CapacityFact DEF CursorInv, CursorsOK, RoomToReceive

(* Handing a packet over keeps OnRecv within the bytes received.           *)
LEMMA OnRecvPacketFact ==
  ASSUME CursorInv, NEW size \in 0..MaxPacket, OnRecvPacket(size)
  PROVE  CursorInv'
<1>1. /\ pc' = "parse" /\ processLen' = processLen + size
      /\ size <= writePos - readPos - processLen
      /\ readPos' = readPos /\ writePos' = writePos /\ frame' = frame
  BY DEF OnRecvPacket, DataSize
<1> QED
  BY <1>1, CapacityFact, RecvBufferAssumption DEF CursorInv, CursorsOK, RoomToReceive

(* OnRead and Clean leave room for one buffer: either Clean moved a        *)
(* partial packet to the front of an array of three buffers, or there was  *)
(* room already.                                                           *)
LEMMA OnRecvDoneFact ==
  ASSUME CursorInv, OnRecvDone
  PROVE  CursorInv'
<1> DEFINE r == readPos + processLen
           size == writePos - r
<1>1. /\ pc' = "recv" /\ processLen' = 0 /\ frame' = frame
      /\ LoopDone /\ Clean(r)
  BY DEF OnRecvDone
<1>2. size \in Nat /\ size < MaxPacket
  BY <1>1, UnreadFact DEF CursorInv
<1>3. \/ readPos' = 0 /\ writePos' = size
      \/ readPos' = r /\ writePos' = writePos /\ FreeSize >= BufferSize
  <2>1. CASE size = 0 \/ FreeSize < BufferSize
    <3>1. readPos' = 0 /\ writePos' = 0 + size
      BY <1>1, <2>1 DEF Clean
    <3> QED
      BY <1>2, <3>1
  <2>2. CASE ~(size = 0 \/ FreeSize < BufferSize)
    <3>1. readPos' = r /\ writePos' = r + size
      BY <1>1, <2>2 DEF Clean
    <3>2. FreeSize >= BufferSize /\ r + size = writePos
      BY <2>2, CapacityFact, RecvBufferAssumption DEF FreeSize, CursorInv, CursorsOK
    <3> QED
      BY <3>1, <3>2
  <2> QED
    BY <2>1, <2>2
<1>4. CASE readPos' = 0 /\ writePos' = size
  BY <1>1, <1>2, <1>4, CapacityFact, RecvBufferAssumption
  DEF CursorInv, CursorsOK, RoomToReceive, FreeSize
<1>5. CASE readPos' = r /\ writePos' = writePos /\ FreeSize >= BufferSize
  BY <1>1, <1>2, <1>5, CapacityFact, RecvBufferAssumption
  DEF CursorInv, CursorsOK, RoomToReceive, FreeSize
<1> QED
  BY <1>3, <1>4, <1>5

(* The cursors stay in order and every receive has room, for every         *)
(* sequence of receive sizes TCP may choose.                               *)
THEOREM CursorsInvariant == Spec => []CursorInv
<1>1. CursorInv /\ [Next]_vars => CursorInv'
  <2> SUFFICES ASSUME CursorInv, [Next]_vars PROVE CursorInv'
    OBVIOUS
  <2>1. CASE UNCHANGED vars
    BY <2>1 DEF vars, CursorInv, CursorsOK, RoomToReceive, FreeSize
  <2>2. CASE Next
    BY <2>2, RecvFact, OnRecvPacketFact, OnRecvDoneFact DEF Next
  <2> QED
    BY <2>1, <2>2
<1> QED
  BY InitFact, <1>1, PTL DEF Spec

(* OnRecv never reads past what OnWrite recorded, and the cursors never    *)
(* leave the array: the Overflow branches of ProcessRecv are dead code.    *)
THEOREM CursorsInOrder == Spec => []CursorsOK
<1>1. CursorInv => CursorsOK
  BY DEF CursorInv
<1> QED
  BY CursorsInvariant, <1>1, PTL

(* Every WSARecv gets room for a whole packet, so its completion with zero *)
(* bytes means that the client closed.                                     *)
THEOREM AlwaysRoom == Spec => []RoomToReceive
<1>1. CursorInv => RoomToReceive
  BY DEF CursorInv
<1> QED
  BY CursorsInvariant, <1>1, PTL

(* Clean's memcpy is always between disjoint regions: less than one packet *)
(* is unread, and it is moved only from beyond the second buffer.          *)
THEOREM MovesAreDisjoint == Spec => []MoveDisjoint
<1>1. CursorInv => MoveDisjoint
  <2> SUFFICES ASSUME CursorInv, LoopDone, FreeSize < BufferSize
               PROVE  writePos - (readPos + processLen) <= readPos + processLen
    BY DEF MoveDisjoint
  <2>1. writePos - (readPos + processLen) < MaxPacket
    BY UnreadFact DEF CursorInv
  <2> QED
    BY <2>1, CapacityFact, RecvBufferAssumption DEF CursorInv, CursorsOK, FreeSize
<1> QED
  BY CursorsInvariant, <1>1, PTL

-----------------------------------------------------------------------------
(* Remainders.                                                             *)

(* Division by a period.                                                   *)
LEMMA Euclid ==
  ASSUME NEW m \in Nat \ {0}, NEW a \in Int
  PROVE  /\ a \div m \in Int
         /\ a % m \in 0..(m - 1)
         /\ a = (m * (a \div m)) + (a % m)
OBVIOUS

(* A number has one remainder.                                             *)
LEMMA OneRemainder ==
  ASSUME NEW m \in Nat \ {0}, NEW k \in Int, NEW l \in Int,
         NEW r \in 0..(m - 1), NEW s \in 0..(m - 1), (m * k) + r = (m * l) + s
  PROVE  r = s
<1>1. r - s = m * (l - k)
  OBVIOUS
<1>2. CASE l - k = 0
  BY <1>1, <1>2
<1>3. CASE l - k >= 1
  <2>1. m * (l - k) >= m 
    BY <1>3
  <2> QED BY <1>1, <2>1
<1>4. CASE l - k <= -1
  <2>1. m * (l - k) <= -m 
    BY <1>4
  <2> QED BY <1>1, <2>1
<1> QED BY <1>2, <1>3, <1>4

(* The remainder is whatever is left in range.                             *)
LEMMA RemainderIs ==
  ASSUME NEW m \in Nat \ {0}, NEW a \in Int, NEW k \in Int, NEW r \in 0..(m - 1),
         a = (m * k) + r
  PROVE  a % m = r
<1>1. a \div m \in Int /\ a % m \in 0..(m - 1) /\ a = (m * (a \div m)) + (a % m)
  BY Euclid
<1> DEFINE q == a \div m
           s == a % m
<1> HIDE DEF q, s
<1>2. q \in Int /\ s \in 0..(m - 1) /\ a = (m * q) + s
  BY <1>1 DEF q, s
<1>3. s = r
  BY <1>2, OneRemainder
<1> QED BY <1>3 DEF s

(* Remainders may be taken in between.                                     *)
LEMMA AddRemainder ==
  ASSUME NEW m \in Nat \ {0}, NEW a \in Int, NEW b \in Int
  PROVE  ((a % m) + b) % m = (a + b) % m
<1> DEFINE q == a \div m
           r == a % m
           q2 == (r + b) \div m
           r2 == (r + b) % m
<1>1. q \in Int /\ r \in 0..(m - 1) /\ a = (m * q) + r
  BY Euclid
<1> HIDE DEF q, r
<1>2. q2 \in Int /\ r2 \in 0..(m - 1) /\ r + b = (m * q2) + r2
  BY <1>1, Euclid
<1> HIDE DEF q2, r2
<1>3. q + q2 \in Int /\ m * (q + q2) = (m * q) + (m * q2)
  BY <1>1, <1>2
<1>4. a + b = (m * (q + q2)) + r2
  BY <1>1, <1>2, <1>3
<1>5. (a + b) % m = r2
  <2> DEFINE c == a + b
             k == q + q2
  <2>1. c \in Int /\ k \in Int
    BY <1>1, <1>2
  <2> HIDE DEF c, k
  <2>2. c = (m * k) + r2
    BY <1>4 DEF c, k
  <2>3. c % m = r2
    BY <1>2, <2>1, <2>2, RemainderIs
  <2> QED BY <2>3 DEF c
<1>6. (r + b) % m = (a + b) % m
  BY <1>5 DEF r2
<1> QED BY <1>6 DEF r

(* Two positions that the same number of bytes separates from the same     *)
(* third one are equal.                                                    *)
LEMMA SameStep ==
  ASSUME NEW m \in Nat \ {0}, NEW x \in 0..(m - 1), NEW y \in 0..(m - 1), NEW b \in Int,
         (x + b) % m = (y + b) % m
  PROVE  x = y
<1> DEFINE q == (x + b) \div m
           p == (y + b) \div m
           r == (x + b) % m
<1>1. x + b \in Int /\ y + b \in Int
  OBVIOUS
<1>2. q \in Int /\ r \in 0..(m - 1) /\ x + b = (m * q) + r
  BY <1>1, Euclid
<1>3. p \in Int /\ (y + b) % m = r /\ y + b = (m * p) + ((y + b) % m)
  BY <1>1, Euclid
<1>4. y + b = (m * p) + r
  BY <1>3
<1> HIDE DEF q, p, r
<1>5. x - y = (m * q) - (m * p)
  BY <1>2, <1>3, <1>4
<1>6. (m * p) + x = (m * q) + y
  BY <1>2, <1>3, <1>5
<1> QED BY <1>2, <1>3, <1>6, OneRemainder

-----------------------------------------------------------------------------
(* The bytes between the cursors.                                          *)

Period == Cardinality(DOMAIN frame)

(* The stream position of the byte at cell s, or of the next to arrive.    *)
At(s) == IF s < writePos THEN buffer[s] ELSE arriving

(* The unread cells hold the bytes that lead up to the one to arrive.      *)
Unread ==
  \A i \in readPos..(writePos - 1) :
    buffer[i] \in 0..(Period - 1) /\ After(buffer[i], writePos - i) = arriving

(* The inductive invariant.  StreamIntact is about OnRecv at work; that it *)
(* stands before a packet must also hold while the session waits, and when *)
(* all is read the packet is the one to arrive.                            *)
ByteInv ==
  /\ CursorInv
  /\ DOMAIN buffer = 0..(Capacity - 1)
  /\ arriving \in 0..(Period - 1)
  /\ Unread
  /\ frame[At(readPos + processLen)] # 0
  /\ pc = "recv" => processLen = 0
  /\ NothingWithheld

(* The stream is a cycle.                                                  *)
LEMMA CycleFact ==
  ASSUME CursorInv
  PROVE  /\ Period \in Nat \ {0} /\ DOMAIN frame = 0..(Period - 1)
         /\ frame[0] # 0
         /\ \A p \in DOMAIN frame :
              /\ frame[p] \in 0..MaxPacket
              /\ frame[p] # 0 => frame[After(p, frame[p])] # 0
<1>1. IsCycle(frame)
  BY RecvBufferAssumption DEF CursorInv, CursorsOK
<1> QED BY <1>1 DEF IsCycle, Period, After

(* What After computes: positions, and one step after another.             *)
LEMMA AfterFact ==
  ASSUME CursorInv, NEW p \in 0..(Period - 1), NEW k \in Nat, NEW l \in Nat
  PROVE  /\ After(p, k) \in 0..(Period - 1)
         /\ After(p, 0) = p
         /\ After(After(p, k), l) = After(p, k + l)
<1>1. Period \in Nat \ {0}
  BY CycleFact
<1> HIDE DEF Period
<1>2. \A j : After(p, j) = (p + j) % Period
  BY DEF After, Period
<1>3. p + k \in Int
  BY <1>1
<1>4. (p + k) % Period \in 0..(Period - 1)
  BY <1>1, <1>3, Euclid
<1>5. (p + 0) % Period = p
  <2>1. p % Period = p
    BY <1>1
  <2> QED BY <1>1, <2>1
<1>6. (((p + k) % Period) + l) % Period = ((p + k) + l) % Period
  <2> DEFINE c == p + k
  <2>1. c \in Int /\ l \in Int
    BY <1>3
  <2> HIDE DEF c
  <2>2. ((c % Period) + l) % Period = (c + l) % Period
    BY <1>1, <2>1, AddRemainder
  <2> QED BY <2>2 DEF c
<1>7. (p + k) + l = p + (k + l)
  BY <1>1
<1>8. After(After(p, k), l) = (((p + k) % Period) + l) % Period
  BY DEF After, Period
<1> QED BY <1>2, <1>4, <1>5, <1>6, <1>7, <1>8

(* The byte n cells on is the n-th after it.                               *)
LEMMA AtFact ==
  ASSUME CursorInv, Unread, arriving \in 0..(Period - 1),
         NEW s \in readPos..writePos, NEW n \in Nat, s + n <= writePos
  PROVE  /\ At(s) \in 0..(Period - 1)
         /\ At(s + n) = After(At(s), n)
<1>0. readPos \in Nat /\ writePos \in Nat /\ Period \in Nat \ {0}
  BY CycleFact DEF CursorInv, CursorsOK
<1>1. ASSUME NEW j \in readPos..writePos
      PROVE  At(j) \in 0..(Period - 1) /\ After(At(j), writePos - j) = arriving
  <2>1. CASE j < writePos
    <3>1. j \in readPos..(writePos - 1)
      BY <1>0, <2>1
    <3> QED BY <2>1, <3>1 DEF At, Unread
  <2>2. CASE ~(j < writePos)
    <3>1. j = writePos /\ writePos - j = 0 /\ At(j) = arriving
      BY <1>0, <2>2 DEF At
    <3>2. After(arriving, 0) = arriving
      BY AfterFact
    <3> QED BY <3>1, <3>2
  <2> QED BY <2>1, <2>2
<1> DEFINE rest == writePos - (s + n)
<1>2. s + n \in readPos..writePos /\ rest \in Nat /\ n + rest = writePos - s
  BY <1>0
<1> HIDE DEF rest
<1>3. At(s) \in 0..(Period - 1) /\ After(At(s), n + rest) = arriving
  BY <1>1, <1>2
<1>4. At(s + n) \in 0..(Period - 1) /\ After(At(s + n), rest) = arriving
  BY <1>1, <1>2 DEF rest
<1>5. /\ After(At(s), n) \in 0..(Period - 1)
      /\ After(After(At(s), n), rest) = After(At(s), n + rest)
  BY <1>2, <1>3, AfterFact
<1> DEFINE x == After(At(s), n)
           y == At(s + n)
<1> HIDE DEF x, y
<1>6. x \in 0..(Period - 1) /\ y \in 0..(Period - 1) /\ After(x, rest) = After(y, rest)
  BY <1>3, <1>4, <1>5 DEF x, y
<1>7. (x + rest) % Period = (y + rest) % Period
  BY <1>6 DEF After, Period
<1>8. x = y
  <2>1. rest \in Int
    BY <1>2
  <2> QED BY <1>0, <1>6, <1>7, <2>1, SameStep, Zenon
<1> QED BY <1>3, <1>8 DEF x, y

(* Initially nothing has arrived, and the stream starts with a packet.     *)
LEMMA InitBytes == Init => ByteInv
<1> SUFFICES ASSUME Init PROVE ByteInv
  OBVIOUS
<1>1. CursorInv
  BY InitFact
<1>2. Period \in Nat \ {0} /\ frame[0] # 0
  BY <1>1, CycleFact
<1>3. At(readPos + processLen) = 0
  BY DEF Init, At
<1>4. DOMAIN buffer = 0..(Capacity - 1)
  BY DEF Init
<1>5. Unread
  BY DEF Init, Unread
<1>6. NothingWithheld
  BY RecvBufferAssumption DEF Init, NothingWithheld, DataSize
<1>7. arriving \in 0..(Period - 1)
  BY <1>2 DEF Init
<1> QED BY <1>1, <1>2, <1>3, <1>4, <1>5, <1>6, <1>7 DEF Init, ByteInv

(* A completion appends the bytes that arrive.                             *)
LEMMA RecvBytes ==
  ASSUME ByteInv, NEW n \in 1..Capacity, Recv(n)
  PROVE  ByteInv'
<1>0. /\ CursorInv /\ CursorInv'
      /\ readPos \in Nat /\ writePos \in Nat /\ readPos <= writePos /\ processLen = 0
      /\ Capacity \in Nat /\ writePos + n <= Capacity
      /\ Period \in Nat \ {0} /\ arriving \in 0..(Period - 1) /\ n \in Nat
  <2>1. CursorInv /\ CursorInv'
    BY RecvFact DEF ByteInv
  <2>2. processLen = 0 /\ n <= Capacity - writePos
    BY DEF Recv, ByteInv, FreeSize
  <2>3. Capacity \in Nat /\ Period \in Nat \ {0}
    BY <2>1, CapacityFact, CycleFact
  <2>4. /\ readPos \in Nat /\ writePos \in Nat /\ processLen \in Nat
        /\ readPos + processLen <= writePos /\ arriving \in 0..(Period - 1)
    BY DEF ByteInv, CursorInv, CursorsOK
  <2> HIDE DEF Period
  <2> QED BY <2>1, <2>2, <2>3, <2>4
<1>1. /\ pc' = "parse" /\ processLen' = 0 /\ readPos' = readPos /\ writePos' = writePos + n
      /\ arriving' = After(arriving, n) /\ frame' = frame
      /\ DOMAIN buffer' = DOMAIN buffer
  BY DEF Recv
<1>2. Period' = Period /\ \A p, k : After(p, k)' = After(p, k)
  BY <1>1 DEF Period, After
<1>3. \A i \in readPos..(writePos - 1) : buffer'[i] = buffer[i]
  <2> SUFFICES ASSUME NEW i \in readPos..(writePos - 1) PROVE buffer'[i] = buffer[i]
    OBVIOUS
  <2>1. i \in 0..(Capacity - 1) /\ i \notin writePos..(writePos + n - 1)
    BY <1>0
  <2> QED BY <2>1 DEF Recv, ByteInv
<1>4. \A i \in writePos..(writePos + n - 1) : buffer'[i] = After(arriving, i - writePos)
  <2> SUFFICES ASSUME NEW i \in writePos..(writePos + n - 1)
               PROVE  buffer'[i] = After(arriving, i - writePos)
    OBVIOUS
  <2>1. i \in 0..(Capacity - 1)
    BY <1>0
  <2> QED BY <2>1 DEF Recv, ByteInv
<1>5. arriving' \in 0..(Period - 1)
  BY <1>0, <1>1, AfterFact
<1>6. ASSUME NEW i \in readPos..(writePos + n - 1)
      PROVE  /\ buffer'[i] \in 0..(Period - 1)
             /\ After(buffer'[i], (writePos + n) - i) = arriving'
  <2>1. CASE i < writePos
    <3>1. i \in readPos..(writePos - 1) /\ writePos - i \in Nat
          /\ (writePos - i) + n = (writePos + n) - i
      BY <1>0, <2>1
    <3>2. /\ buffer[i] \in 0..(Period - 1) /\ After(buffer[i], writePos - i) = arriving
      BY <3>1 DEF ByteInv, Unread
    <3>3. After(After(buffer[i], writePos - i), n) = After(buffer[i], (writePos - i) + n)
      <4> DEFINE b == buffer[i]
                 k == writePos - i
      <4>1. b \in 0..(Period - 1) /\ k \in Nat /\ n \in Nat /\ CursorInv
        BY <1>0, <3>1, <3>2
      <4> HIDE DEF b, k
      <4>2. After(After(b, k), n) = After(b, k + n)
        BY <4>1, AfterFact
      <4> QED BY <4>2 DEF b, k
    <3> QED BY <1>1, <1>3, <3>1, <3>2, <3>3
  <2>2. CASE ~(i < writePos)
    <3>1. /\ i \in writePos..(writePos + n - 1)
          /\ i - writePos \in Nat /\ (writePos + n) - i \in Nat
          /\ (i - writePos) + ((writePos + n) - i) = n
      BY <1>0, <2>2
    <3>2. buffer'[i] = After(arriving, i - writePos)
      BY <1>4, <3>1
    <3>3. /\ After(arriving, i - writePos) \in 0..(Period - 1)
          /\ After(After(arriving, i - writePos), (writePos + n) - i)
               = After(arriving, (i - writePos) + ((writePos + n) - i))
      BY <1>0, <3>1, AfterFact
    <3> QED BY <1>1, <3>1, <3>2, <3>3
  <2> QED BY <2>1, <2>2
<1>7. Unread'
  <2> SUFFICES ASSUME NEW i \in readPos'..(writePos' - 1)
               PROVE  /\ buffer'[i] \in 0..(Period' - 1)
                      /\ After(buffer[i], writePos - i)' = arriving'
    BY Zenon DEF Unread
  <2>1. i \in readPos..(writePos + n - 1)
    BY <1>0, <1>1
  <2> DEFINE w == writePos + n
  <2>2. After(buffer'[i], w - i) = arriving' /\ buffer'[i] \in 0..(Period - 1)
    BY <1>6, <2>1
  <2>3. writePos' = w /\ frame' = frame
    BY <1>1
  <2> HIDE DEF w
  <2>4. After(buffer[i], writePos - i)' = After(buffer'[i], w - i)
    BY <2>3, Zenon DEF After
  <2> QED BY <1>2, <2>2, <2>4
<1>8. frame'[At(readPos + processLen)'] # 0
  <2>1. At(readPos)' = buffer'[readPos]
    BY <1>0, <1>1 DEF At
  <2>2. buffer'[readPos] = At(readPos)
    <3>1. CASE readPos < writePos
      <4>1. readPos \in readPos..(writePos - 1)
        BY <1>0, <3>1
      <4> QED BY <1>3, <3>1, <4>1 DEF At
    <3>2. CASE ~(readPos < writePos)
      <4>1. readPos = writePos /\ readPos - writePos = 0
            /\ readPos \in writePos..(writePos + n - 1)
        BY <1>0, <3>2
      <4>2. After(arriving, 0) = arriving
        BY <1>0, AfterFact
      <4> QED BY <1>4, <3>2, <4>1, <4>2 DEF At
    <3> QED BY <3>1, <3>2
  <2>3. frame[At(readPos)] # 0
    <3>1. readPos + processLen = readPos
      BY <1>0
    <3> QED BY <3>1 DEF ByteInv
  <2>4. readPos' + processLen' = readPos'
    BY <1>0, <1>1
  <2>5. At(readPos + processLen)' = buffer'[readPos]
    BY <1>0, <1>1, <2>4 DEF At
  <2> QED BY <1>1, <2>2, <2>3, <2>5
<1>9. NothingWithheld'
  BY <1>1 DEF NothingWithheld
<1> QED BY <1>0, <1>1, <1>2, <1>5, <1>7, <1>8, <1>9 DEF ByteInv

(* The header OnRecv reads is the one the client wrote, and the next       *)
(* packet starts where this one ends.                                      *)
LEMMA HeaderRead ==
  ASSUME ByteInv, HeaderSize <= DataSize - processLen
  PROVE  /\ readPos + processLen \in readPos..(writePos - 1)
         /\ At(readPos + processLen) = buffer[readPos + processLen]
         /\ HeaderAt(readPos + processLen) = {frame[buffer[readPos + processLen]]}
<1>1. readPos + processLen \in readPos..(writePos - 1)
  BY RecvBufferAssumption DEF DataSize, ByteInv, CursorInv, CursorsOK
<1>2. readPos + processLen < writePos
  BY RecvBufferAssumption DEF DataSize, ByteInv, CursorInv, CursorsOK
<1>3. At(readPos + processLen) = buffer[readPos + processLen]
  BY <1>2 DEF At
<1>4. frame[buffer[readPos + processLen]] # 0
  BY <1>3 DEF ByteInv
<1>5. DOMAIN frame = 0..(Period - 1)
  BY CycleFact DEF ByteInv
<1>6. buffer[readPos + processLen] \in DOMAIN frame
  BY <1>1, <1>5 DEF ByteInv, Unread
<1> QED BY <1>1, <1>3, <1>4, <1>6 DEF HeaderAt

LEMMA OnRecvPacketBytes ==
  ASSUME ByteInv, NEW size \in 0..MaxPacket, OnRecvPacket(size)
  PROVE  ByteInv'
<1> DEFINE s == readPos + processLen
<1>0. /\ CursorInv /\ CursorInv'
      /\ readPos \in Nat /\ writePos \in Nat /\ processLen \in Nat /\ size \in Nat
      /\ arriving \in 0..(Period - 1) /\ Unread
  BY OnRecvPacketFact, RecvBufferAssumption DEF ByteInv, CursorInv, CursorsOK
<1>1. /\ pc = "parse" /\ processLen' = processLen + size
      /\ HeaderSize <= DataSize - processLen /\ size \in HeaderAt(s)
      /\ size <= DataSize - processLen
      /\ UNCHANGED <<pc, readPos, writePos, buffer, arriving, frame>>
  BY DEF OnRecvPacket
<1>2. s \in readPos..(writePos - 1) /\ At(s) = buffer[s] /\ size = frame[At(s)]
  BY <1>1, HeaderRead
<1>3. s \in readPos..writePos /\ s + size <= writePos
      /\ readPos + processLen' = s + size
  BY <1>0, <1>1 DEF DataSize, CursorInv, CursorsOK
<1> HIDE DEF s
<1>4. At(s) \in 0..(Period - 1) /\ At(s + size) = After(At(s), size)
  BY <1>0, <1>3, AtFact
<1>5. frame[At(s)] # 0
  BY DEF ByteInv, s
<1>6. frame[At(s + size)] # 0
  BY <1>0, <1>2, <1>4, <1>5, CycleFact
<1>7. frame'[At(readPos + processLen)'] # 0
  <2>1. At(readPos + processLen)' = At(s + size)
    BY <1>1, <1>3 DEF At
  <2> QED BY <1>1, <1>6, <2>1
<1>8. Unread' /\ arriving' \in 0..(Period' - 1) /\ DOMAIN buffer' = 0..(Capacity - 1)
  BY <1>0, <1>1 DEF Unread, Period, After, ByteInv
<1>9. NothingWithheld'
  BY <1>1 DEF NothingWithheld
<1> QED BY <1>0, <1>1, <1>7, <1>8, <1>9 DEF ByteInv

(* Clean moves the unread bytes or leaves them; what is left is less than  *)
(* a packet.                                                               *)
LEMMA OnRecvDoneBytes ==
  ASSUME ByteInv, OnRecvDone
  PROVE  ByteInv'
<1> DEFINE s == readPos + processLen
           left == writePos - s
<1>0. /\ CursorInv /\ CursorInv'
      /\ readPos \in Nat /\ writePos \in Nat /\ processLen \in Nat
      /\ s \in Nat /\ left \in Nat /\ s + left = writePos
      /\ writePos <= Capacity /\ Capacity \in Nat
      /\ DOMAIN buffer = 0..(Capacity - 1)
  BY OnRecvDoneFact, CapacityFact DEF ByteInv, CursorInv, CursorsOK
<1>1. /\ pc = "parse" /\ pc' = "recv" /\ processLen' = 0
      /\ arriving' = arriving /\ frame' = frame /\ LoopDone /\ Clean(s)
  BY DEF OnRecvDone
<1>2. \E to \in {0, s} :
        /\ readPos' = to /\ writePos' = to + left
        /\ buffer' = [i \in DOMAIN buffer |->
                        IF i \in to..(to + left - 1)
                          THEN buffer[s + (i - to)] ELSE Dead]
  BY <1>1, Zenon DEF Clean
<1>3. PICK to \in {0, s} :
        /\ readPos' = to /\ writePos' = to + left
        /\ buffer' = [i \in DOMAIN buffer |->
                        IF i \in to..(to + left - 1)
                          THEN buffer[s + (i - to)] ELSE Dead]
  BY <1>2
<1>4. to \in Nat /\ to + left <= Capacity
  BY <1>0
<1>5. Period' = Period /\ \A p, k : After(p, k)' = After(p, k)
  BY <1>1 DEF Period, After
<1>6. DOMAIN buffer' = 0..(Capacity - 1)
  BY <1>0, <1>3
<1>7. ASSUME NEW i \in to..(to + left - 1)
      PROVE  /\ buffer'[i] = buffer[s + (i - to)]
             /\ s + (i - to) \in readPos..(writePos - 1)
             /\ (to + left) - i = writePos - (s + (i - to))
  <2>1. i \in DOMAIN buffer
    BY <1>0, <1>4
  <2>2. buffer'[i] = buffer[s + (i - to)]
    BY <1>3, <2>1
  <2>3. /\ s + (i - to) \in readPos..(writePos - 1)
        /\ (to + left) - i = writePos - (s + (i - to))
    BY <1>0, <1>4
  <2> QED BY <2>2, <2>3
<1> HIDE DEF s, left
<1>8. Unread'
  <2> SUFFICES ASSUME NEW i \in readPos'..(writePos' - 1)
               PROVE  /\ buffer'[i] \in 0..(Period' - 1)
                      /\ After(buffer[i], writePos - i)' = arriving'
    BY Zenon DEF Unread
  <2>1. readPos' = to /\ writePos' = to + left /\ frame' = frame
    BY <1>1, <1>3
  <2>2. i \in to..(to + left - 1)
    <3>1. readPos' = to /\ writePos' = to + left /\ to \in Nat /\ left \in Nat
      BY <1>0, <1>3, <1>4
    <3>2. i \in Int /\ readPos' <= i /\ i <= writePos' - 1
      BY <3>1
    <3> QED BY <3>1, <3>2
  <2>3. After(buffer[i], writePos - i)' = After(buffer'[i], (to + left) - i)
    BY <2>1, Zenon DEF After
  <2> DEFINE j == s + (i - to)
  <2>4. buffer'[i] = buffer[j] /\ j \in readPos..(writePos - 1)
        /\ (to + left) - i = writePos - j
    BY <1>7, <2>2
  <2> HIDE DEF j
  <2>5. buffer[j] \in 0..(Period - 1) /\ After(buffer[j], writePos - j) = arriving
    BY <2>4 DEF ByteInv, Unread
  <2> QED BY <1>1, <1>5, <2>4, <2>3, <2>5
<1>9. readPos' + processLen' = to
  BY <1>1, <1>3, <1>4
<1>10. left # 0 => to \in to..(to + left - 1) /\ s + (to - to) = s
  BY <1>0, <1>4
<1>11. left # 0 => buffer'[to] = buffer[s]
  BY <1>7, <1>10
<1>12. frame'[At(readPos + processLen)'] # 0
  <2>1. At(readPos + processLen)' = IF to < to + left THEN buffer'[to] ELSE arriving
    BY <1>1, <1>3, <1>9 DEF At
  <2>2. At(s) = IF s < writePos THEN buffer[s] ELSE arriving
    BY DEF At
  <2>3. to < to + left <=> left # 0
    BY <1>0, <1>4
  <2>4. s < writePos <=> left # 0
    BY <1>0
  <2>5. At(readPos + processLen)' = At(s)
    BY <1>11, <2>1, <2>2, <2>3, <2>4
  <2> QED BY <1>1, <2>5 DEF ByteInv, s
<1>13. NothingWithheld'
  <2> SUFFICES ASSUME HeaderSize <= left PROVE left < frame[buffer'[to]]
    <3>1. DataSize' = left
      BY <1>0, <1>3, <1>4 DEF DataSize
    <3> QED BY <1>1, <1>3, <3>1 DEF NothingWithheld
  <2>1. DataSize - processLen = left
    BY <1>0 DEF DataSize, left, s
  <2>2. PICK size \in HeaderAt(s) : left < size
    BY <1>1, <2>1 DEF LoopDone, s
  <2>3. size = frame[buffer[s]]
    BY <2>1, <2>2, HeaderRead DEF s
  <2>4. left # 0
    BY RecvBufferAssumption
  <2> QED BY <1>11, <2>2, <2>3, <2>4
<1>14. arriving' \in 0..(Period' - 1)
  BY <1>1, <1>5 DEF ByteInv
<1> QED BY <1>0, <1>1, <1>6, <1>8, <1>12, <1>13, <1>14 DEF ByteInv

(* The buffer holds the client's bytes for every stream and every sequence *)
(* of receive sizes.                                                       *)
THEOREM BytesInvariant == Spec => []ByteInv
<1>1. ByteInv /\ [Next]_vars => ByteInv'
  <2> SUFFICES ASSUME ByteInv, [Next]_vars PROVE ByteInv'
    OBVIOUS
  <2>1. CASE UNCHANGED vars
    BY <2>1 DEF vars, ByteInv, CursorInv, CursorsOK, RoomToReceive, FreeSize, Unread,
       At, After, Period, NothingWithheld, DataSize
  <2>2. CASE Next
    BY <2>2, RecvBytes, OnRecvPacketBytes, OnRecvDoneBytes DEF Next
  <2> QED
    BY <2>1, <2>2
<1> QED
  BY InitBytes, <1>1, PTL DEF Spec

(* No byte is lost, repeated or reordered, and OnRecv reads only headers   *)
(* the client wrote, wherever TCP cuts the stream.                         *)
THEOREM StreamStaysIntact == Spec => []StreamIntact
<1>1. ByteInv => StreamIntact
  <2> SUFFICES ASSUME ByteInv PROVE StreamIntact
    OBVIOUS
  <2>1. \A i \in readPos..(writePos - 1) : After(buffer[i], writePos - i) = arriving
    BY DEF ByteInv, Unread
  <2>2. ASSUME processLen < DataSize
        PROVE  frame[buffer[readPos + processLen]] # 0
    <3>1. readPos + processLen < writePos
      BY <2>2 DEF DataSize, ByteInv, CursorInv, CursorsOK
    <3>2. At(readPos + processLen) = buffer[readPos + processLen]
      BY <3>1 DEF At
    <3> QED BY <3>2 DEF ByteInv
  <2> QED BY <2>1, <2>2 DEF StreamIntact
<1> QED
  BY BytesInvariant, <1>1, PTL

(* A session never waits for bytes with a whole packet in its buffer.      *)
THEOREM NoPacketWithheld == Spec => []NothingWithheld
<1>1. ByteInv => NothingWithheld
  BY DEF ByteInv
<1> QED
  BY BytesInvariant, <1>1, PTL
=============================================================================
