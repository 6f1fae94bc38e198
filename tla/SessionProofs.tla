---------------------------- MODULE SessionProofs ----------------------------
(* Proofs about Session. The inductive invariant IInv gives each of the    *)
(* three OVERLAPPED events a token; one lemma per action shows how the     *)
(* action passes the token on, and the theorems read the properties of     *)
(* Session off the invariant.  Then: that Send implements OrderedStream,   *)
(* and that no buffer is left in the queue of a connected session.         *)
EXTENDS Session, SequenceTheorems, TLAPS

(* Send keeps the invariant from each place it is called: by an idle       *)
(* thread (a broadcast), by a packet handler, and by OnConnected. The      *)
(* thread that flips _sendRegistered becomes the only holder of the send   *)
(* token.                                                                  *)
LEMMA SendInv ==
  ASSUME IInv, NEW t \in Threads, NEW r \in SendReturns, Send(t, r),
         \/ r = "idle" /\ pc[t] = "idle" /\ player
         \/ r = "handler" /\ pc[t] = "handler"
         \/ r = "rrCheck" /\ pc[t] = "hello"
  PROVE  IInv'
<1> USE DEF Send, Goto, sendVars, recvVars, discVars, regVars
<1>1. TypeOK'
  <2>1. /\ pc' \in [Threads -> Labels]
        /\ ret' \in [Threads -> SendReturns]
        /\ dret' \in [Threads -> DiscReturns]
    BY DEF IInv, TypeOK, Labels, SendReturns
  <2>2. sendQueue' \in Seq(Nat) /\ nextBuf' \in Nat
    BY DEF IInv, TypeOK
  <2> QED
    BY <2>1, <2>2 DEF IInv, TypeOK
<1>2. SendToken'
  <2> USE <1>1 DEF IInv, TypeOK, Labels, SendReturns, DiscReturns, SendToken,
                   SendExclusive, Registering, Disconnecting
  <2>0. sendQueue' # <<>>
    BY DEF IInv, TypeOK
  <2>1. CASE sendRegistered
    BY <2>1, <2>0
  <2>2. CASE ~sendRegistered
    <3>1. sends = 0 /\ \A u \in Threads : ~Registering(u)
      BY <2>2
    <3>2. pc'[t] = "rsCheck" /\ \A u \in Threads \ {t} : pc'[u] = pc[u]
      BY <2>2
    <3>3. \A u \in Threads : Registering(u)' => u = t
      BY <3>1, <3>2
    <3>4. SendExclusive'
      BY <3>1, <3>3
    <3>5. \A u \in Threads : pc'[u] # "rsPost"
      BY <3>1, <3>2
    <3> QED
      BY <2>0, <3>1, <3>4, <3>5
  <2> QED BY <2>1, <2>2
<1>3. RecvToken'
  <2>1. \A u \in Threads : Receiving(u)' => Receiving(u)
    BY <1>1 DEF IInv, TypeOK, Labels, SendReturns, Receiving, Disconnecting
  <2> QED
    BY <2>1 DEF IInv, RecvToken
<1>4. CloseToken'
  BY <1>1 DEF IInv, TypeOK, Labels, SendReturns, DiscReturns, CloseToken, Closing
<1>5. Registries'
  BY <1>1 DEF IInv, TypeOK, Labels, SendReturns, DiscReturns, Registries,
              Closing, Starting
<1> QED
  BY <1>1, <1>2, <1>3, <1>4, <1>5 DEF IInv

(* A packet handler's Send.                                                *)
LEMMA HandlerSendInv ==
  ASSUME IInv, NEW t \in Threads, HandlerSend(t)
  PROVE  IInv'
BY SendInv DEF HandlerSend, SendReturns

(* The Send of S_Connect in GameSession::OnConnected.                      *)
LEMMA SendConnectInv ==
  ASSUME IInv, NEW t \in Threads, SendConnect(t)
  PROVE  IInv'
BY SendInv DEF SendConnect, SendReturns

(* A Send by a thread that serves another session, or by the main thread.  *)
LEMMA ExternalSendInv ==
  ASSUME IInv, NEW t \in Threads, ExternalSend(t)
  PROVE  IInv'
BY SendInv DEF ExternalSend, SendReturns

(* ProcessConnect hands the receive token to the accepting thread.         *)
LEMMA ProcessConnectInv ==
  ASSUME IInv, NEW t \in Threads, ProcessConnect(t)
  PROVE  IInv'
<1> USE DEF ProcessConnect, Goto, sendVars, recvVars, discVars, regVars
<1>1. TypeOK'
  BY DEF IInv, TypeOK, Labels, SendReturns, DiscReturns
<1>2. SendToken'
  BY <1>1 DEF IInv, TypeOK, Labels, SendReturns, DiscReturns, SendToken,
              SendExclusive, Registering, Disconnecting
<1>3. RecvToken'
  BY <1>1 DEF IInv, TypeOK, Labels, SendReturns, DiscReturns, RecvToken,
              Receiving, Disconnecting, Registries
<1>4. CloseToken'
  BY <1>1 DEF IInv, TypeOK, Labels, SendReturns, DiscReturns, CloseToken,
              Closing, Registries
<1>5. Registries'
  BY <1>1 DEF IInv, TypeOK, Labels, SendReturns, DiscReturns, Registries,
              Closing, Starting, CloseToken, Disconnecting
<1> QED
  BY <1>1, <1>2, <1>3, <1>4, <1>5 DEF IInv

(* Entering the room only sets _myPlayer.                                  *)
LEMMA HandlerEnterRoomInv ==
  ASSUME IInv, NEW t \in Threads, HandlerEnterRoom(t)
  PROVE  IInv'
<1> USE DEF HandlerEnterRoom, Goto, sendVars, recvVars, discVars, regVars
<1>1. TypeOK'
  BY DEF IInv, TypeOK, Labels, SendReturns, DiscReturns
<1>2. SendToken'
  BY <1>1 DEF IInv, TypeOK, Labels, SendReturns, DiscReturns, SendToken,
              SendExclusive, Registering, Disconnecting
<1>3. RecvToken'
  BY <1>1 DEF IInv, TypeOK, Labels, SendReturns, DiscReturns, RecvToken,
              Receiving, Disconnecting, Registries
<1>4. CloseToken'
  BY <1>1 DEF IInv, TypeOK, Labels, SendReturns, DiscReturns, CloseToken,
              Closing, Registries
<1>5. Registries'
  BY <1>1 DEF IInv, TypeOK, Labels, SendReturns, DiscReturns, Registries,
              Closing, Starting, CloseToken, Disconnecting
<1> QED
  BY <1>1, <1>2, <1>3, <1>4, <1>5 DEF IInv

(* Service::AddSession; nobody else can reach the session yet.             *)
LEMMA AddSessionInv ==
  ASSUME IInv, NEW t \in Threads, AddSession(t)
  PROVE  IInv'
<1> USE DEF AddSession, Goto, sendVars, recvVars, discVars, regVars
<1>1. TypeOK'
  BY DEF IInv, TypeOK, Labels, SendReturns, DiscReturns
<1>2. SendToken'
  BY <1>1 DEF IInv, TypeOK, Labels, SendReturns, DiscReturns, SendToken,
              SendExclusive, Registering, Disconnecting
<1>3. RecvToken'
  BY <1>1 DEF IInv, TypeOK, Labels, SendReturns, DiscReturns, RecvToken,
              Receiving, Disconnecting, Registries
<1>4. CloseToken'
  BY <1>1 DEF IInv, TypeOK, Labels, SendReturns, DiscReturns, CloseToken,
              Closing, Registries
<1>5. Registries'
  BY <1>1 DEF IInv, TypeOK, Labels, SendReturns, DiscReturns, Registries,
              Closing, Starting, CloseToken, Disconnecting
<1> QED
  BY <1>1, <1>2, <1>3, <1>4, <1>5 DEF IInv

(* GSessionManager.Add in OnConnected; still nobody else.                  *)
LEMMA OnConnectedInv ==
  ASSUME IInv, NEW t \in Threads, OnConnected(t)
  PROVE  IInv'
<1> USE DEF OnConnected, Goto, sendVars, recvVars, discVars, regVars
<1>1. TypeOK'
  BY DEF IInv, TypeOK, Labels, SendReturns, DiscReturns
<1>2. SendToken'
  BY <1>1 DEF IInv, TypeOK, Labels, SendReturns, DiscReturns, SendToken,
              SendExclusive, Registering, Disconnecting
<1>3. RecvToken'
  BY <1>1 DEF IInv, TypeOK, Labels, SendReturns, DiscReturns, RecvToken,
              Receiving, Disconnecting, Registries
<1>4. CloseToken'
  BY <1>1 DEF IInv, TypeOK, Labels, SendReturns, DiscReturns, CloseToken,
              Closing, Registries
<1>5. Registries'
  BY <1>1 DEF IInv, TypeOK, Labels, SendReturns, DiscReturns, Registries,
              Closing, Starting, CloseToken, Disconnecting
<1> QED
  BY <1>1, <1>2, <1>3, <1>4, <1>5 DEF IInv

(* RegisterSend empties the queue into the event: only the token's holder  *)
(* does, so what Send or ProcessSend saw in the queue is still there.      *)
LEMMA RegisterSendDrainInv ==
  ASSUME IInv, NEW t \in Threads, RegisterSendDrain(t)
  PROVE  IInv'
<1> USE DEF RegisterSendDrain, Goto, sendVars, recvVars, discVars, regVars
<1>1. TypeOK'
  BY DEF IInv, TypeOK, Labels, SendReturns, DiscReturns
<1>2. SendToken'
  BY <1>1 DEF IInv, TypeOK, Labels, SendReturns, DiscReturns, SendToken,
              SendExclusive, Registering, Disconnecting
<1>3. RecvToken'
  BY <1>1 DEF IInv, TypeOK, Labels, SendReturns, DiscReturns, RecvToken,
              Receiving, Disconnecting, Registries
<1>4. CloseToken'
  BY <1>1 DEF IInv, TypeOK, Labels, SendReturns, DiscReturns, CloseToken,
              Closing, Registries
<1>5. Registries'
  BY <1>1 DEF IInv, TypeOK, Labels, SendReturns, DiscReturns, Registries,
              Closing, Starting, CloseToken, Disconnecting
<1> QED
  BY <1>1, <1>2, <1>3, <1>4, <1>5 DEF IInv

(* GSessionManager.Remove in OnDisconnected.                               *)
LEMMA ManagerRemoveInv ==
  ASSUME IInv, NEW t \in Threads, ManagerRemove(t)
  PROVE  IInv'
<1> USE DEF ManagerRemove, Goto, sendVars, recvVars, discVars, regVars
<1>1. TypeOK'
  BY DEF IInv, TypeOK, Labels, SendReturns, DiscReturns
<1>2. SendToken'
  BY <1>1 DEF IInv, TypeOK, Labels, SendReturns, DiscReturns, SendToken,
              SendExclusive, Registering, Disconnecting
<1>3. RecvToken'
  BY <1>1 DEF IInv, TypeOK, Labels, SendReturns, DiscReturns, RecvToken,
              Receiving, Disconnecting, Registries
<1>4. CloseToken'
  BY <1>1 DEF IInv, TypeOK, Labels, SendReturns, DiscReturns, CloseToken,
              Closing, Registries
<1>5. Registries'
  BY <1>1 DEF IInv, TypeOK, Labels, SendReturns, DiscReturns, Registries,
              Closing, Starting, CloseToken, Disconnecting
<1> QED
  BY <1>1, <1>2, <1>3, <1>4, <1>5 DEF IInv

(* Service::ReleaseSession.                                                *)
LEMMA ReleaseSessionInv ==
  ASSUME IInv, NEW t \in Threads, ReleaseSession(t)
  PROVE  IInv'
<1> USE DEF ReleaseSession, Goto, sendVars, recvVars, discVars, regVars
<1>1. TypeOK'
  BY DEF IInv, TypeOK, Labels, SendReturns, DiscReturns
<1>2. SendToken'
  BY <1>1 DEF IInv, TypeOK, Labels, SendReturns, DiscReturns, SendToken,
              SendExclusive, Registering, Disconnecting
<1>3. RecvToken'
  BY <1>1 DEF IInv, TypeOK, Labels, SendReturns, DiscReturns, RecvToken,
              Receiving, Disconnecting, Registries
<1>4. CloseToken'
  BY <1>1 DEF IInv, TypeOK, Labels, SendReturns, DiscReturns, CloseToken,
              Closing, Registries
<1>5. Registries'
  BY <1>1 DEF IInv, TypeOK, Labels, SendReturns, DiscReturns, Registries,
              Closing, Starting, CloseToken, Disconnecting
<1> QED
  BY <1>1, <1>2, <1>3, <1>4, <1>5 DEF IInv

(* RegisterRecv's test of _connected.                                      *)
LEMMA RegisterRecvCheckInv ==
  ASSUME IInv, NEW t \in Threads, RegisterRecvCheck(t)
  PROVE  IInv'
<1> USE DEF RegisterRecvCheck, Goto, sendVars, recvVars, discVars, regVars
<1>1. TypeOK'
  BY DEF IInv, TypeOK, Labels, SendReturns, DiscReturns
<1>2. SendToken'
  BY <1>1 DEF IInv, TypeOK, Labels, SendReturns, DiscReturns, SendToken,
              SendExclusive, Registering, Disconnecting
<1>3. RecvToken'
  BY <1>1 DEF IInv, TypeOK, Labels, SendReturns, DiscReturns, RecvToken,
              Receiving, Disconnecting, Registries
<1>4. CloseToken'
  BY <1>1 DEF IInv, TypeOK, Labels, SendReturns, DiscReturns, CloseToken,
              Closing, Registries
<1>5. Registries'
  BY <1>1 DEF IInv, TypeOK, Labels, SendReturns, DiscReturns, Registries,
              Closing, Starting, CloseToken, Disconnecting
<1> QED
  BY <1>1, <1>2, <1>3, <1>4, <1>5 DEF IInv

(* RegisterRecv's error path drops the owner; no receive is pending.       *)
LEMMA RegisterRecvFailInv ==
  ASSUME IInv, NEW t \in Threads, RegisterRecvFail(t)
  PROVE  IInv'
<1> USE DEF RegisterRecvFail, Goto, sendVars, recvVars, discVars, regVars
<1>1. TypeOK'
  BY DEF IInv, TypeOK, Labels, SendReturns, DiscReturns
<1>2. SendToken'
  BY <1>1 DEF IInv, TypeOK, Labels, SendReturns, DiscReturns, SendToken,
              SendExclusive, Registering, Disconnecting
<1>3. RecvToken'
  BY <1>1 DEF IInv, TypeOK, Labels, SendReturns, DiscReturns, RecvToken,
              Receiving, Disconnecting, Registries
<1>4. CloseToken'
  BY <1>1 DEF IInv, TypeOK, Labels, SendReturns, DiscReturns, CloseToken,
              Closing, Registries
<1>5. Registries'
  BY <1>1 DEF IInv, TypeOK, Labels, SendReturns, DiscReturns, Registries,
              Closing, Starting, CloseToken, Disconnecting
<1> QED
  BY <1>1, <1>2, <1>3, <1>4, <1>5 DEF IInv

(* The packet handlers return to ProcessRecv.                              *)
LEMMA HandlerDoneInv ==
  ASSUME IInv, NEW t \in Threads, HandlerDone(t)
  PROVE  IInv'
<1> USE DEF HandlerDone, Goto, sendVars, recvVars, discVars, regVars
<1>1. TypeOK'
  BY DEF IInv, TypeOK, Labels, SendReturns, DiscReturns
<1>2. SendToken'
  BY <1>1 DEF IInv, TypeOK, Labels, SendReturns, DiscReturns, SendToken,
              SendExclusive, Registering, Disconnecting
<1>3. RecvToken'
  BY <1>1 DEF IInv, TypeOK, Labels, SendReturns, DiscReturns, RecvToken,
              Receiving, Disconnecting, Registries
<1>4. CloseToken'
  BY <1>1 DEF IInv, TypeOK, Labels, SendReturns, DiscReturns, CloseToken,
              Closing, Registries
<1>5. Registries'
  BY <1>1 DEF IInv, TypeOK, Labels, SendReturns, DiscReturns, Registries,
              Closing, Starting, CloseToken, Disconnecting
<1> QED
  BY <1>1, <1>2, <1>3, <1>4, <1>5 DEF IInv

(* The disconnect event completes.                                         *)
LEMMA ProcessDisconnectInv ==
  ASSUME IInv, NEW t \in Threads, ProcessDisconnect(t)
  PROVE  IInv'
<1> USE DEF ProcessDisconnect, sendVars, recvVars, discVars, regVars
<1>1. TypeOK'
  <2>1. discs' \in Nat
    BY DEF IInv, TypeOK
  <2> QED
    BY <2>1 DEF IInv, TypeOK
<1>2. SendToken'
  BY <1>1 DEF IInv, TypeOK, Labels, SendReturns, DiscReturns, SendToken,
              SendExclusive, Registering, Disconnecting
<1>3. RecvToken'
  BY <1>1 DEF IInv, TypeOK, Labels, SendReturns, DiscReturns, RecvToken,
              Receiving, Disconnecting, Registries
<1>4. CloseToken'
  BY <1>1 DEF IInv, TypeOK, Labels, SendReturns, DiscReturns, CloseToken,
              Closing, Registries
<1>5. Registries'
  BY <1>1 DEF IInv, TypeOK, Labels, SendReturns, DiscReturns, Registries,
              Closing, Starting, CloseToken, Disconnecting
<1> QED
  BY <1>1, <1>2, <1>3, <1>4, <1>5 DEF IInv

(* RegisterDisconnect runs in the one thread that closes the session.      *)
LEMMA RegisterDisconnectInv ==
  ASSUME IInv, NEW t \in Threads, RegisterDisconnect(t)
  PROVE  IInv'
<1> USE DEF RegisterDisconnect, Goto, sendVars, recvVars, discVars, regVars
<1>1. TypeOK'
  <2>1. pc' \in [Threads -> Labels]
    BY DEF IInv, TypeOK, Labels, SendReturns, DiscReturns
  <2>2. discs' \in Nat
    BY DEF IInv, TypeOK
  <2>3. discOwner' \in BOOLEAN
    BY Zenon
  <2> QED
    BY <2>1, <2>2, <2>3 DEF IInv, TypeOK
<1>2. SendToken'
  BY <1>1 DEF IInv, TypeOK, Labels, SendReturns, DiscReturns, SendToken,
              SendExclusive, Registering, Disconnecting
<1>3. RecvToken'
  BY <1>1 DEF IInv, TypeOK, Labels, SendReturns, DiscReturns, RecvToken,
              Receiving, Disconnecting, Registries
<1>4. CloseToken'
  BY <1>1 DEF IInv, TypeOK, Labels, SendReturns, DiscReturns, CloseToken,
              Closing, Registries
<1>5. Registries'
  BY <1>1 DEF IInv, TypeOK, Labels, SendReturns, DiscReturns, Registries,
              Closing, Starting, CloseToken, Disconnecting
<1> QED
  BY <1>1, <1>2, <1>3, <1>4, <1>5 DEF IInv

(* OnDisconnected; its Send cannot start a RegisterSend.                   *)
LEMMA OnDisconnectedInv ==
  ASSUME IInv, NEW t \in Threads, OnDisconnected(t)
  PROVE  IInv'
<1> USE DEF OnDisconnected, Goto, sendVars, recvVars, discVars, regVars
<1>1. TypeOK'
  <2>1. pc' \in [Threads -> Labels]
    BY DEF IInv, TypeOK, Labels, SendReturns, DiscReturns
  <2>2. sendQueue' \in Seq(Nat) /\ nextBuf' \in Nat
    <3>1. /\ sendQueue \in Seq(Nat) /\ Append(sendQueue, nextBuf) \in Seq(Nat)
          /\ nextBuf \in Nat /\ nextBuf + 1 \in Nat
      BY DEF IInv, TypeOK
    <3> QED
      BY <3>1
  <2>3. sendRegistered' \in BOOLEAN
    BY Zenon DEF IInv, TypeOK
  <2>4. onDisconnects' \in Nat
    BY DEF IInv, TypeOK
  <2> QED
    BY <2>1, <2>2, <2>3, <2>4 DEF IInv, TypeOK
<1>2. SendToken'
  BY <1>1 DEF IInv, TypeOK, Labels, SendReturns, DiscReturns, SendToken,
              SendExclusive, Registering, Disconnecting
<1>3. RecvToken'
  BY <1>1 DEF IInv, TypeOK, Labels, SendReturns, DiscReturns, RecvToken,
              Receiving, Disconnecting, Registries
<1>4. CloseToken'
  BY <1>1 DEF IInv, TypeOK, Labels, SendReturns, DiscReturns, CloseToken,
              Closing, Registries
<1>5. Registries'
  BY <1>1 DEF IInv, TypeOK, Labels, SendReturns, DiscReturns, Registries,
              Closing, Starting, CloseToken, Disconnecting
<1> QED
  BY <1>1, <1>2, <1>3, <1>4, <1>5 DEF IInv

(* _connected.exchange(false) elects at most one closing thread.           *)
LEMMA DisconnectEnterInv ==
  ASSUME IInv, NEW t \in Threads, DisconnectEnter(t)
  PROVE  IInv'
<1> USE DEF DisconnectEnter, Goto, sendVars, recvVars, discVars, regVars
<1>1. TypeOK'
  BY DEF IInv, TypeOK, Labels, SendReturns, DiscReturns
<1>2. SendToken'
  <2>1. CASE connected
    BY <1>1, <2>1 DEF IInv, TypeOK, Labels, SendReturns, DiscReturns,
                      SendToken, SendExclusive, Registering, Disconnecting
  <2>2. CASE ~connected
    BY <1>1, <2>2 DEF IInv, TypeOK, Labels, SendReturns, DiscReturns,
                      SendToken, SendExclusive, Registering, Disconnecting
  <2> QED
    BY <2>1, <2>2
<1>3. RecvToken'
  BY <1>1 DEF IInv, TypeOK, Labels, SendReturns, DiscReturns, RecvToken,
              Receiving, Disconnecting, Registries
<1>4. CloseToken'
  BY <1>1 DEF IInv, TypeOK, Labels, SendReturns, DiscReturns, CloseToken,
              Closing, Registries
<1>5. Registries'
  BY <1>1 DEF IInv, TypeOK, Labels, SendReturns, DiscReturns, Registries,
              Closing, Starting, CloseToken, Disconnecting
<1> QED
  BY <1>1, <1>2, <1>3, <1>4, <1>5 DEF IInv

(* RegisterSend's test of _connected: on failure the send token is lost,   *)
(* with _sendRegistered left set.                                          *)
LEMMA RegisterSendCheckInv ==
  ASSUME IInv, NEW t \in Threads, RegisterSendCheck(t)
  PROVE  IInv'
<1> USE DEF RegisterSendCheck, Goto, sendVars, recvVars, discVars, regVars
<1>1. TypeOK'
  BY DEF IInv, TypeOK, Labels, SendReturns, DiscReturns
<1>0. /\ pc'[t] \in {"rsDrain", "idle", "rrCheck", "handler"}
      /\ pc'[t] # "rsDrain" => pc'[t] = ret[t]
      /\ \A u \in Threads \ {t} : pc'[u] = pc[u]
  BY DEF IInv, TypeOK, SendReturns
<1>2. SendToken'
  <2>1. \A u \in Threads : Registering(u)' => Registering(u)
    BY <1>0 DEF Registering, Disconnecting
  <2>2. \A u \in Threads : pc'[u] \in {"rsCheck", "rsDrain"} => sendQueue # <<>>
    BY <1>0 DEF IInv, SendToken
  <2>3. \A u \in Threads : pc'[u] = "rsPost" => sendOwner /\ sendBuffers # <<>>
    BY <1>0 DEF IInv, SendToken
  <2> QED
    BY <2>1, <2>2, <2>3 DEF IInv, SendToken, SendExclusive
<1>3. RecvToken'
  <2>1. \A u \in Threads : Receiving(u)' => Receiving(u)
    BY <1>0 DEF Receiving, Disconnecting
  <2> QED
    BY <2>1 DEF IInv, RecvToken
<1>4. CloseToken'
  <2>1. \A u \in Threads : /\ Closing(u)' <=> Closing(u)
                           /\ pc'[u] = "dPlayer" => pc[u] = "dPlayer"
    BY <1>0 DEF Closing
  <2> QED
    BY <2>1 DEF IInv, CloseToken
<1>5. Registries'
  BY <1>1 DEF IInv, TypeOK, Labels, SendReturns, DiscReturns, Registries,
              Closing, Starting, CloseToken, Disconnecting
<1> QED
  BY <1>1, <1>2, <1>3, <1>4, <1>5 DEF IInv

(* ProcessSend's critical section gives the token up or keeps it.          *)
LEMMA ProcessSendNextInv ==
  ASSUME IInv, NEW t \in Threads, ProcessSendNext(t)
  PROVE  IInv'
<1> USE DEF ProcessSendNext, Goto, recvVars, discVars, regVars
<1>1. TypeOK'
  BY DEF IInv, TypeOK, Labels, SendReturns
<1>0. /\ pc[t] = "psDone" /\ pc'[t] \in {"idle", "rsCheck"}
      /\ pc'[t] = "rsCheck" => sendQueue # <<>> /\ sendRegistered' = sendRegistered
                              /\ ret'[t] = "idle"
      /\ \A u \in Threads \ {t} : pc'[u] = pc[u] /\ ret'[u] = ret[u]
  BY DEF IInv, TypeOK
<1>2. SendToken'
  <2>1. Registering(t) /\ \A u \in Threads : Registering(u)' => Registering(u)
    BY <1>0 DEF Registering, Disconnecting
  <2>2. Registering(t)' => pc'[t] = "rsCheck"
    BY <1>0 DEF Registering, Disconnecting
  <2>3. \A u \in Threads : Registering(u)' => sendRegistered'
    BY <2>1, <2>2, <1>0 DEF IInv, SendToken, SendExclusive
  <2>4. \A u \in Threads :
          /\ pc'[u] = "rsPost" => pc[u] = "rsPost"
          /\ pc'[u] \in {"rsCheck", "rsDrain"} => sendQueue # <<>>
    BY <1>0 DEF IInv, SendToken
  <2> QED
    BY <2>1, <2>3, <2>4 DEF IInv, SendToken, SendExclusive
<1>3. RecvToken'
  <2>1. \A u \in Threads : Receiving(u)' => Receiving(u)
    BY <1>0 DEF Receiving, Disconnecting
  <2> QED
    BY <2>1 DEF IInv, RecvToken
<1>4. CloseToken'
  BY <1>1 DEF IInv, TypeOK, Labels, CloseToken, Closing
<1>5. Registries'
  BY <1>1 DEF IInv, TypeOK, Labels, SendReturns, DiscReturns, Registries,
              Closing, Starting, CloseToken, Disconnecting
<1> QED
  BY <1>1, <1>2, <1>3, <1>4, <1>5 DEF IInv

(* RegisterSend's error path clears the event and _sendRegistered.         *)
LEMMA RegisterSendFailInv ==
  ASSUME IInv, NEW t \in Threads, RegisterSendFail(t)
  PROVE  IInv'
<1> USE DEF RegisterSendFail, Goto, recvVars, discVars, regVars
<1>1. TypeOK'
  <2>1. pc' \in [Threads -> Labels]
    BY DEF IInv, TypeOK, Labels, SendReturns
  <2>2. sendBuffers' \in Seq(Nat)
    OBVIOUS
  <2> QED
    BY <2>1, <2>2 DEF IInv, TypeOK
<1>2. SendToken'
  <2> USE <1>1 DEF IInv, TypeOK, Labels, SendReturns, DiscReturns, SendToken,
                   SendExclusive, Registering, Disconnecting
  <2>1. pc'[t] \in SendReturns /\ \A u \in Threads \ {t} : pc'[u] = pc[u]
    OBVIOUS
  <2>2. \A u \in Threads : ~Registering(u)'
    BY <2>1
  <2> QED BY <2>1, <2>2
<1>3. RecvToken'
  BY <1>1 DEF IInv, TypeOK, Labels, SendReturns, DiscReturns, RecvToken,
              Receiving, Disconnecting, Registries
<1>4. CloseToken'
  BY <1>1 DEF IInv, TypeOK, Labels, SendReturns, DiscReturns, CloseToken,
              Closing, Registries
<1>5. Registries'
  BY <1>1 DEF IInv, TypeOK, Labels, SendReturns, DiscReturns, Registries,
              Closing, Starting, CloseToken, Disconnecting
<1> QED
  BY <1>1, <1>2, <1>3, <1>4, <1>5 DEF IInv

(* WSASend passes the send token to the kernel, or fails and keeps it      *)
(* through HandleError.                                                    *)
LEMMA RegisterSendPostInv ==
  ASSUME IInv, NEW t \in Threads, RegisterSendPost(t)
  PROVE  IInv'
<1> USE DEF RegisterSendPost, HandleError, CallDisconnect, Goto, sendVars,
            recvVars, discVars, regVars
<1>0. \/ sends' = sends + 1 /\ pc' = [pc EXCEPT ![t] = ret[t]] /\ dret' = dret
      \/ sends' = sends /\ pc' = [pc EXCEPT ![t] = "rsFail"] /\ dret' = dret
      \/ /\ sends' = sends /\ pc' = [pc EXCEPT ![t] = "dEnter"]
         /\ dret' = [dret EXCEPT ![t] = "rsFail"]
  OBVIOUS
<1>1. TypeOK'
  <2>1. pc' \in [Threads -> Labels]
    BY <1>0 DEF IInv, TypeOK, Labels, SendReturns
  <2>2. dret' \in [Threads -> DiscReturns]
    BY <1>0 DEF IInv, TypeOK, DiscReturns
  <2>3. sends' \in Nat
    BY DEF IInv, TypeOK
  <2>4. wire \in Seq(Nat) /\ wire \o sendBuffers \in Seq(Nat)
    BY DEF IInv, TypeOK
  <2>5. wire' \in Seq(Nat)
    BY <2>4
  <2> QED
    BY <2>1, <2>2, <2>3, <2>5 DEF IInv, TypeOK
<1>2. SendToken'
  <2>1. CASE sends' = sends + 1 /\ pc' = [pc EXCEPT ![t] = ret[t]] /\ dret' = dret
    BY <1>1, <2>1 DEF IInv, TypeOK, Labels, SendReturns, DiscReturns,
                      SendToken, SendExclusive, Registering, Disconnecting
  <2>2. CASE sends' = sends /\ pc' = [pc EXCEPT ![t] = "rsFail"] /\ dret' = dret
    BY <1>1, <2>2 DEF IInv, TypeOK, Labels, SendReturns, DiscReturns,
                      SendToken, SendExclusive, Registering, Disconnecting
  <2>3. CASE /\ sends' = sends /\ pc' = [pc EXCEPT ![t] = "dEnter"]
            /\ dret' = [dret EXCEPT ![t] = "rsFail"]
    BY <1>1, <2>3 DEF IInv, TypeOK, Labels, SendReturns, DiscReturns,
                      SendToken, SendExclusive, Registering, Disconnecting
  <2> QED
    BY <2>1, <2>2, <2>3, <1>0
<1>3. RecvToken'
  <2>1. CASE sends' = sends + 1 /\ pc' = [pc EXCEPT ![t] = ret[t]] /\ dret' = dret
    BY <1>1, <2>1 DEF IInv, TypeOK, Labels, SendReturns, DiscReturns,
                      RecvToken, Receiving, Disconnecting, Registries
  <2>2. CASE sends' = sends /\ pc' = [pc EXCEPT ![t] = "rsFail"] /\ dret' = dret
    BY <1>1, <2>2 DEF IInv, TypeOK, Labels, SendReturns, DiscReturns,
                      RecvToken, Receiving, Disconnecting, Registries
  <2>3. CASE /\ sends' = sends /\ pc' = [pc EXCEPT ![t] = "dEnter"]
            /\ dret' = [dret EXCEPT ![t] = "rsFail"]
    BY <1>1, <2>3 DEF IInv, TypeOK, Labels, SendReturns, DiscReturns,
                      RecvToken, Receiving, Disconnecting, Registries
  <2> QED
    BY <2>1, <2>2, <2>3, <1>0
<1>4. CloseToken'
  <2>1. CASE sends' = sends + 1 /\ pc' = [pc EXCEPT ![t] = ret[t]] /\ dret' = dret
    BY <1>1, <2>1 DEF IInv, TypeOK, Labels, SendReturns, DiscReturns,
                      CloseToken, Closing, Registries
  <2>2. CASE sends' = sends /\ pc' = [pc EXCEPT ![t] = "rsFail"] /\ dret' = dret
    BY <1>1, <2>2 DEF IInv, TypeOK, Labels, SendReturns, DiscReturns,
                      CloseToken, Closing, Registries
  <2>3. CASE /\ sends' = sends /\ pc' = [pc EXCEPT ![t] = "dEnter"]
            /\ dret' = [dret EXCEPT ![t] = "rsFail"]
    BY <1>1, <2>3 DEF IInv, TypeOK, Labels, SendReturns, DiscReturns,
                      CloseToken, Closing, Registries
  <2> QED
    BY <2>1, <2>2, <2>3, <1>0
<1>5. Registries'
  <2>1. CASE sends' = sends + 1 /\ pc' = [pc EXCEPT ![t] = ret[t]] /\ dret' = dret
    BY <1>1, <2>1 DEF IInv, TypeOK, Labels, SendReturns, DiscReturns,
                      Registries, Closing, Starting, CloseToken,
                      Disconnecting
  <2>2. CASE sends' = sends /\ pc' = [pc EXCEPT ![t] = "rsFail"] /\ dret' = dret
    BY <1>1, <2>2 DEF IInv, TypeOK, Labels, SendReturns, DiscReturns,
                      Registries, Closing, Starting, CloseToken,
                      Disconnecting
  <2>3. CASE /\ sends' = sends /\ pc' = [pc EXCEPT ![t] = "dEnter"]
            /\ dret' = [dret EXCEPT ![t] = "rsFail"]
    BY <1>1, <2>3 DEF IInv, TypeOK, Labels, SendReturns, DiscReturns,
                      Registries, Closing, Starting, CloseToken,
                      Disconnecting
  <2> QED
    BY <2>1, <2>2, <2>3, <1>0
<1> QED
  BY <1>1, <1>2, <1>3, <1>4, <1>5 DEF IInv

(* WSARecv passes the receive token to the kernel, or fails and keeps it   *)
(* through HandleError.                                                    *)
LEMMA RegisterRecvPostInv ==
  ASSUME IInv, NEW t \in Threads, RegisterRecvPost(t)
  PROVE  IInv'
<1> USE DEF RegisterRecvPost, HandleError, CallDisconnect, Goto, sendVars,
            recvVars, discVars, regVars
<1>0. \/ recvs' = recvs + 1 /\ pc' = [pc EXCEPT ![t] = "idle"] /\ dret' = dret
      \/ recvs' = recvs /\ pc' = [pc EXCEPT ![t] = "rrFail"] /\ dret' = dret
      \/ /\ recvs' = recvs /\ pc' = [pc EXCEPT ![t] = "dEnter"]
         /\ dret' = [dret EXCEPT ![t] = "rrFail"]
  OBVIOUS
<1>1. TypeOK'
  <2>1. pc' \in [Threads -> Labels]
    BY <1>0 DEF IInv, TypeOK, Labels, SendReturns
  <2>2. dret' \in [Threads -> DiscReturns]
    BY <1>0 DEF IInv, TypeOK, DiscReturns
  <2>3. recvs' \in Nat
    BY DEF IInv, TypeOK
  <2> QED
    BY <2>1, <2>2, <2>3 DEF IInv, TypeOK
<1>2. SendToken'
  <2>1. CASE recvs' = recvs + 1 /\ pc' = [pc EXCEPT ![t] = "idle"] /\ dret' = dret
    BY <1>1, <2>1 DEF IInv, TypeOK, Labels, SendReturns, DiscReturns,
                      SendToken, SendExclusive, Registering, Disconnecting
  <2>2. CASE recvs' = recvs /\ pc' = [pc EXCEPT ![t] = "rrFail"] /\ dret' = dret
    BY <1>1, <2>2 DEF IInv, TypeOK, Labels, SendReturns, DiscReturns,
                      SendToken, SendExclusive, Registering, Disconnecting
  <2>3. CASE /\ recvs' = recvs /\ pc' = [pc EXCEPT ![t] = "dEnter"]
            /\ dret' = [dret EXCEPT ![t] = "rrFail"]
    BY <1>1, <2>3 DEF IInv, TypeOK, Labels, SendReturns, DiscReturns,
                      SendToken, SendExclusive, Registering, Disconnecting
  <2> QED
    BY <2>1, <2>2, <2>3, <1>0
<1>3. RecvToken'
  <2>1. CASE recvs' = recvs + 1 /\ pc' = [pc EXCEPT ![t] = "idle"] /\ dret' = dret
    BY <1>1, <2>1 DEF IInv, TypeOK, Labels, SendReturns, DiscReturns,
                      RecvToken, Receiving, Disconnecting, Registries
  <2>2. CASE recvs' = recvs /\ pc' = [pc EXCEPT ![t] = "rrFail"] /\ dret' = dret
    BY <1>1, <2>2 DEF IInv, TypeOK, Labels, SendReturns, DiscReturns,
                      RecvToken, Receiving, Disconnecting, Registries
  <2>3. CASE /\ recvs' = recvs /\ pc' = [pc EXCEPT ![t] = "dEnter"]
            /\ dret' = [dret EXCEPT ![t] = "rrFail"]
    BY <1>1, <2>3 DEF IInv, TypeOK, Labels, SendReturns, DiscReturns,
                      RecvToken, Receiving, Disconnecting, Registries
  <2> QED
    BY <2>1, <2>2, <2>3, <1>0
<1>4. CloseToken'
  <2>1. CASE recvs' = recvs + 1 /\ pc' = [pc EXCEPT ![t] = "idle"] /\ dret' = dret
    BY <1>1, <2>1 DEF IInv, TypeOK, Labels, SendReturns, DiscReturns,
                      CloseToken, Closing, Registries
  <2>2. CASE recvs' = recvs /\ pc' = [pc EXCEPT ![t] = "rrFail"] /\ dret' = dret
    BY <1>1, <2>2 DEF IInv, TypeOK, Labels, SendReturns, DiscReturns,
                      CloseToken, Closing, Registries
  <2>3. CASE /\ recvs' = recvs /\ pc' = [pc EXCEPT ![t] = "dEnter"]
            /\ dret' = [dret EXCEPT ![t] = "rrFail"]
    BY <1>1, <2>3 DEF IInv, TypeOK, Labels, SendReturns, DiscReturns,
                      CloseToken, Closing, Registries
  <2> QED
    BY <2>1, <2>2, <2>3, <1>0
<1>5. Registries'
  <2>1. CASE recvs' = recvs + 1 /\ pc' = [pc EXCEPT ![t] = "idle"] /\ dret' = dret
    BY <1>1, <2>1 DEF IInv, TypeOK, Labels, SendReturns, DiscReturns,
                      Registries, Closing, Starting, CloseToken,
                      Disconnecting
  <2>2. CASE recvs' = recvs /\ pc' = [pc EXCEPT ![t] = "rrFail"] /\ dret' = dret
    BY <1>1, <2>2 DEF IInv, TypeOK, Labels, SendReturns, DiscReturns,
                      Registries, Closing, Starting, CloseToken,
                      Disconnecting
  <2>3. CASE /\ recvs' = recvs /\ pc' = [pc EXCEPT ![t] = "dEnter"]
            /\ dret' = [dret EXCEPT ![t] = "rrFail"]
    BY <1>1, <2>3 DEF IInv, TypeOK, Labels, SendReturns, DiscReturns,
                      Registries, Closing, Starting, CloseToken,
                      Disconnecting
  <2> QED
    BY <2>1, <2>2, <2>3, <1>0
<1> QED
  BY <1>1, <1>2, <1>3, <1>4, <1>5 DEF IInv

(* A send completion brings the send token back from the kernel.           *)
LEMMA ProcessSendInv ==
  ASSUME IInv, NEW t \in Threads, ProcessSend(t)
  PROVE  IInv'
<1> USE DEF ProcessSend, CallDisconnect, Goto, sendVars, recvVars, discVars,
            regVars
<1>0. \/ pc' = [pc EXCEPT ![t] = "psDone"] /\ dret' = dret
      \/ pc' = [pc EXCEPT ![t] = "dEnter"] /\ dret' = [dret EXCEPT ![t] = "idle"]
  OBVIOUS
<1>1. TypeOK'
  <2>1. pc' \in [Threads -> Labels]
    BY <1>0 DEF IInv, TypeOK, Labels, SendReturns
  <2>2. dret' \in [Threads -> DiscReturns]
    BY <1>0 DEF IInv, TypeOK, DiscReturns
  <2>3. sends' \in Nat
    BY DEF IInv, TypeOK
  <2>4. sendBuffers' \in Seq(Nat)
    OBVIOUS
  <2> QED
    BY <2>1, <2>2, <2>3, <2>4 DEF IInv, TypeOK
<1>2. SendToken'
  <2>1. CASE pc' = [pc EXCEPT ![t] = "psDone"] /\ dret' = dret
    BY <1>1, <2>1 DEF IInv, TypeOK, Labels, SendReturns, DiscReturns,
                      SendToken, SendExclusive, Registering, Disconnecting
  <2>2. CASE pc' = [pc EXCEPT ![t] = "dEnter"] /\ dret' = [dret EXCEPT ![t] = "idle"]
    BY <1>1, <2>2 DEF IInv, TypeOK, Labels, SendReturns, DiscReturns,
                      SendToken, SendExclusive, Registering, Disconnecting
  <2> QED
    BY <2>1, <2>2, <1>0
<1>3. RecvToken'
  <2>1. CASE pc' = [pc EXCEPT ![t] = "psDone"] /\ dret' = dret
    BY <1>1, <2>1 DEF IInv, TypeOK, Labels, SendReturns, DiscReturns,
                      RecvToken, Receiving, Disconnecting, Registries
  <2>2. CASE pc' = [pc EXCEPT ![t] = "dEnter"] /\ dret' = [dret EXCEPT ![t] = "idle"]
    BY <1>1, <2>2 DEF IInv, TypeOK, Labels, SendReturns, DiscReturns,
                      RecvToken, Receiving, Disconnecting, Registries
  <2> QED
    BY <2>1, <2>2, <1>0
<1>4. CloseToken'
  <2>1. CASE pc' = [pc EXCEPT ![t] = "psDone"] /\ dret' = dret
    BY <1>1, <2>1 DEF IInv, TypeOK, Labels, SendReturns, DiscReturns,
                      CloseToken, Closing, Registries
  <2>2. CASE pc' = [pc EXCEPT ![t] = "dEnter"] /\ dret' = [dret EXCEPT ![t] = "idle"]
    BY <1>1, <2>2 DEF IInv, TypeOK, Labels, SendReturns, DiscReturns,
                      CloseToken, Closing, Registries
  <2> QED
    BY <2>1, <2>2, <1>0
<1>5. Registries'
  <2>1. CASE pc' = [pc EXCEPT ![t] = "psDone"] /\ dret' = dret
    BY <1>1, <2>1 DEF IInv, TypeOK, Labels, SendReturns, DiscReturns,
                      Registries, Closing, Starting, CloseToken,
                      Disconnecting
  <2>2. CASE pc' = [pc EXCEPT ![t] = "dEnter"] /\ dret' = [dret EXCEPT ![t] = "idle"]
    BY <1>1, <2>2 DEF IInv, TypeOK, Labels, SendReturns, DiscReturns,
                      Registries, Closing, Starting, CloseToken,
                      Disconnecting
  <2> QED
    BY <2>1, <2>2, <1>0
<1> QED
  BY <1>1, <1>2, <1>3, <1>4, <1>5 DEF IInv

(* A receive completion brings the receive token back from the kernel.     *)
LEMMA ProcessRecvInv ==
  ASSUME IInv, NEW t \in Threads, ProcessRecv(t)
  PROVE  IInv'
<1> USE DEF ProcessRecv, CallDisconnect, Goto, sendVars, recvVars, discVars,
            regVars
<1>0. \/ pc' = [pc EXCEPT ![t] = "handler"] /\ dret' = dret
      \/ pc' = [pc EXCEPT ![t] = "dEnter"] /\ dret' = [dret EXCEPT ![t] = "idle"]
  OBVIOUS
<1>1. TypeOK'
  <2>1. pc' \in [Threads -> Labels]
    BY <1>0 DEF IInv, TypeOK, Labels, SendReturns
  <2>2. dret' \in [Threads -> DiscReturns]
    BY <1>0 DEF IInv, TypeOK, DiscReturns
  <2>3. recvs' \in Nat
    BY DEF IInv, TypeOK
  <2>4. received' \in Nat
    BY DEF IInv, TypeOK
  <2> QED
    BY <2>1, <2>2, <2>3, <2>4 DEF IInv, TypeOK
<1>2. SendToken'
  <2>1. CASE pc' = [pc EXCEPT ![t] = "handler"] /\ dret' = dret
    BY <1>1, <2>1 DEF IInv, TypeOK, Labels, SendReturns, DiscReturns,
                      SendToken, SendExclusive, Registering, Disconnecting
  <2>2. CASE pc' = [pc EXCEPT ![t] = "dEnter"] /\ dret' = [dret EXCEPT ![t] = "idle"]
    BY <1>1, <2>2 DEF IInv, TypeOK, Labels, SendReturns, DiscReturns,
                      SendToken, SendExclusive, Registering, Disconnecting
  <2> QED
    BY <2>1, <2>2, <1>0
<1>3. RecvToken'
  <2>1. CASE pc' = [pc EXCEPT ![t] = "handler"] /\ dret' = dret
    BY <1>1, <2>1 DEF IInv, TypeOK, Labels, SendReturns, DiscReturns,
                      RecvToken, Receiving, Disconnecting, Registries
  <2>2. CASE pc' = [pc EXCEPT ![t] = "dEnter"] /\ dret' = [dret EXCEPT ![t] = "idle"]
    BY <1>1, <2>2 DEF IInv, TypeOK, Labels, SendReturns, DiscReturns,
                      RecvToken, Receiving, Disconnecting, Registries
  <2> QED
    BY <2>1, <2>2, <1>0
<1>4. CloseToken'
  <2>1. CASE pc' = [pc EXCEPT ![t] = "handler"] /\ dret' = dret
    BY <1>1, <2>1 DEF IInv, TypeOK, Labels, SendReturns, DiscReturns,
                      CloseToken, Closing, Registries
  <2>2. CASE pc' = [pc EXCEPT ![t] = "dEnter"] /\ dret' = [dret EXCEPT ![t] = "idle"]
    BY <1>1, <2>2 DEF IInv, TypeOK, Labels, SendReturns, DiscReturns,
                      CloseToken, Closing, Registries
  <2> QED
    BY <2>1, <2>2, <1>0
<1>5. Registries'
  <2>1. CASE pc' = [pc EXCEPT ![t] = "handler"] /\ dret' = dret
    BY <1>1, <2>1 DEF IInv, TypeOK, Labels, SendReturns, DiscReturns,
                      Registries, Closing, Starting, CloseToken,
                      Disconnecting
  <2>2. CASE pc' = [pc EXCEPT ![t] = "dEnter"] /\ dret' = [dret EXCEPT ![t] = "idle"]
    BY <1>1, <2>2 DEF IInv, TypeOK, Labels, SendReturns, DiscReturns,
                      Registries, Closing, Starting, CloseToken,
                      Disconnecting
  <2> QED
    BY <2>1, <2>2, <1>0
<1> QED
  BY <1>1, <1>2, <1>3, <1>4, <1>5 DEF IInv

-----------------------------------------------------------------------------
(* The invariant holds in a session nobody has connected to.               *)
LEMMA InitInv == Init => IInv
<1> SUFFICES ASSUME Init
             PROVE  IInv
  OBVIOUS
<1> USE DEF Init
<1>1. TypeOK
  <2>1. sendQueue \in Seq(Nat) /\ sendBuffers \in Seq(Nat) /\ wire \in Seq(Nat)
    OBVIOUS
  <2> QED
    BY <2>1 DEF TypeOK, Labels, SendReturns, DiscReturns
<1>2. \A t \in Threads : pc[t] = "idle"
  OBVIOUS
<1>3. SendToken
  BY <1>2 DEF SendToken, SendExclusive, Registering, Disconnecting
<1>4. RecvToken
  BY <1>2 DEF RecvToken, Receiving, Disconnecting
<1>5. CloseToken
  BY <1>2 DEF CloseToken, Closing
<1>6. Registries
  BY <1>2 DEF Registries, Starting
<1> QED
  BY <1>1, <1>3, <1>4, <1>5, <1>6 DEF IInv

(* The client going away changes nothing on this side.                     *)
LEMMA PeerCloseInv ==
  ASSUME IInv, PeerClose
  PROVE  IInv'
<1> USE DEF PeerClose, sendVars, recvVars, discVars, regVars
<1>1. TypeOK'
  BY DEF IInv, TypeOK
<1>2. SendToken' /\ RecvToken'
  BY DEF IInv, SendToken, SendExclusive, Registering, RecvToken, Receiving
<1>3. CloseToken' /\ Registries'
  BY DEF IInv, CloseToken, Closing, Registries, Starting
<1> QED
  BY <1>1, <1>2, <1>3 DEF IInv

(* A stuttering step.                                                      *)
LEMMA StutterInv ==
  ASSUME IInv, UNCHANGED vars
  PROVE  IInv'
BY DEF vars, sendVars, recvVars, discVars, regVars, IInv, TypeOK, SendToken,
       SendExclusive, Registering, RecvToken, Receiving, CloseToken, Closing, Registries,
       Starting

(* The invariant is inductive.                                             *)
LEMMA NextInv == IInv /\ [Next]_vars => IInv'
<1> SUFFICES ASSUME IInv, [Next]_vars
             PROVE  IInv'
  OBVIOUS
<1>1. CASE PeerClose
  BY <1>1, PeerCloseInv
<1>2. ASSUME NEW t \in Workers, Dispatch(t) \/ HandlerSend(t) \/ HandlerEnterRoom(t)
      PROVE  IInv'
  BY <1>2, ProcessConnectInv, ProcessSendInv, ProcessRecvInv, ProcessDisconnectInv,
     HandlerSendInv, HandlerEnterRoomInv DEF Dispatch, Threads
<1>3. ASSUME NEW t \in Threads, Continue(t)
      PROVE  IInv'
  BY <1>3, AddSessionInv, OnConnectedInv, SendConnectInv, RegisterSendCheckInv,
     RegisterSendDrainInv, RegisterSendPostInv, RegisterSendFailInv,
     ProcessSendNextInv, DisconnectEnterInv, OnDisconnectedInv, ManagerRemoveInv,
     ReleaseSessionInv, RegisterDisconnectInv, RegisterRecvCheckInv,
     RegisterRecvPostInv, RegisterRecvFailInv, HandlerDoneInv DEF Continue
<1>4. ASSUME NEW t \in Threads, ExternalSend(t)
      PROVE  IInv'
  BY <1>4, ExternalSendInv
<1>5. CASE UNCHANGED vars
  BY <1>5, StutterInv
<1> QED
  BY <1>1, <1>2, <1>3, <1>4, <1>5 DEF Next

(* Every reachable state of the session satisfies the inductive invariant, *)
(* for any sets of threads, any bounds, and with or without synchronous    *)
(* socket errors.                                                          *)
THEOREM Invariance == Spec => []IInv
BY InitInv, NextInv, PTL DEF Spec

(* The type invariant of the session.                                      *)
THEOREM TypeCorrect == Spec => []TypeOK
<1>1. IInv => TypeOK
  BY DEF IInv
<1> QED
  BY <1>1, Invariance, PTL

(* _sendEvent is never handed to the kernel twice, nor prepared by two     *)
(* threads at once, whatever the interleaving of Send, RegisterSend,       *)
(* ProcessSend and Disconnect.                                             *)
THEOREM SendIsExclusive == Spec => []SendExclusive
<1>1. IInv => SendExclusive
  BY DEF IInv, SendToken
<1> QED
  BY <1>1, Invariance, PTL

(* IocpCore::Dispatch never meets a completion whose event has lost its    *)
(* owner: every pending send, receive and disconnect keeps the session     *)
(* alive.                                                                  *)
THEOREM PendingIsOwned == Spec => []OwnedWhilePending
<1>1. IInv => OwnedWhilePending
  BY DEF IInv, SendToken, RecvToken, CloseToken, OwnedWhilePending
<1> QED
  BY <1>1, Invariance, PTL

(* RegisterSend never calls WSASend with an empty batch.                   *)
THEOREM BatchesNonEmpty == Spec => []NoEmptyBatch
<1>1. IInv => NoEmptyBatch
  BY DEF IInv, SendToken, NoEmptyBatch
<1> QED
  BY <1>1, Invariance, PTL

(* OnDisconnected runs at most once, the assert of Service::ReleaseSession *)
(* holds, and a disconnected session is in neither registry.               *)
THEOREM DisconnectIsClean == Spec => []CleanDisconnect
<1>1. IInv => CleanDisconnect
  BY DEF IInv, CloseToken, Registries, CleanDisconnect, Closing, Disconnecting
<1> QED
  BY <1>1, Invariance, PTL

-----------------------------------------------------------------------------
(* Sequences of buffers.                                                   *)

LEMMA AppendAfter ==
  ASSUME NEW s \in Seq(Nat), NEW q \in Seq(Nat), NEW b \in Nat
  PROVE  s \o Append(q, b) = Append(s \o q, b)
<1>1. s \o q \in Seq(Nat)
  BY ConcatProperties
<1>2. <<b>> \in Seq(Nat)
  OBVIOUS
<1>3. s \o Append(q, b) = s \o (q \o <<b>>)
  BY AppendIsConcat
<1>4. s \o (q \o <<b>>) = (s \o q) \o <<b>>
  BY <1>2, ConcatAssociative
<1>5. (s \o q) \o <<b>> = Append(s \o q, b)
  BY <1>1, AppendIsConcat
<1> QED BY <1>3, <1>4, <1>5

(* A batch in front of the queue is the first part of the whole.           *)
LEMMA BatchIsPrefix ==
  ASSUME NEW s \in Seq(Nat), NEW q \in Seq(Nat), s # <<>>
  PROVE  /\ Len(s) \in 1..Len(s \o q)
         /\ SubSeq(s \o q, 1, Len(s)) = s
         /\ SubSeq(s \o q, Len(s) + 1, Len(s \o q)) = q
<1>1. /\ Len(s) \in Nat \ {0} /\ Len(q) \in Nat
      /\ Len(s \o q) = Len(s) + Len(q)
  BY EmptySeq, LenProperties, ConcatProperties
<1>2. SubSeq(s \o q, 1, Len(s)) = s
  <2>1. SubSeq(s \o q, 1, Len(s)) = SubSeq(s, 1, Len(s))
    BY <1>1, SubSeqOfConcat1
  <2> QED BY <2>1, SubSeqFull
<1>3. SubSeq(s \o q, Len(s) + 1, Len(s \o q)) = q
  <2>1. CASE q = <<>>
    BY <1>1, <2>1, SubSeqEmpty, EmptySeq
  <2>2. CASE q # <<>>
    <3>1. Len(q) >= 1
      BY <2>2, EmptySeq
    <3>2. SubSeq(s \o q, Len(s) + 1, Len(s) + Len(q))
            = SubSeq(q, Len(s) + 1 - Len(s), Len(s) + Len(q) - Len(s))
      BY <1>1, <3>1, SubSeqOfConcat2
    <3>3. Len(s) + 1 - Len(s) = 1 /\ Len(s) + Len(q) - Len(s) = Len(q)
      BY <1>1
    <3> QED BY <1>1, <3>2, <3>3, SubSeqFull
  <2> QED BY <2>1, <2>2
<1> QED BY <1>1, <1>2, <1>3

-----------------------------------------------------------------------------
(* The refinement of OrderedStream, step by step.                          *)

(* Only on a session that Disconnect has marked does RegisterSend drop a   *)
(* batch, unless the system is out of resources.                           *)
Refused == \A t \in Threads : pc[t] = "rsFail" => ResourceErrors \/ ~connected

LEMMA RefusedKept ==
  ASSUME IInv, Refused, [Next]_vars
  PROVE  Refused'
<1> USE DEF Goto, CallDisconnect, HandleError
<1>1. connected' => connected \/ \A t \in Threads : pc'[t] # "rsFail"
  <2>1. ASSUME ~connected, NEW t \in Workers, ProcessConnect(t)
        PROVE  \A u \in Threads : pc'[u] # "rsFail"
    BY <2>1 DEF ProcessConnect, IInv, TypeOK, Registries, Threads
  <2>2. CASE \A t \in Workers : ~ProcessConnect(t)
    BY <2>2 DEF Next, Dispatch, Continue, vars, PeerClose, ProcessSend, ProcessRecv,
       ProcessDisconnect, HandlerSend, HandlerEnterRoom, ExternalSend, Send, AddSession,
       OnConnected, SendConnect, RegisterSendCheck, RegisterSendDrain, RegisterSendPost,
       RegisterSendFail, ProcessSendNext, DisconnectEnter, OnDisconnected, ManagerRemove,
       ReleaseSession, RegisterDisconnect, RegisterRecvCheck, RegisterRecvPost,
       RegisterRecvFail, HandlerDone
  <2> QED BY <2>1, <2>2
<1>2. ASSUME NEW t \in Threads, RegisterSendPost(t)
      PROVE  \A u \in Threads : pc'[u] = "rsFail" => ResourceErrors \/ ~connected'
  BY <1>2 DEF RegisterSendPost, SyncErrors, Refused, IInv, TypeOK, SendReturns
<1>3. ASSUME NEW t \in Threads, DisconnectEnter(t)
      PROVE  ~connected'
  BY <1>3 DEF DisconnectEnter
<1>4. ASSUME NEW t \in Threads, RegisterDisconnect(t)
      PROVE  ~connected'
  BY <1>4 DEF RegisterDisconnect, IInv, CloseToken, Closing
<1>5. CASE /\ \A t \in Threads : /\ ~RegisterSendPost(t)
                                /\ ~DisconnectEnter(t)
                                /\ ~RegisterDisconnect(t)
           /\ \A t \in Workers : ~ProcessConnect(t)
  <2>1. \A u \in Threads : pc'[u] = "rsFail" => pc[u] = "rsFail"
    BY <1>5 DEF Next, Dispatch, Continue, vars, PeerClose, ProcessSend, ProcessRecv,
       ProcessDisconnect, HandlerSend, HandlerEnterRoom, ExternalSend, Send, AddSession,
       OnConnected, SendConnect, RegisterSendCheck, RegisterSendDrain, RegisterSendFail,
       ProcessSendNext, OnDisconnected, ManagerRemove, ReleaseSession, RegisterRecvCheck,
       RegisterRecvPost, RegisterRecvFail, HandlerDone, IInv, TypeOK, SendReturns
  <2> QED BY <1>1, <2>1 DEF Refused
<1>6. ASSUME NEW t \in Workers, ProcessConnect(t)
      PROVE  \A u \in Threads : pc'[u] # "rsFail"
  BY <1>6 DEF ProcessConnect, IInv, TypeOK, Registries, Threads
<1> QED BY <1>2, <1>3, <1>4, <1>5, <1>6 DEF Refused

(* What the other lemmas need of the sequences and the send event.         *)
LEMMA UnsentFacts ==
  ASSUME IInv
  PROVE  /\ sendBuffers \in Seq(Nat) /\ sendQueue \in Seq(Nat) /\ wire \in Seq(Nat)
         /\ nextBuf \in Nat
         /\ Unsent \in Seq(Nat)
         /\ sends > 0 => Unsent = sendQueue
         /\ sends = 0 => Unsent = sendBuffers \o sendQueue
         /\ connected => accepted
<1>1. /\ sendBuffers \in Seq(Nat) /\ sendQueue \in Seq(Nat) /\ wire \in Seq(Nat)
      /\ nextBuf \in Nat
  BY DEF IInv, TypeOK
<1>2. <<>> \in Seq(Nat) /\ <<>> \o sendQueue = sendQueue
  BY <1>1, ConcatEmptySeq
<1>3. sendBuffers \o sendQueue \in Seq(Nat)
  BY <1>1, ConcatProperties
<1>4. connected => accepted
  BY DEF IInv, Registries
<1>5. sends > 0 => Unsent = sendQueue
  BY <1>2 DEF Unsent
<1>6. sends = 0 => Unsent = sendBuffers \o sendQueue
  BY DEF Unsent
<1>7. sends > 0 \/ sends = 0
  BY DEF IInv, TypeOK
<1> QED BY <1>1, <1>3, <1>4, <1>5, <1>6, <1>7

(* A buffer put at the end of the queue is a Write.                        *)
LEMMA AppendWrites ==
  ASSUME IInv, accepted,
         sendQueue' = Append(sendQueue, nextBuf), nextBuf' = nextBuf + 1,
         UNCHANGED <<sendBuffers, sends, wire, connected, accepted>>
  PROVE  Stream!Write
<1> DEFINE batch == IF sends > 0 THEN <<>> ELSE sendBuffers
<1>1. batch \in Seq(Nat)
  BY UnsentFacts
<1>2. batch \o Append(sendQueue, nextBuf) = Append(batch \o sendQueue, nextBuf)
  <2> HIDE DEF batch
  <2> QED BY <1>1, UnsentFacts, AppendAfter
<1>3. Unsent' = Append(Unsent, nextBuf)
  BY <1>2 DEF Unsent
<1> QED BY <1>3 DEF Stream!Write

(* RegisterSend moves the queue into the event: nothing a caller can see.  *)
LEMMA DrainStutters ==
  ASSUME IInv, NEW t \in Threads, RegisterSendDrain(t)
  PROVE  UNCHANGED Stream!vars
<1>1. /\ sendBuffers' = sendBuffers \o sendQueue /\ sendQueue' = <<>>
      /\ UNCHANGED <<sends, wire, nextBuf, connected, accepted>>
      /\ sends = 0
  BY DEF RegisterSendDrain, IInv, SendToken, SendExclusive, Registering
<1>2. sendBuffers \o sendQueue \in Seq(Nat)
  BY UnsentFacts, ConcatProperties
<1>3. Unsent' = Unsent
  BY <1>1, <1>2, ConcatEmptySeq DEF Unsent
<1> QED BY <1>1, <1>3 DEF Stream!vars

(* A WSASend the kernel accepts flushes the whole batch.                   *)
LEMMA PostFlushes ==
  ASSUME IInv, NEW t \in Threads, RegisterSendPost(t)
  PROVE  Stream!Next \/ UNCHANGED Stream!vars
<1>1. /\ sends = 0 /\ sendBuffers # <<>>
      /\ UNCHANGED <<sendBuffers, sendQueue, nextBuf, connected, accepted>>
  BY DEF RegisterSendPost, IInv, SendToken, SendExclusive, Registering
<1>2. CASE sends' = sends + 1 /\ wire' = wire \o sendBuffers
  <2>1. Unsent = sendBuffers \o sendQueue /\ Unsent' = sendQueue
    BY <1>1, <1>2, UnsentFacts, ConcatEmptySeq DEF Unsent
  <2>2. Stream!Flush(Len(sendBuffers))
    BY <1>1, <1>2, <2>1, UnsentFacts, BatchIsPrefix DEF Stream!Flush, Stream!Leave
  <2>3. Len(sendBuffers) \in 1..Len(Unsent)
    BY <1>1, <2>1, UnsentFacts, BatchIsPrefix
  <2> QED BY <2>2, <2>3 DEF Stream!Next
<1>3. CASE UNCHANGED <<sends, wire>>
  BY <1>1, <1>3 DEF Stream!vars, Unsent
<1> QED BY <1>2, <1>3 DEF RegisterSendPost

(* RegisterSend's error path loses the batch.                              *)
LEMMA FailLoses ==
  ASSUME IInv, Refused, NEW t \in Threads, RegisterSendFail(t)
  PROVE  Stream!Next \/ UNCHANGED Stream!vars
<1>1. /\ sends = 0 /\ sendBuffers' = <<>>
      /\ UNCHANGED <<sends, sendQueue, wire, nextBuf, connected, accepted>>
      /\ ResourceErrors \/ ~connected
      /\ accepted
  BY DEF RegisterSendFail, IInv, SendToken, SendExclusive, Registering, Refused, Registries
<1>2. Unsent = sendBuffers \o sendQueue /\ Unsent' = sendQueue
  BY <1>1, UnsentFacts, ConcatEmptySeq DEF Unsent
<1>3. CASE sendBuffers = <<>>
  BY <1>1, <1>2, <1>3, UnsentFacts, ConcatEmptySeq DEF Stream!vars
<1>4. CASE sendBuffers # <<>>
  <2>1. Stream!Lose(Len(sendBuffers))
    BY <1>1, <1>2, <1>4, UnsentFacts, BatchIsPrefix DEF Stream!Lose, Stream!Leave
  <2>2. Len(sendBuffers) \in 1..Len(Unsent)
    BY <1>2, <1>4, UnsentFacts, BatchIsPrefix
  <2> QED BY <2>1, <2>2 DEF Stream!Next
<1> QED BY <1>3, <1>4

(* A completed send has left the stream already.                           *)
LEMMA CompletionStutters ==
  ASSUME IInv, NEW t \in Threads, ProcessSend(t)
  PROVE  UNCHANGED Stream!vars
<1>1. /\ sends = 1 /\ sends' = 0 /\ sendBuffers' = <<>>
      /\ UNCHANGED <<sendQueue, wire, nextBuf, connected, accepted>>
  BY DEF ProcessSend, IInv, TypeOK, SendToken, SendExclusive
<1>2. Unsent' = Unsent
  BY <1>1 DEF Unsent
<1> QED BY <1>1, <1>2 DEF Stream!vars

(* The other actions of threads leave the stream alone.                    *)
LEMMA OthersStutter ==
  ASSUME UNCHANGED <<sendQueue, sendBuffers, sends, wire, nextBuf, connected, accepted>>
  PROVE  UNCHANGED Stream!vars
BY DEF Stream!vars, Unsent

(* Every step of the session is a step of the stream, or none.             *)
LEMMA StepRefines ==
  ASSUME IInv, Refused, [Next]_vars
  PROVE  [Stream!Next]_(Stream!vars)
<1> USE DEF Goto, sendVars, recvVars, discVars, regVars
<1>1. ASSUME NEW t \in Threads, NEW r, Send(t, r), accepted
      PROVE  Stream!Next
  BY <1>1, AppendWrites DEF Send, Stream!Next
<1>2. ASSUME NEW t \in Threads, HandlerSend(t) \/ SendConnect(t) \/ ExternalSend(t)
      PROVE  Stream!Next
  BY <1>1, <1>2 DEF HandlerSend, SendConnect, ExternalSend, IInv, Registries
<1>3. ASSUME NEW t \in Threads, OnDisconnected(t)
      PROVE  Stream!Next \/ UNCHANGED Stream!vars
  <2>1. accepted
    BY <1>3 DEF OnDisconnected, IInv, Registries
  <2>2. CASE player
    BY <1>3, <2>1, <2>2, AppendWrites DEF OnDisconnected, Stream!Next
  <2>3. CASE ~player
    BY <1>3, <2>3, OthersStutter DEF OnDisconnected
  <2> QED BY <2>2, <2>3
<1>4. ASSUME NEW t \in Threads, ProcessConnect(t)
      PROVE  Stream!Next
  <2>1. /\ ~accepted /\ ~connected /\ accepted' /\ connected'
        /\ UNCHANGED <<sendQueue, sendBuffers, sends, wire, nextBuf>>
    BY <1>4 DEF ProcessConnect, IInv, Registries
  <2>2. Stream!Open
    BY <2>1 DEF Stream!Open, Unsent
  <2> QED BY <2>2 DEF Stream!Next
<1>5. ASSUME NEW t \in Threads, DisconnectEnter(t)
      PROVE  Stream!Next \/ UNCHANGED Stream!vars
  <2>1. /\ ~connected' /\ accepted
        /\ UNCHANGED <<sendQueue, sendBuffers, sends, wire, nextBuf, accepted>>
    BY <1>5 DEF DisconnectEnter, IInv, Registries
  <2>2. connected => Stream!Close
    BY <2>1 DEF Stream!Close, Unsent
  <2>3. ~connected => UNCHANGED Stream!vars
    BY <2>1, OthersStutter DEF Stream!vars, Unsent
  <2> QED BY <2>2, <2>3 DEF Stream!Next
<1>6. ASSUME NEW t \in Threads,
             \/ AddSession(t) \/ OnConnected(t) \/ RegisterSendCheck(t)
             \/ ProcessSendNext(t) \/ ManagerRemove(t) \/ ReleaseSession(t)
             \/ RegisterDisconnect(t) \/ RegisterRecvCheck(t) \/ RegisterRecvPost(t)
             \/ RegisterRecvFail(t) \/ HandlerDone(t) \/ ProcessRecv(t)
             \/ ProcessDisconnect(t) \/ HandlerEnterRoom(t)
      PROVE  UNCHANGED Stream!vars
  BY <1>6, OthersStutter DEF AddSession, OnConnected, RegisterSendCheck, ProcessSendNext,
     ManagerRemove, ReleaseSession, RegisterDisconnect, RegisterRecvCheck, RegisterRecvPost,
     RegisterRecvFail, HandlerDone, ProcessRecv, ProcessDisconnect, HandlerEnterRoom
<1>7. CASE PeerClose \/ UNCHANGED vars
  BY <1>7, OthersStutter DEF PeerClose, vars
<1> QED
  BY <1>2, <1>3, <1>4, <1>5, <1>6, <1>7, DrainStutters, PostFlushes, FailLoses,
     CompletionStutters DEF Next, Dispatch, Continue, Threads

(* Whatever threads call Send, complete sends or disconnect, and whenever, *)
(* the session delivers an ordered stream of buffers without duplicates.   *)
THEOREM SendImplementsStream == Spec => StreamSpec
<1>1. Init => Refused /\ Stream!Init
  <2> SUFFICES ASSUME Init PROVE Refused /\ Stream!Init
    OBVIOUS
  <2>1. <<>> \in Seq(Nat) /\ <<>> \o <<>> = <<>>
    BY ConcatEmptySeq
  <2> QED BY <2>1 DEF Init, Refused, Stream!Init, Unsent
<1>2. IInv /\ Refused /\ [Next]_vars => Refused' /\ [Stream!Next]_(Stream!vars)
  BY RefusedKept, StepRefines
<1> QED BY <1>1, <1>2, Invariance, PTL DEF Spec, StreamSpec, Stream!Spec

-----------------------------------------------------------------------------
(* No buffer is left behind.                                               *)

(* Somebody will see to the queue.                                         *)
Held ==
  \/ sends > 0
  \/ \E t \in Threads : Registering(t) \/ pc[t] = "dEnter"

(* While the session is connected, a buffer that waits keeps               *)
(* _sendRegistered set, and somebody has set it who is not done.           *)
Tended ==
  /\ connected /\ sendQueue # <<>> => sendRegistered
  /\ connected /\ sendRegistered => Held
  /\ ~accepted => sendQueue = <<>> /\ ~sendRegistered

(* A step of a thread that holds nothing lets nothing go.                  *)
LEMMA HeldByOthers ==
  ASSUME IInv, Held, NEW t \in Threads, ~Registering(t), pc[t] # "dEnter", NEW l,
         Goto(t, l), UNCHANGED sends,
         \A u \in Threads \ {t} : dret'[u] = dret[u]
  PROVE  Held'
<1>1. CASE sends > 0
  BY <1>1 DEF Held
<1>2. ASSUME NEW u \in Threads, Registering(u) \/ pc[u] = "dEnter" PROVE Held'
  <2>1. u # t /\ pc'[u] = pc[u] /\ dret'[u] = dret[u]
    BY <1>2 DEF Goto, IInv, TypeOK
  <2>2. Registering(u)' \/ pc'[u] = "dEnter"
    BY <1>2, <2>1 DEF Registering
  <2> QED BY <2>2 DEF Held
<1> QED BY <1>1, <1>2 DEF Held

(* A thread that comes to RegisterSend or to Disconnect holds the queue.   *)
LEMMA HeldByThread ==
  ASSUME IInv, NEW t \in Threads,
         NEW l \in {"rsCheck", "rsDrain", "rsPost", "psDone", "dEnter"}, Goto(t, l)
  PROVE  Held'
<1>1. pc'[t] = l
  BY DEF Goto, IInv, TypeOK
<1> QED BY <1>1 DEF Held, Registering

LEMMA TendedKept ==
  ASSUME IInv, Refused, Tended, ResourceErrors = FALSE, [Next]_vars
  PROVE  Tended'
<1> USE DEF sendVars, recvVars, discVars, regVars
<1>1. CASE PeerClose \/ UNCHANGED vars
  BY <1>1 DEF PeerClose, vars, Tended, Held, Registering
<1>2. ASSUME NEW t \in Threads, ProcessConnect(t) PROVE Tended'
  BY <1>2 DEF ProcessConnect, Tended
<1>3. ASSUME NEW t \in Threads, DisconnectEnter(t) PROVE Tended'
  BY <1>3 DEF DisconnectEnter, Tended, IInv, Registries
<1>4. ASSUME NEW t \in Threads,
             \/ OnDisconnected(t) \/ ManagerRemove(t) \/ ReleaseSession(t)
             \/ RegisterDisconnect(t)
      PROVE  Tended'
  <2>1. ~connected /\ accepted /\ UNCHANGED <<connected, accepted>>
    BY <1>4 DEF OnDisconnected, ManagerRemove, ReleaseSession, RegisterDisconnect, IInv,
                CloseToken, Closing, Registries
  <2> QED BY <2>1 DEF Tended
<1>5. ASSUME NEW t \in Threads, NEW r, Send(t, r), accepted,
             ~Registering(t), pc[t] # "dEnter"
      PROVE  Tended'
  <2>1. /\ sendRegistered'
        /\ UNCHANGED <<sends, connected, accepted, dret>>
    BY <1>5 DEF Send
  <2>2. CASE sendRegistered
    <3>1. Goto(t, r)
      BY <1>5, <2>2 DEF Send
    <3> QED BY <1>5, <2>1, <2>2, <3>1, HeldByOthers DEF Tended
  <2>3. CASE ~sendRegistered
    <3>1. Goto(t, "rsCheck")
      BY <1>5, <2>3 DEF Send
    <3> QED BY <1>5, <2>1, <3>1, HeldByThread DEF Tended
  <2> QED BY <2>2, <2>3
<1>6. ASSUME NEW t \in Threads, HandlerSend(t) \/ SendConnect(t) \/ ExternalSend(t)
      PROVE  Tended'
  <2>1. accepted /\ ~Registering(t) /\ pc[t] # "dEnter"
    BY <1>6 DEF HandlerSend, SendConnect, ExternalSend, IInv, Registries, Registering,
                Disconnecting
  <2> QED BY <1>5, <1>6, <2>1 DEF HandlerSend, SendConnect, ExternalSend
<1>7. ASSUME NEW t \in Threads, RegisterSendCheck(t) PROVE Tended'
  <2>1. UNCHANGED <<sendQueue, sendRegistered, connected, accepted>>
    BY <1>7 DEF RegisterSendCheck
  <2>2. connected => Held'
    BY <1>7, HeldByThread DEF RegisterSendCheck
  <2> QED BY <2>1, <2>2 DEF Tended
<1>8. ASSUME NEW t \in Threads, RegisterSendDrain(t) PROVE Tended'
  <2>1. /\ sendQueue' = <<>>
        /\ UNCHANGED <<sendRegistered, connected, accepted>>
        /\ Held'
    BY <1>8, HeldByThread DEF RegisterSendDrain
  <2> QED BY <2>1 DEF Tended
<1>9. ASSUME NEW t \in Threads, RegisterSendPost(t) PROVE Tended'
  <2>1. UNCHANGED <<sendQueue, sendRegistered, connected, accepted>>
    BY <1>9 DEF RegisterSendPost
  <2>2. CASE sends' = sends + 1
    <3>1. Held'
      BY <2>2 DEF Held, IInv, TypeOK
    <3> QED BY <2>1, <3>1 DEF Tended
  <2>3. CASE \E e \in SyncErrors : HandleError(t, e, "rsFail")
    <3>1. connected => Goto(t, "dEnter")
      BY <2>3 DEF SyncErrors, HandleError, CallDisconnect
    <3> QED BY <2>1, <3>1, HeldByThread DEF Tended
  <2> QED BY <1>9, <2>2, <2>3 DEF RegisterSendPost
<1>10. ASSUME NEW t \in Threads, RegisterSendFail(t) PROVE Tended'
  <2>1. ~connected /\ accepted /\ UNCHANGED <<connected, accepted>>
    BY <1>10 DEF RegisterSendFail, Refused, IInv, Registries
  <2> QED BY <2>1 DEF Tended
<1>11. ASSUME NEW t \in Threads, ProcessSend(t) PROVE Tended'
  <2>1. UNCHANGED <<sendQueue, sendRegistered, connected, accepted>>
    BY <1>11 DEF ProcessSend
  <2>2. Held'
    BY <1>11, HeldByThread DEF ProcessSend, CallDisconnect
  <2> QED BY <2>1, <2>2 DEF Tended
<1>12. ASSUME NEW t \in Threads, ProcessSendNext(t) PROVE Tended'
  <2>1. UNCHANGED <<sendQueue, connected, accepted>>
    BY <1>12 DEF ProcessSendNext
  <2>2. CASE sendQueue = <<>>
    BY <1>12, <2>1, <2>2 DEF ProcessSendNext, Tended
  <2>3. CASE sendQueue # <<>>
    BY <1>12, <2>1, <2>3, HeldByThread DEF ProcessSendNext, Tended
  <2> QED BY <2>2, <2>3
<1>13. ASSUME NEW t \in Threads,
              \/ AddSession(t) \/ OnConnected(t) \/ RegisterRecvCheck(t)
              \/ RegisterRecvPost(t) \/ RegisterRecvFail(t) \/ HandlerDone(t)
              \/ ProcessRecv(t)
       PROVE  Tended'
  <2>1. /\ UNCHANGED <<sendQueue, sendRegistered, sends, connected, accepted>>
        /\ ~Registering(t) /\ pc[t] # "dEnter"
    BY <1>13 DEF AddSession, OnConnected, RegisterRecvCheck, RegisterRecvPost,
       RegisterRecvFail, HandlerDone, ProcessRecv, Registering, Disconnecting
  <2>2. \E l : Goto(t, l)
    BY <1>13 DEF AddSession, OnConnected, RegisterRecvCheck, RegisterRecvPost,
       RegisterRecvFail, HandlerDone, ProcessRecv, HandleError, CallDisconnect
  <2>3. \A u \in Threads \ {t} : dret'[u] = dret[u]
    BY <1>13 DEF AddSession, OnConnected, RegisterRecvCheck, RegisterRecvPost,
       RegisterRecvFail, HandlerDone, ProcessRecv, HandleError, CallDisconnect, IInv, TypeOK
  <2>4. Held => Held'
    BY <2>1, <2>2, <2>3, HeldByOthers
  <2> QED BY <2>1, <2>4 DEF Tended
<1>14. ASSUME NEW t \in Threads, ProcessDisconnect(t) \/ HandlerEnterRoom(t)
       PROVE  Tended'
  BY <1>14 DEF ProcessDisconnect, HandlerEnterRoom, Tended, Held, Registering
<1> QED
  BY <1>1, <1>2, <1>3, <1>4, <1>6, <1>7, <1>8, <1>9, <1>10, <1>11, <1>12, <1>13, <1>14
     DEF Next, Dispatch, Continue, Threads

(* As long as the system has the resources to post an operation, a buffer  *)
(* that waits on a connected session has someone who will see to it.       *)
THEOREM NothingStranded == ASSUME ResourceErrors = FALSE PROVE Spec => []NoStranded
<1>1. Init => Refused /\ Tended
  BY DEF Init, Refused, Tended
<1>2. IInv /\ Refused /\ Tended /\ [Next]_vars => Refused' /\ Tended'
  BY RefusedKept, TendedKept
<1>3. Tended => NoStranded
  BY DEF Tended, Held, NoStranded
<1> QED BY <1>1, <1>2, <1>3, Invariance, PTL DEF Spec
=============================================================================
