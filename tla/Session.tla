------------------------------- MODULE Session -------------------------------
(***************************************************************************)
(* One IOCP session of the server: ServerCore/Session.cpp, the GameSession *)
(* callbacks it runs and the part of Service it registers with.            *)
(*                                                                         *)
(* The session has three OVERLAPPED events (_sendEvent, _recvEvent,        *)
(* _disconnectEvent).  An event is handed to the kernel by WSASend,        *)
(* WSARecv or DisconnectEx and comes back to one of the worker threads     *)
(* through IocpCore::Dispatch.  Worker threads run the Process* functions; *)
(* any thread (a worker serving another session, or the main thread that   *)
(* updates the room) may call Send at any time.                            *)
(*                                                                         *)
(* Each action is one section of code that no other thread can observe     *)
(* half-done: a critical section, one access to an atomic, or one system   *)
(* call together with the unshared work around it.  Threads carry a        *)
(* program counter, and the two return addresses that nested calls need:   *)
(* ret (of Send and RegisterSend) and dret (of Disconnect).                *)
(***************************************************************************)
EXTENDS Integers, Sequences, FiniteSets

CONSTANTS
  Workers,        \* threads that loop on IocpCore::Dispatch
  Senders,        \* threads that only call Send (the main thread)
  MaxSends,       \* bound: Send calls by packet handlers and other threads
  MaxRecvs,       \* bound: receive completions that carry data
  ResourceErrors  \* may WSASend/WSARecv fail at once, on a healthy
                  \* connection, with an error other than a reset?

Threads == Workers \cup Senders

ASSUME SessionAssumption ==
  /\ Workers \cap Senders = {}
  /\ MaxSends \in Nat
  /\ MaxRecvs \in Nat
  /\ ResourceErrors \in BOOLEAN

VARIABLES
  pc, ret, dret,    \* control state of every thread
  connected,        \* _connected
  sendQueue,        \* _sendQueue; a buffer is the number of its Send call
  sendRegistered,   \* _sendRegistered
  sendBuffers,      \* _sendEvent.sendBuffers
  sendOwner,        \* _sendEvent.owner is not null
  sends,            \* WSASend operations the kernel holds
  recvOwner, recvs, \* the same for _recvEvent and WSARecv
  discOwner, discs, \* the same for _disconnectEvent and DisconnectEx
  inService,        \* the session is in Service::_sessions
  managed,          \* the session is in GameSessionManager::_sessions
  player,           \* _myPlayer is set: other threads know the session
  peerOpen,         \* the client's end of the connection is alive
  accepted,         \* ProcessConnect has been called
  wire,             \* history: the buffers the kernel took, in order
  nextBuf,          \* history: Send calls so far + 1
  received,         \* history: receive completions with data
  onDisconnects     \* history: calls of OnDisconnected

sendVars == <<sendQueue, sendRegistered, sendBuffers, sendOwner, sends, wire, nextBuf>>
recvVars == <<recvOwner, recvs, received>>
discVars == <<discOwner, discs, onDisconnects>>
regVars  == <<inService, managed>>
vars == <<pc, ret, dret, connected, sendVars, recvVars, discVars, regVars,
          player, peerOpen, accepted>>

Labels == {"idle",
           "addSession", "onConnected", "hello",            \* ProcessConnect
           "rsCheck", "rsDrain", "rsPost", "rsFail",        \* RegisterSend
           "psDone",                                        \* ProcessSend
           "dEnter", "dPlayer", "dManager", "dRelease", "dPost",  \* Disconnect
           "handler",                                       \* OnRecv
           "rrCheck", "rrPost", "rrFail"}                   \* RegisterRecv

(* Where a Send/RegisterSend call, and a Disconnect call, can return to.   *)
SendReturns == {"idle", "rrCheck", "handler"}
DiscReturns == {"idle", "rsFail", "rrFail"}

TypeOK ==
  /\ pc \in [Threads -> Labels]
  /\ ret \in [Threads -> SendReturns]
  /\ dret \in [Threads -> DiscReturns]
  /\ connected \in BOOLEAN
  /\ sendQueue \in Seq(Nat)
  /\ sendRegistered \in BOOLEAN
  /\ sendBuffers \in Seq(Nat)
  /\ sendOwner \in BOOLEAN
  /\ sends \in Nat
  /\ recvOwner \in BOOLEAN
  /\ recvs \in Nat
  /\ discOwner \in BOOLEAN
  /\ discs \in Nat
  /\ inService \in BOOLEAN
  /\ managed \in BOOLEAN
  /\ player \in BOOLEAN
  /\ peerOpen \in BOOLEAN
  /\ accepted \in BOOLEAN
  /\ wire \in Seq(Nat)
  /\ nextBuf \in Nat
  /\ received \in Nat
  /\ onDisconnects \in Nat

Init ==
  /\ pc = [t \in Threads |-> "idle"]
  /\ ret = [t \in Threads |-> "idle"]
  /\ dret = [t \in Threads |-> "idle"]
  /\ connected = FALSE
  /\ sendQueue = <<>> /\ sendRegistered = FALSE /\ sendBuffers = <<>>
  /\ sendOwner = FALSE /\ sends = 0 /\ wire = <<>> /\ nextBuf = 1
  /\ recvOwner = FALSE /\ recvs = 0 /\ received = 0
  /\ discOwner = FALSE /\ discs = 0 /\ onDisconnects = 0
  /\ inService = FALSE /\ managed = FALSE
  /\ player = FALSE /\ peerOpen = TRUE /\ accepted = FALSE

Goto(t, l) == pc' = [pc EXCEPT ![t] = l]

-----------------------------------------------------------------------------
(* The kernel.  An operation on a connection the peer has dropped, or that *)
(* this side is disconnecting, may fail; a reset is one of the codes that  *)
(* HandleError turns into a Disconnect, every other code it only logs.     *)

Broken == ~peerOpen \/ ~connected

SyncErrors == {e \in {"reset", "other"} :
                 \/ e = "reset" /\ Broken
                 \/ e = "other" /\ (ResourceErrors \/ ~connected)}

(* The client goes away: it exits, or the network fails.                   *)
PeerClose ==
  /\ accepted /\ peerOpen
  /\ peerOpen' = FALSE
  /\ UNCHANGED <<pc, ret, dret, connected, sendVars, recvVars, discVars,
                 regVars, player, accepted>>

-----------------------------------------------------------------------------
(* Disconnect(cause), called by thread t, returns to label r.              *)
CallDisconnect(t, r) ==
  /\ Goto(t, "dEnter")
  /\ dret' = [dret EXCEPT ![t] = r]

(* Fault: HandleError that only logs.                                      *)
HandleError_LogsOnly(t, e, r) == Goto(t, r) /\ UNCHANGED dret

(* HandleError(e): resets disconnect the session, other codes are logged.  *)
HandleError(t, e, r) ==
  IF e = "reset" THEN CallDisconnect(t, r)
                 ELSE Goto(t, r) /\ UNCHANGED dret

(* Fault: Disconnect that does not look at the old value of _connected.    *)
DisconnectEnter_NoExchange(t) ==
  /\ pc[t] = "dEnter"
  /\ connected' = FALSE
  /\ Goto(t, "dPlayer")
  /\ UNCHANGED <<ret, dret, sendVars, recvVars, discVars, regVars, player,
                 peerOpen, accepted>>

(* if (_connected.exchange(false) == false) return;                        *)
DisconnectEnter(t) ==
  /\ pc[t] = "dEnter"
  /\ connected' = FALSE
  /\ Goto(t, IF connected THEN "dPlayer" ELSE dret[t])
  /\ UNCHANGED <<ret, dret, sendVars, recvVars, discVars, regVars, player,
                 peerOpen, accepted>>

(* OnDisconnected: Player::Disconnect takes the player out of the room and *)
(* Sends S_Disconnect to this session.  That Send may win _sendRegistered, *)
(* but its RegisterSend returns at once because _connected is false.       *)
OnDisconnected(t) ==
  /\ pc[t] = "dPlayer"
  /\ onDisconnects' = onDisconnects + 1
  /\ IF player
       THEN /\ sendQueue' = Append(sendQueue, nextBuf)
            /\ nextBuf' = nextBuf + 1
            /\ sendRegistered' = TRUE
       ELSE UNCHANGED <<sendQueue, nextBuf, sendRegistered>>
  /\ Goto(t, "dManager")
  /\ UNCHANGED <<ret, dret, connected, sendBuffers, sendOwner, sends, wire,
                 recvVars, discOwner, discs, regVars, player, peerOpen, accepted>>

(* GSessionManager.Remove(session)                                         *)
ManagerRemove(t) ==
  /\ pc[t] = "dManager"
  /\ managed' = FALSE
  /\ Goto(t, "dRelease")
  /\ UNCHANGED <<ret, dret, connected, sendVars, recvVars, discVars, inService,
                 player, peerOpen, accepted>>

(* Service::ReleaseSession, in a build that evaluates its assert.          *)
ReleaseSession(t) ==
  /\ pc[t] = "dRelease"
  /\ inService' = FALSE
  /\ Goto(t, "dPost")
  /\ UNCHANGED <<ret, dret, connected, sendVars, recvVars, discVars, managed,
                 player, peerOpen, accepted>>

(* RegisterDisconnect; the event keeps its reference only if posted.       *)
RegisterDisconnect(t) ==
  /\ pc[t] = "dPost"
  /\ \/ discOwner' = TRUE /\ discs' = discs + 1
     \/ discOwner' = FALSE /\ UNCHANGED discs
  /\ Goto(t, dret[t])
  /\ UNCHANGED <<ret, dret, connected, sendVars, recvVars, onDisconnects,
                 regVars, player, peerOpen, accepted>>

(* Fault: a disconnect event that is processed without being pending.      *)
ProcessDisconnect_Spurious(t) ==
  /\ pc[t] = "idle" /\ ~connected
  /\ discs' = discs - 1
  /\ discOwner' = FALSE
  /\ UNCHANGED <<pc, ret, dret, connected, sendVars, recvVars, onDisconnects,
                 regVars, player, peerOpen, accepted>>

(* The disconnect event completes: ProcessDisconnect.                      *)
ProcessDisconnect(t) ==
  /\ pc[t] = "idle" /\ discs > 0
  /\ discs' = discs - 1
  /\ discOwner' = FALSE
  /\ UNCHANGED <<pc, ret, dret, connected, sendVars, recvVars, onDisconnects,
                 regVars, player, peerOpen, accepted>>

-----------------------------------------------------------------------------
(* Fault: Send that ignores the old value of _sendRegistered.              *)
Send_AlwaysRegisters(t, r) ==
  /\ sendQueue' = Append(sendQueue, nextBuf)
  /\ nextBuf' = nextBuf + 1
  /\ sendRegistered' = TRUE
  /\ Goto(t, "rsCheck") /\ ret' = [ret EXCEPT ![t] = r]
  /\ UNCHANGED <<dret, connected, sendBuffers, sendOwner, sends, wire, recvVars,
                 discVars, regVars, player, peerOpen, accepted>>

(* Send(buffer) up to the end of its critical section, called by thread t  *)
(* and returning to label r.  The thread that flips _sendRegistered goes   *)
(* on to RegisterSend.                                                     *)
Send(t, r) ==
  /\ sendQueue' = Append(sendQueue, nextBuf)
  /\ nextBuf' = nextBuf + 1
  /\ sendRegistered' = TRUE
  /\ IF sendRegistered
       THEN Goto(t, r) /\ UNCHANGED ret
       ELSE Goto(t, "rsCheck") /\ ret' = [ret EXCEPT ![t] = r]
  /\ UNCHANGED <<dret, connected, sendBuffers, sendOwner, sends, wire, recvVars,
                 discVars, regVars, player, peerOpen, accepted>>

(* Another thread sends to this session: a room broadcast by a worker that *)
(* serves another client, or by the main thread.                           *)
ExternalSend(t) ==
  /\ pc[t] = "idle" /\ player /\ nextBuf <= MaxSends
  /\ Send(t, "idle")

(* RegisterSend: if (IsConnected() == false) return;                       *)
RegisterSendCheck(t) ==
  /\ pc[t] = "rsCheck"
  /\ Goto(t, IF connected THEN "rsDrain" ELSE ret[t])
  /\ UNCHANGED <<ret, dret, connected, sendVars, recvVars, discVars, regVars,
                 player, peerOpen, accepted>>

(* Fault: the loop over the queue with its condition inverted.             *)
RegisterSendDrain_Inverted(t) ==
  /\ pc[t] = "rsDrain"
  /\ sendOwner' = TRUE
  /\ Goto(t, "rsPost")
  /\ UNCHANGED <<ret, dret, connected, sendQueue, sendBuffers, sendRegistered,
                 sends, wire, nextBuf, recvVars, discVars, regVars, player,
                 peerOpen, accepted>>

(* The event takes its reference and, under the lock, the whole queue.     *)
RegisterSendDrain(t) ==
  /\ pc[t] = "rsDrain"
  /\ sendOwner' = TRUE
  /\ sendBuffers' = sendBuffers \o sendQueue
  /\ sendQueue' = <<>>
  /\ Goto(t, "rsPost")
  /\ UNCHANGED <<ret, dret, connected, sendRegistered, sends, wire, nextBuf,
                 recvVars, discVars, regVars, player, peerOpen, accepted>>

(* WSASend: the kernel takes the batch, or refuses it at once.             *)
RegisterSendPost(t) ==
  /\ pc[t] = "rsPost"
  /\ \/ /\ sends' = sends + 1
        /\ wire' = wire \o sendBuffers
        /\ Goto(t, ret[t])
        /\ UNCHANGED dret
     \/ /\ \E e \in SyncErrors : HandleError(t, e, "rsFail")
        /\ UNCHANGED <<sends, wire>>
  /\ UNCHANGED <<ret, connected, sendQueue, sendRegistered, sendBuffers,
                 sendOwner, nextBuf, recvVars, discVars, regVars, player,
                 peerOpen, accepted>>

(* The rest of RegisterSend's error path: the batch is dropped.            *)
RegisterSendFail(t) ==
  /\ pc[t] = "rsFail"
  /\ sendOwner' = FALSE
  /\ sendBuffers' = <<>>
  /\ sendRegistered' = FALSE
  /\ Goto(t, ret[t])
  /\ UNCHANGED <<ret, dret, connected, sendQueue, sends, wire, nextBuf, recvVars,
                 discVars, regVars, player, peerOpen, accepted>>

(* A send completes and a worker runs ProcessSend: with no bytes (the      *)
(* operation failed) it disconnects and leaves _sendRegistered set.        *)
ProcessSend(t) ==
  /\ pc[t] = "idle" /\ sends > 0
  /\ sends' = sends - 1
  /\ sendOwner' = FALSE
  /\ sendBuffers' = <<>>
  /\ \/ Goto(t, "psDone") /\ UNCHANGED dret
     \/ Broken /\ CallDisconnect(t, "idle")
  /\ UNCHANGED <<ret, connected, sendQueue, sendRegistered, wire, nextBuf,
                 recvVars, discVars, regVars, player, peerOpen, accepted>>

(* Fault: ProcessSend that registers again without looking at the queue.   *)
ProcessSendNext_AlwaysRegisters(t) ==
  /\ pc[t] = "psDone"
  /\ Goto(t, "rsCheck")
  /\ ret' = [ret EXCEPT ![t] = "idle"]
  /\ UNCHANGED <<dret, connected, sendVars, recvVars, discVars, regVars, player,
                 peerOpen, accepted>>

(* Fault: ProcessSend that stops without looking at the queue.             *)
ProcessSendNext_Stops(t) ==
  /\ pc[t] = "psDone"
  /\ sendRegistered' = FALSE
  /\ Goto(t, "idle")
  /\ UNCHANGED <<ret, dret, connected, sendQueue, sendBuffers, sendOwner, sends,
                 wire, nextBuf, recvVars, discVars, regVars, player, peerOpen,
                 accepted>>

(* ... otherwise, under the lock: stop, or register what arrived meanwhile. *)
ProcessSendNext(t) ==
  /\ pc[t] = "psDone"
  /\ IF sendQueue = <<>>
       THEN /\ sendRegistered' = FALSE
            /\ Goto(t, "idle")
            /\ UNCHANGED ret
       ELSE /\ UNCHANGED sendRegistered
            /\ Goto(t, "rsCheck")
            /\ ret' = [ret EXCEPT ![t] = "idle"]
  /\ UNCHANGED <<dret, connected, sendQueue, sendBuffers, sendOwner, sends, wire,
                 nextBuf, recvVars, discVars, regVars, player, peerOpen, accepted>>

-----------------------------------------------------------------------------
(* Listener::ProcessAccept runs ProcessConnect.                            *)
ProcessConnect(t) ==
  /\ pc[t] = "idle" /\ ~accepted
  /\ accepted' = TRUE
  /\ connected' = TRUE
  /\ Goto(t, "addSession")
  /\ UNCHANGED <<ret, dret, sendVars, recvVars, discVars, regVars, player, peerOpen>>

AddSession(t) ==
  /\ pc[t] = "addSession"
  /\ inService' = TRUE
  /\ Goto(t, "onConnected")
  /\ UNCHANGED <<ret, dret, connected, sendVars, recvVars, discVars, managed,
                 player, peerOpen, accepted>>

(* GameSession::OnConnected: GSessionManager.Add, then Send(S_Connect).    *)
OnConnected(t) ==
  /\ pc[t] = "onConnected"
  /\ managed' = TRUE
  /\ Goto(t, "hello")
  /\ UNCHANGED <<ret, dret, connected, sendVars, recvVars, discVars, inService,
                 player, peerOpen, accepted>>

SendConnect(t) ==
  /\ pc[t] = "hello"
  /\ Send(t, "rrCheck")

(* RegisterRecv: if (IsConnected() == false) return;                       *)
RegisterRecvCheck(t) ==
  /\ pc[t] = "rrCheck"
  /\ Goto(t, IF connected THEN "rrPost" ELSE "idle")
  /\ UNCHANGED <<ret, dret, connected, sendVars, recvVars, discVars, regVars,
                 player, peerOpen, accepted>>

(* Fault: WSA_IO_PENDING taken for an error, so the owner is dropped.      *)
RegisterRecvPost_PendingAsError(t) ==
  /\ pc[t] = "rrPost"
  /\ recvOwner' = TRUE
  /\ recvs' = recvs + 1
  /\ Goto(t, "rrFail")
  /\ UNCHANGED <<ret, dret, connected, sendVars, received, discVars, regVars,
                 player, peerOpen, accepted>>

(* WSARecv: pending, or refused at once.                                   *)
RegisterRecvPost(t) ==
  /\ pc[t] = "rrPost"
  /\ recvOwner' = TRUE
  /\ \/ /\ recvs' = recvs + 1
        /\ Goto(t, "idle")
        /\ UNCHANGED dret
     \/ /\ \E e \in SyncErrors : HandleError(t, e, "rrFail")
        /\ UNCHANGED recvs
  /\ UNCHANGED <<ret, connected, sendVars, received, discVars, regVars, player,
                 peerOpen, accepted>>

RegisterRecvFail(t) ==
  /\ pc[t] = "rrFail"
  /\ recvOwner' = FALSE
  /\ Goto(t, "idle")
  /\ UNCHANGED <<ret, dret, connected, sendVars, recvs, received, discVars,
                 regVars, player, peerOpen, accepted>>

(* A receive completes and a worker runs ProcessRecv: with no bytes it     *)
(* disconnects, with data it runs the packet handlers.                     *)
ProcessRecv(t) ==
  /\ pc[t] = "idle" /\ recvs > 0
  /\ recvs' = recvs - 1
  /\ recvOwner' = FALSE
  /\ \/ /\ received < MaxRecvs
        /\ received' = received + 1
        /\ Goto(t, "handler")
        /\ UNCHANGED dret
     \/ /\ Broken
        /\ CallDisconnect(t, "idle")
        /\ UNCHANGED received
  /\ UNCHANGED <<ret, connected, sendVars, discVars, regVars, player, peerOpen,
                 accepted>>

(* A packet handler: answers the client ...                                *)
HandlerSend(t) ==
  /\ pc[t] = "handler" /\ nextBuf <= MaxSends
  /\ Send(t, "handler")

(* ... enters the room, which makes the session known to other threads ... *)
HandlerEnterRoom(t) ==
  /\ pc[t] = "handler" /\ ~player
  /\ player' = TRUE
  /\ UNCHANGED <<pc, ret, dret, connected, sendVars, recvVars, discVars, regVars,
                 peerOpen, accepted>>

(* Fault: ProcessRecv that does not call RegisterRecv again.               *)
HandlerDone_NoRegisterRecv(t) ==
  /\ pc[t] = "handler"
  /\ Goto(t, "idle")
  /\ UNCHANGED <<ret, dret, connected, sendVars, recvVars, discVars, regVars,
                 player, peerOpen, accepted>>

(* ... and the handlers are done: OnRead, Clean, RegisterRecv.             *)
HandlerDone(t) ==
  /\ pc[t] = "handler"
  /\ Goto(t, "rrCheck")
  /\ UNCHANGED <<ret, dret, connected, sendVars, recvVars, discVars, regVars,
                 player, peerOpen, accepted>>

-----------------------------------------------------------------------------
(* What a worker does with a completion it takes from the port.            *)
Dispatch(t) ==
  ProcessConnect(t) \/ ProcessSend(t) \/ ProcessRecv(t) \/ ProcessDisconnect(t)

(* What a thread does once it is inside one of the session's functions.    *)
Continue(t) ==
  \/ AddSession(t) \/ OnConnected(t) \/ SendConnect(t)
  \/ RegisterSendCheck(t) \/ RegisterSendDrain(t) \/ RegisterSendPost(t)
  \/ RegisterSendFail(t) \/ ProcessSendNext(t)
  \/ DisconnectEnter(t) \/ OnDisconnected(t) \/ ManagerRemove(t)
  \/ ReleaseSession(t) \/ RegisterDisconnect(t)
  \/ RegisterRecvCheck(t) \/ RegisterRecvPost(t) \/ RegisterRecvFail(t)
  \/ HandlerDone(t)

Next ==
  \/ PeerClose
  \/ \E t \in Workers : Dispatch(t) \/ HandlerSend(t) \/ HandlerEnterRoom(t)
  \/ \E t \in Threads : Continue(t) \/ ExternalSend(t)

Spec == Init /\ [][Next]_vars

(* Thread t is in the room: in a packet handler, or in Player::Disconnect, *)
(* which calls GameRoom::Remove.  Either may wait for the room's mutex for *)
(* ever: a broadcast under the mutex that disconnects a client locks it a  *)
(* second time (GameRoom), if this very Disconnect was called by it or by  *)
(* another.                                                                *)
InRoom(t) == pc[t] = "handler" \/ (pc[t] = "dPlayer" /\ player)

(* Threads keep running, but for what they wait for in the room; the       *)
(* kernel completes what it holds, and some worker that is not in the room *)
(* is always looping on Dispatch (Server.cpp starts five).                 *)
Fairness ==
  /\ \A t \in Threads : WF_vars(~InRoom(t) /\ Continue(t))
  /\ WF_vars(\E t \in Workers : ProcessSend(t))
  /\ WF_vars(\E t \in Workers : ProcessRecv(t))

FairSpec == Spec /\ Fairness

-----------------------------------------------------------------------------
(* Properties.                                                             *)

Disconnecting == {"dEnter", "dPlayer", "dManager", "dRelease", "dPost"}

(* Thread t is between winning _sendRegistered (or taking a send           *)
(* completion) and handing the send event to the kernel or giving up.      *)
Registering(t) ==
  \/ pc[t] \in {"rsCheck", "rsDrain", "rsPost", "rsFail", "psDone"}
  \/ pc[t] \in Disconnecting /\ dret[t] = "rsFail"

(* The single _sendEvent is never used twice at once: at most one WSASend  *)
(* is outstanding, and while it is no thread is inside RegisterSend; nor   *)
(* are two threads.  (_sendRegistered in Send, RegisterSend, ProcessSend.) *)
SendExclusive ==
  /\ sends <= 1
  /\ \A t \in Threads : Registering(t) => sends = 0
  /\ \A t, u \in Threads : Registering(t) /\ Registering(u) => t = u

(* IocpCore::Dispatch calls through iocpEvent->owner without a check, and  *)
(* the owner reference is all that keeps the session alive: every          *)
(* operation the kernel holds has its owner set.                           *)
OwnedWhilePending ==
  /\ sends > 0 => sendOwner
  /\ recvs > 0 => recvOwner
  /\ discs > 0 => discOwner

(* WSASend is never called with an empty batch.  It would complete with    *)
(* zero bytes, which ProcessSend takes for a lost connection.              *)
NoEmptyBatch ==
  \A t \in Threads : pc[t] = "rsPost" => sendBuffers # <<>>

(* A buffer waiting on a connected session has someone who will see to it: *)
(* a thread on its way through RegisterSend, a send still to complete, or  *)
(* a Disconnect about to start.  (RegisterSend's error path breaks this if *)
(* ResourceErrors: it clears _sendRegistered without looking at the queue.) *)
NoStranded ==
  connected /\ sendQueue # <<>> =>
    \/ sends > 0
    \/ \E t \in Threads : Registering(t) \/ pc[t] = "dEnter"

(* However many threads find out that the connection is gone, the session  *)
(* is torn down once: OnDisconnected runs at most once, ReleaseSession     *)
(* finds the session (its assert holds), and when the thread that runs     *)
(* Disconnect is done neither registry keeps the session.                  *)
CleanDisconnect ==
  /\ onDisconnects <= 1
  /\ \A t \in Threads : pc[t] = "dRelease" => inService
  /\ accepted /\ ~connected /\ (\A t \in Threads : pc[t] \notin Disconnecting)
       => ~inService /\ ~managed

(* Send is an ordered stream: nothing is reordered or sent twice, and,     *)
(* unless ResourceErrors, nothing is dropped before Disconnect has marked  *)
(* the session.                                                            *)
Unsent == (IF sends > 0 THEN <<>> ELSE sendBuffers) \o sendQueue

Stream == INSTANCE OrderedStream WITH
  Lossy <- ResourceErrors,
  queue <- Unsent,
  next  <- nextBuf,
  open  <- IF connected THEN "open" ELSE IF accepted THEN "closed" ELSE "new"

StreamSpec == Stream!Spec

(* Every buffer handed to Send reaches the network, unless the session is  *)
(* disconnected first.                                                     *)
EveryBufferSent ==
  \A b \in 1..MaxSends :
    (nextBuf > b) ~> ((\E i \in DOMAIN wire : wire[i] = b) \/ ~connected)

(* A client that goes away is noticed, and its session leaves both         *)
(* registries for good; or a thread has gone into the room on behalf of    *)
(* this session and stays there.                                           *)
Released == ~connected /\ ~inService /\ ~managed
PeerCloseReleases ==
  ~peerOpen ~> []Released \/ \E t \in Threads : []InRoom(t)
-----------------------------------------------------------------------------
(* The inductive invariant behind SendExclusive, OwnedWhilePending,        *)
(* NoEmptyBatch and CleanDisconnect.  Each event has a token: whoever      *)
(* holds it, a thread or the kernel, holds it alone.                       *)

(* The send token exists only while _sendRegistered is set.                *)
SendToken ==
  /\ SendExclusive
  /\ sends > 0 \/ (\E t \in Threads : Registering(t)) => sendRegistered
  /\ sends > 0 => sendOwner
  /\ \A t \in Threads :
       /\ pc[t] = "rsPost" => sendOwner /\ sendBuffers # <<>>
       /\ pc[t] \in {"rsCheck", "rsDrain"} => sendQueue # <<>>

(* Thread t is between ProcessConnect (or taking a receive completion) and *)
(* handing the receive event to the kernel or giving up.                   *)
Receiving(t) ==
  \/ pc[t] \in {"addSession", "onConnected", "hello", "handler",
                "rrCheck", "rrPost", "rrFail"}
  \/ /\ \/ pc[t] \in {"rsCheck", "rsDrain", "rsPost", "rsFail"}
        \/ pc[t] \in Disconnecting /\ dret[t] = "rsFail"
     /\ ret[t] \in {"handler", "rrCheck"}
  \/ pc[t] \in Disconnecting /\ dret[t] = "rrFail"

RecvToken ==
  /\ recvs <= 1
  /\ \A t \in Threads : Receiving(t) => recvs = 0
  /\ \A t, u \in Threads : Receiving(t) /\ Receiving(u) => t = u
  /\ recvs > 0 => recvOwner

(* Thread t is the one that found _connected set in Disconnect.            *)
Closing(t) == pc[t] \in {"dPlayer", "dManager", "dRelease", "dPost"}

(* Before the first Send nothing else can touch the session.               *)
Starting(t) == pc[t] \in {"addSession", "onConnected"}

CloseToken ==
  /\ discs <= 1
  /\ \A t, u \in Threads : Closing(t) /\ Closing(u) => t = u
  /\ discs > 0 => discOwner
  /\ \A t \in Threads : Closing(t) => discs = 0
  /\ connected => onDisconnects = 0 /\ discs = 0 /\ \A t \in Threads : ~Closing(t)
  /\ onDisconnects <= 1
  /\ \A t \in Threads : pc[t] = "dPlayer" => onDisconnects = 0

Registries ==
  /\ ~accepted =>
       /\ ~connected /\ ~inService /\ ~managed /\ ~player
       /\ sends = 0 /\ recvs = 0 /\ discs = 0 /\ onDisconnects = 0
       /\ \A t \in Threads : pc[t] = "idle"
  /\ \A t \in Threads : Starting(t) =>
       /\ connected /\ ~player /\ sends = 0 /\ recvs = 0
       /\ pc[t] = "onConnected" => inService
       /\ \A u \in Threads \ {t} : pc[u] = "idle"
  /\ connected /\ (\A t \in Threads : ~Starting(t)) => inService /\ managed
  /\ \A t \in Threads :
       /\ pc[t] \in {"dPlayer", "dManager", "dRelease"} => inService
       /\ pc[t] \in {"dRelease", "dPost"} => ~managed
       /\ pc[t] = "dPost" => ~inService
  /\ accepted /\ ~connected /\ (\A t \in Threads : ~Closing(t))
       => ~inService /\ ~managed

IInv == TypeOK /\ SendToken /\ RecvToken /\ CloseToken /\ Registries
=============================================================================
