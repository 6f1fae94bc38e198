---------------------------- MODULE ListenerProofs ----------------------------
(***************************************************************************)
(* Proof that no accept slot is ever lost or used by two, for any number   *)
(* of accept events, workers, clients and sockets, however often AcceptEx  *)
(* fails.  An accept event is handed from its thread to the kernel, from   *)
(* there to the completion port and on to another thread; the lemmas treat *)
(* one hand-over each.                                                     *)
(***************************************************************************)
EXTENDS Listener, SequenceTheorems, TLAPS

USE ListenerAssumption DEF Threads

(* Nothing has been started: all events are fresh.                         *)
LEMMA InitHolds == Init => IInv
<1> SUFFICES ASSUME Init PROVE IInv
  OBVIOUS
<1>1. TypeOK
  <2>1. <<>> \in Seq(Op) /\ <<>> \in Seq(Clients)
    BY EmptySeq
  <2>2. /\ at \in [Threads -> {"idle", "register", "accept", "check"}]
        /\ event \in [Threads -> Events \cup {Nobody}]
        /\ refs \in [Threads -> SUBSET Sockets]
        /\ session \in [Events -> Sockets \cup {Nobody}]
        /\ peer \in [Sockets -> Clients \cup {Nobody}]
    BY DEF Init
  <2> QED BY <2>1, <2>2 DEF Init, TypeOK
<1>2. EventsHaveOneHolder
  BY DEF Init, EventsHaveOneHolder, Queued, Posted, Handled
<1>3. SessionsMatch
  BY DEF Init, SessionsMatch
<1>4. ThreadsOK
  BY DEF Init, ThreadsOK
<1> QED BY <1>1, <1>2, <1>3, <1>4 DEF IInv, AcceptSlotsKept

(* Types are kept by the server's threads.                                 *)
LEMMA ThreadTypes ==
  ASSUME TypeOK, ThreadsOK, StartAccept \/ \E t \in Threads : Accepting(t)
  PROVE TypeOK'
<1>1. CASE StartAccept
  BY <1>1 DEF StartAccept, TypeOK
<1>2. ASSUME NEW t \in Threads, Accepting(t) PROVE TypeOK'
  <2>0. at[t] # "idle" => event[t] \in Events
    BY DEF TypeOK, ThreadsOK
  <2>1. CASE CreateSession(t)
    <3>1. CASE Free = {}
      BY <2>1, <3>1 DEF CreateSession, TypeOK
    <3>2. CASE Free # {}
      <4>1. PICK s \in Free :
              /\ session' = [session EXCEPT ![event[t]] = s]
              /\ refs' = [refs EXCEPT ![t] = @ \cup {s}]
              /\ peer' = [peer EXCEPT ![s] = Nobody]
              /\ at' = [at EXCEPT ![t] = "accept"]
              /\ crashed' = crashed
        BY <2>1, <3>2, Zenon DEF CreateSession
      <4>2. s \in Sockets
        BY DEF Free
      <4> QED BY <2>1, <4>1, <4>2 DEF CreateSession, TypeOK
    <3> QED BY <3>1, <3>2
  <2>2. CASE AcceptEx(t)
    BY <2>0, <2>2 DEF AcceptEx, Return, Attempt, TypeOK, ThreadsOK, Op
  <2>3. CASE AcceptExFails(t)
    BY <2>3 DEF AcceptExFails, TypeOK
  <2>4. CASE RefuseAccept(t)
    BY <2>4 DEF RefuseAccept, TypeOK
  <2>5. CASE ProcessConnect(t)
    BY <2>5 DEF ProcessConnect, TypeOK
  <2> QED BY <1>2, <2>1, <2>2, <2>3, <2>4, <2>5 DEF Accepting
<1> QED BY <1>1, <1>2

(* Types are kept by dispatching, by releases and by the environment.      *)
LEMMA OtherTypes ==
  ASSUME IInv,
         \/ \E t \in Workers : Dispatch(t)
         \/ \E s \in Sockets : ReleaseSession(s)
         \/ Environment
  PROVE TypeOK'
<1>0. TypeOK
  BY DEF IInv, AcceptSlotsKept
<1>1. ASSUME NEW t \in Workers, Dispatch(t) PROVE TypeOK'
  <2>1. Head(port) \in Op /\ Tail(port) \in Seq(Op)
    BY <1>0, <1>1, HeadTailProperties DEF Dispatch, TypeOK
  <2>2. Head(port) = port[1] /\ 1 \in DOMAIN port
    BY <1>0, <1>1 DEF Dispatch, TypeOK
  <2>3. Head(port).event \in Events /\ session[Head(port).event] \in Sockets
    BY <2>1, <2>2 DEF IInv, AcceptSlotsKept, SessionsMatch, Op
  <2> QED BY <1>0, <1>1, <2>1, <2>3 DEF Dispatch, TypeOK
<1>2. ASSUME NEW s \in Sockets, ReleaseSession(s) PROVE TypeOK'
  BY <1>0, <1>2 DEF ReleaseSession, TypeOK
<1>3. CASE Accepted \/ Aborted
  <2>1. backlog # <<>> => Head(backlog) \in Clients /\ Tail(backlog) \in Seq(Clients)
    BY <1>0, HeadTailProperties DEF TypeOK
  <2>2. \A o \in pending : Append(port, o) \in Seq(Op)
    BY <1>0 DEF TypeOK
  <2>3. PICK o \in pending :
          /\ pending' = pending \ {o} /\ port' = Append(port, o)
          /\ peer' = peer \/ peer' = [peer EXCEPT ![o.socket] = Head(backlog)]
    BY <1>3 DEF Accepted, Aborted
  <2>4. backlog # <<>> /\ backlog' = Tail(backlog)
        /\ UNCHANGED <<fresh, at, event, refs, session, sessions, crashed>>
    BY <1>3 DEF Accepted, Aborted
  <2> QED BY <1>0, <2>1, <2>2, <2>3, <2>4 DEF TypeOK
<1>4. ASSUME NEW c \in Clients, ClientConnects(c) PROVE TypeOK'
  BY <1>0, <1>4 DEF ClientConnects, TypeOK
<1>5. ASSUME NEW c \in Clients, LeaveBacklog(c) PROVE TypeOK'
  <2>1. PICK i \in DOMAIN backlog : backlog' = RemoveAt(backlog, i)
    BY <1>5 DEF LeaveBacklog
  <2>2. SubSeq(backlog, 1, i - 1) \in Seq(Clients)
    BY <1>0, SubSeqProperties DEF TypeOK
  <2>3. SubSeq(backlog, i + 1, Len(backlog)) \in Seq(Clients)
    BY <1>0, SubSeqProperties DEF TypeOK
  <2>4. backlog' \in Seq(Clients)
    BY <2>1, <2>2, <2>3, ConcatProperties DEF RemoveAt
  <2> QED BY <1>0, <1>5, <2>4 DEF LeaveBacklog, TypeOK
<1>6. ASSUME NEW c \in Clients, HangUp(c) PROVE TypeOK'
  BY <1>0, <1>6 DEF HangUp, TypeOK
<1> QED BY <1>1, <1>2, <1>3, <1>4, <1>5, <1>6 DEF Environment

(* The event a thread works on is not with the kernel or in the port.      *)
LEMMA HandledIsElsewhere ==
  ASSUME IInv, NEW t \in Threads, event[t] \in Events
  PROVE /\ \A o \in pending : o.event \in Events /\ o.event # event[t]
        /\ \A i \in DOMAIN port : port[i].event \in Events /\ port[i].event # event[t]
<1>1. ~Posted(event[t]) /\ ~Queued(event[t])
  BY DEF IInv, AcceptSlotsKept, EventsHaveOneHolder, Handled
<1>2. \A o \in pending : o.event \in Events
  BY DEF IInv, AcceptSlotsKept, TypeOK, Op
<1>3. \A i \in DOMAIN port : port[i] \in Op
  BY DEF IInv, AcceptSlotsKept, TypeOK
<1> QED BY <1>1, <1>2, <1>3 DEF Posted, Queued, Op

(* A fresh event goes to the main thread.                                  *)
LEMMA StartAcceptKeeps ==
  ASSUME IInv, StartAccept
  PROVE EventsHaveOneHolder' /\ SessionsMatch' /\ ThreadsOK'
<1>1. PICK e \in fresh :
        fresh' = fresh \ {e} /\ event' = [event EXCEPT ![Main] = e]
  BY DEF StartAccept
<1>2. /\ at[Main] = "idle" /\ event[Main] = Nobody /\ e \in Events
      /\ at' = [at EXCEPT ![Main] = "register"]
      /\ UNCHANGED <<refs, session, pending, port, sessions>>
  BY DEF StartAccept, IInv, AcceptSlotsKept, TypeOK, ThreadsOK
<1>3. EventsHaveOneHolder'
  BY <1>1, <1>2 DEF IInv, AcceptSlotsKept, TypeOK, EventsHaveOneHolder, Queued,
                    Posted, Handled
<1>4. SessionsMatch'
  BY <1>2 DEF IInv, AcceptSlotsKept, SessionsMatch
<1>5. ThreadsOK'
  BY <1>1, <1>2 DEF IInv, AcceptSlotsKept, TypeOK, ThreadsOK
<1> QED BY <1>3, <1>4, <1>5

(* The session of an event in a thread's hands is replaced by a free one.  *)
LEMMA CreateSessionKeeps ==
  ASSUME IInv, NEW t \in Threads, CreateSession(t)
  PROVE EventsHaveOneHolder' /\ SessionsMatch' /\ ThreadsOK'
<1>1. /\ event[t] \in Events /\ at[t] = "register"
      /\ UNCHANGED <<fresh, event, pending, port, sessions>>
  BY DEF CreateSession, IInv, AcceptSlotsKept, TypeOK, ThreadsOK
<1>2. EventsHaveOneHolder'
  BY <1>1 DEF IInv, AcceptSlotsKept, EventsHaveOneHolder, Queued, Posted, Handled
<1>3. CASE Free = {}
  <2>1. UNCHANGED <<at, refs, session>>
    BY <1>3 DEF CreateSession
  <2> QED BY <1>1, <1>2, <2>1 DEF IInv, AcceptSlotsKept, SessionsMatch, ThreadsOK
<1>4. CASE Free # {}
  <2>1. PICK s \in Free :
          /\ session' = [session EXCEPT ![event[t]] = s]
          /\ refs' = [refs EXCEPT ![t] = @ \cup {s}]
          /\ at' = [at EXCEPT ![t] = "accept"]
    BY <1>4, Zenon DEF CreateSession
  <2>2. s \in Sockets /\ s \notin sessions /\ \A e \in Events : session[e] # s
    BY DEF Free
  <2>3. /\ \A o \in pending : o.event \in Events /\ o.event # event[t]
        /\ \A i \in DOMAIN port : port[i].event \in Events /\ port[i].event # event[t]
    BY <1>1, HandledIsElsewhere
  <2>4. SessionsMatch'
    BY <1>1, <2>1, <2>2, <2>3 DEF IInv, AcceptSlotsKept, TypeOK, SessionsMatch
  <2>5. \A u \in Threads : u # t => event[u] # event[t]
    BY <1>1 DEF IInv, AcceptSlotsKept, EventsHaveOneHolder
  <2>6. ThreadsOK'
    BY <1>1, <2>1, <2>2, <2>5 DEF IInv, AcceptSlotsKept, TypeOK, ThreadsOK
  <2> QED BY <1>2, <2>4, <2>6
<1> QED BY <1>3, <1>4

(* AcceptEx: from the thread to the kernel.                                *)
LEMMA AcceptExKeeps ==
  ASSUME IInv, NEW t \in Threads, AcceptEx(t)
  PROVE EventsHaveOneHolder' /\ SessionsMatch' /\ ThreadsOK'
<1> DEFINE o == [event |-> event[t], socket |-> session[event[t]]]
<1>1. /\ event[t] \in Events /\ at[t] = "accept"
      /\ o.socket \in Sockets \ sessions
      /\ pending' = pending \cup {o}
      /\ at' = [at EXCEPT ![t] = "idle"]
      /\ event' = [event EXCEPT ![t] = Nobody]
      /\ refs' = [refs EXCEPT ![t] = {}]
      /\ UNCHANGED <<fresh, session, port, sessions>>
  BY DEF AcceptEx, Return, Attempt, IInv, AcceptSlotsKept, TypeOK, ThreadsOK
<1>2. EventsHaveOneHolder'
  <2>1. \A p \in pending : p.event # event[t]
    BY <1>1, HandledIsElsewhere
  <2>2. \A e \in Events : Posted(e)' <=> Posted(e) \/ e = event[t]
    <3>1. o.event = event[t] /\ pending' = pending \cup {o}
      BY <1>1
    <3> HIDE DEF o
    <3> QED BY <3>1, Zenon DEF Posted
  <2>3. \A e \in Events : Queued(e)' <=> Queued(e)
    BY <1>1 DEF Queued
  <2>4. \A e \in Events : Handled(e)' <=> Handled(e) /\ e # event[t]
    BY <1>1 DEF IInv, AcceptSlotsKept, TypeOK, EventsHaveOneHolder, Handled
  <2>5. Handled(event[t])
    BY DEF Handled
  <2>6. \A e \in Events : \A p, q \in pending' : p.event = e /\ q.event = e => p = q
    BY <1>1, <2>1 DEF IInv, AcceptSlotsKept, EventsHaveOneHolder
  <2>7. \A e \in Events : \A u, v \in Threads :
          event'[u] = e /\ event'[v] = e => u = v
    BY <1>1 DEF IInv, AcceptSlotsKept, TypeOK, EventsHaveOneHolder
  <2> QED BY <1>1, <2>2, <2>3, <2>4, <2>5, <2>6, <2>7
             DEF IInv, AcceptSlotsKept, EventsHaveOneHolder
<1>3. SessionsMatch'
  BY <1>1 DEF IInv, AcceptSlotsKept, SessionsMatch
<1>4. ThreadsOK'
  BY <1>1 DEF IInv, AcceptSlotsKept, TypeOK, ThreadsOK
<1> QED BY <1>2, <1>3, <1>4

(* Failures and refusals leave the event where it is; an accepted session  *)
(* joins the service's set.                                                *)
LEMMA RetryKeeps ==
  ASSUME IInv, NEW t \in Threads,
         AcceptExFails(t) \/ RefuseAccept(t) \/ ProcessConnect(t)
  PROVE EventsHaveOneHolder' /\ SessionsMatch' /\ ThreadsOK'
<1>1. /\ event[t] \in Events /\ at[t] \in {"accept", "check"}
      /\ at' = [at EXCEPT ![t] = "register"]
      /\ UNCHANGED <<fresh, event, refs, session, pending, port>>
      /\ sessions' = sessions \/ sessions' = sessions \cup {session[event[t]]}
  BY DEF AcceptExFails, RefuseAccept, ProcessConnect, IInv, AcceptSlotsKept,
         TypeOK, ThreadsOK
<1>2. EventsHaveOneHolder'
  BY <1>1 DEF IInv, AcceptSlotsKept, EventsHaveOneHolder, Queued, Posted, Handled
<1>3. session[event[t]] \in Sockets
  BY <1>1 DEF IInv, ThreadsOK
<1>4. \A e \in Events : e # event[t] => session[e] # session[event[t]]
  BY <1>1, <1>3 DEF IInv, AcceptSlotsKept, SessionsMatch
<1>5. /\ \A o \in pending : o.event \in Events /\ o.event # event[t]
      /\ \A i \in DOMAIN port : port[i].event \in Events /\ port[i].event # event[t]
  BY <1>1, HandledIsElsewhere
<1>6. SessionsMatch'
  BY <1>1, <1>4, <1>5 DEF IInv, AcceptSlotsKept, SessionsMatch
<1>7. \A u \in Threads : u # t => event[u] # event[t]
  BY <1>1 DEF IInv, AcceptSlotsKept, EventsHaveOneHolder
<1>8. ThreadsOK'
  BY <1>1, <1>4, <1>7 DEF IInv, AcceptSlotsKept, TypeOK, ThreadsOK
<1> QED BY <1>2, <1>6, <1>8

(* From the completion port to a worker.                                   *)
LEMMA DispatchKeeps ==
  ASSUME IInv, NEW t \in Workers, Dispatch(t)
  PROVE EventsHaveOneHolder' /\ SessionsMatch' /\ ThreadsOK'
<1> DEFINE o == Head(port)
<1>1. /\ port \in Seq(Op) /\ port # <<>> /\ o = port[1] /\ o \in Op
      /\ Len(port') = Len(port) - 1 /\ port' \in Seq(Op)
      /\ \A i \in DOMAIN port' : i + 1 \in DOMAIN port /\ port'[i] = port[i + 1]
      /\ 1 \in DOMAIN port
  BY HeadTailProperties DEF Dispatch, IInv, AcceptSlotsKept, TypeOK
<1>2. /\ at[t] = "idle" /\ event[t] = Nobody /\ t \in Threads
      /\ event' = [event EXCEPT ![t] = o.event]
      /\ refs' = [refs EXCEPT ![t] = {session[o.event]}]
      /\ at' = [at EXCEPT ![t] = "check"]
      /\ UNCHANGED <<fresh, session, pending, sessions>>
  BY DEF Dispatch, IInv, ThreadsOK
<1>3. o.event \in Events /\ session[o.event] = o.socket /\ o.socket \in Sockets \ sessions
  BY <1>1 DEF IInv, AcceptSlotsKept, SessionsMatch, Op
<1>4. \A i \in DOMAIN port : i # 1 => port[i].event # o.event
  BY <1>1, <1>3 DEF IInv, AcceptSlotsKept, EventsHaveOneHolder
<1>5. \A e \in Events : Queued(e)' <=> Queued(e) /\ e # o.event
  <2>1. \A i \in DOMAIN port : i # 1 => i - 1 \in DOMAIN port' /\ port'[i - 1] = port[i]
    BY <1>1
  <2>2. \A i \in DOMAIN port' : i + 1 # 1
    BY <1>1
  <2> QED BY <1>1, <1>4, <2>1, <2>2 DEF Queued
<1>6. \A e \in Events : Handled(e)' <=> Handled(e) \/ e = o.event
  BY <1>2, <1>3 DEF IInv, AcceptSlotsKept, TypeOK, Handled
<1>7. Queued(o.event) /\ ~Handled(o.event)
  BY <1>1, <1>3 DEF IInv, AcceptSlotsKept, EventsHaveOneHolder, Queued
<1>8. \A e \in Events : Posted(e)' <=> Posted(e)
  BY <1>2 DEF Posted
<1>9. \A e \in Events : \A i, j \in DOMAIN port' :
        port'[i].event = e /\ port'[j].event = e => i = j
  BY <1>1 DEF IInv, AcceptSlotsKept, EventsHaveOneHolder
<1>10. \A e \in Events : \A u, v \in Threads :
        event'[u] = e /\ event'[v] = e => u = v
  BY <1>2, <1>3, <1>7 DEF IInv, AcceptSlotsKept, TypeOK, EventsHaveOneHolder,
                           Handled
<1>11. EventsHaveOneHolder'
  BY <1>2, <1>3, <1>5, <1>6, <1>7, <1>8, <1>9, <1>10
     DEF IInv, AcceptSlotsKept, EventsHaveOneHolder
<1>12. SessionsMatch'
  BY <1>1, <1>2 DEF IInv, AcceptSlotsKept, SessionsMatch
<1>13. ThreadsOK'
  BY <1>2, <1>3 DEF IInv, AcceptSlotsKept, TypeOK, ThreadsOK
<1> QED BY <1>11, <1>12, <1>13

(* From the kernel to the completion port.                                 *)
LEMMA CompletionKeeps ==
  ASSUME IInv, Accepted \/ Aborted
  PROVE EventsHaveOneHolder' /\ SessionsMatch' /\ ThreadsOK'
<1>1. PICK o \in pending : pending' = pending \ {o} /\ port' = Append(port, o)
  BY DEF Accepted, Aborted
<1>2. UNCHANGED <<fresh, at, event, refs, session, sessions>>
  BY DEF Accepted, Aborted
<1>3. /\ o \in Op /\ port \in Seq(Op) /\ Len(port) \in Nat
      /\ DOMAIN port = 1..Len(port) /\ DOMAIN port' = 1..Len(port) + 1
      /\ port'[Len(port) + 1] = o
      /\ \A i \in DOMAIN port : i \in DOMAIN port' /\ port'[i] = port[i]
      /\ \A i \in DOMAIN port' : i \in DOMAIN port \/ i = Len(port) + 1
  BY <1>1 DEF IInv, AcceptSlotsKept, TypeOK
<1>4. Posted(o.event) /\ ~Queued(o.event) /\ o.event \in Events
  BY <1>3 DEF IInv, AcceptSlotsKept, EventsHaveOneHolder, Posted, Op
<1>5. \A e \in Events : Queued(e)' <=> Queued(e) \/ e = o.event
  BY <1>3 DEF Queued
<1>6. \A e \in Events : Posted(e)' <=> Posted(e) /\ e # o.event
  BY <1>1 DEF IInv, AcceptSlotsKept, EventsHaveOneHolder, Posted
<1>7. \A e \in Events : Handled(e)' <=> Handled(e)
  BY <1>2 DEF Handled
<1>8. \A e \in Events : \A i, j \in DOMAIN port' :
        port'[i].event = e /\ port'[j].event = e => i = j
  BY <1>3, <1>4 DEF IInv, AcceptSlotsKept, EventsHaveOneHolder, Queued
<1>9. EventsHaveOneHolder'
  BY <1>1, <1>2, <1>4, <1>5, <1>6, <1>7, <1>8
     DEF IInv, AcceptSlotsKept, EventsHaveOneHolder
<1>10. SessionsMatch'
  BY <1>1, <1>2, <1>3 DEF IInv, AcceptSlotsKept, SessionsMatch
<1>11. ThreadsOK'
  BY <1>2 DEF IInv, ThreadsOK
<1> QED BY <1>9, <1>10, <1>11

(* Sessions end and clients come and go without a change to the events.    *)
LEMMA OthersKeep ==
  ASSUME IInv,
         \/ \E s \in Sockets : ReleaseSession(s)
         \/ \E c \in Clients : ClientConnects(c) \/ LeaveBacklog(c) \/ HangUp(c)
         \/ UNCHANGED vars
  PROVE EventsHaveOneHolder' /\ SessionsMatch' /\ ThreadsOK'
<1>1. /\ UNCHANGED <<fresh, at, event, refs, session, pending, port>>
      /\ sessions' \subseteq sessions
  BY DEF ReleaseSession, ClientConnects, LeaveBacklog, HangUp, vars
<1>2. EventsHaveOneHolder'
  BY <1>1 DEF IInv, AcceptSlotsKept, EventsHaveOneHolder, Queued, Posted, Handled
<1>3. SessionsMatch'
  BY <1>1 DEF IInv, AcceptSlotsKept, SessionsMatch
<1>4. ThreadsOK'
  BY <1>1 DEF IInv, ThreadsOK
<1> QED BY <1>2, <1>3, <1>4

(* Every step keeps the invariant.                                         *)
LEMMA StepKeeps == IInv /\ [Next]_vars => IInv'
<1> SUFFICES ASSUME IInv, [Next]_vars PROVE IInv'
  OBVIOUS
<1>1. TypeOK'
  <2>1. CASE UNCHANGED vars
    BY <2>1 DEF vars, IInv, AcceptSlotsKept, TypeOK
  <2>2. CASE Next
    BY <2>2, ThreadTypes, OtherTypes DEF Next, Server, IInv, AcceptSlotsKept
  <2> QED BY <2>1, <2>2
<1>2. EventsHaveOneHolder' /\ SessionsMatch' /\ ThreadsOK'
  <2>1. CASE StartAccept
    BY <2>1, StartAcceptKeeps
  <2>2. ASSUME NEW t \in Threads, Accepting(t)
        PROVE EventsHaveOneHolder' /\ SessionsMatch' /\ ThreadsOK'
    BY <2>2, CreateSessionKeeps, AcceptExKeeps, RetryKeeps DEF Accepting
  <2>3. ASSUME NEW t \in Workers, Dispatch(t)
        PROVE EventsHaveOneHolder' /\ SessionsMatch' /\ ThreadsOK'
    BY <2>3, DispatchKeeps
  <2>4. CASE Accepted \/ Aborted
    BY <2>4, CompletionKeeps
  <2> QED BY <2>1, <2>2, <2>3, <2>4, OthersKeep DEF Next, Server, Environment
<1> QED BY <1>1, <1>2 DEF IInv, AcceptSlotsKept

(* The inductive invariant of the accept loop.                             *)
THEOREM Invariance == Spec => []IInv
BY InitHolds, StepKeeps, PTL DEF Spec

(* RegisterAccept's retries, ProcessAccept's early returns and the workers *)
(* that take completions in any order neither lose an accept event nor use *)
(* one twice, and each is processed with the session it was posted with.   *)
THEOREM SlotsAreKept == Spec => []AcceptSlotsKept
BY Invariance, PTL DEF IInv
=============================================================================
