------------------------------- MODULE Listener -------------------------------
(***************************************************************************)
(* The server's accept loop: the listener's accept events, the AcceptEx    *)
(* operations the kernel holds for them, the completion port, the threads  *)
(* that register and process accepts, and the service's set of sessions.   *)
(*                                                                         *)
(* A Socket is a session object with its socket.  It lives as long as      *)
(* something refers to it: an accept event, the locals of a function (the  *)
(* recursion of RegisterAccept keeps the session of every failed attempt)  *)
(* or the service.  CreateSession returns null when there is no socket     *)
(* left, and RegisterAccept dereferences it.                               *)
(***************************************************************************)
EXTENDS Naturals, SequencesExt

CONSTANTS
  Events,          \* _acceptEvents, one for each of _maxSessionCount
  Main, Workers,   \* the thread that starts the service, those that dispatch
  Clients,
  Sockets,         \* bound: how many sockets the system gives the server
  Nobody           \* no event, no socket, no client

ASSUME ListenerAssumption ==
  Main \notin Workers /\ Nobody \notin Events \cup Sockets \cup Clients

VARIABLES
  fresh,           \* events StartAccept has not come to
  at, event,       \* of each thread: where it is, and its acceptEvent
  refs,            \* the sessions its locals refer to
  session,         \* acceptEvent->session
  pending,         \* AcceptEx operations in the kernel
  port,            \* completions, first in first out
  backlog,         \* clients the kernel has, and nobody has accepted
  peer,            \* the client at the other end of a socket
  sessions,        \* Service::_sessions
  crashed

vars == <<fresh, at, event, refs, session, pending, port, backlog, peer,
          sessions, crashed>>

Threads == {Main} \cup Workers
Op == [event : Events, socket : Sockets]

Free == Sockets \ (sessions \cup {session[e] : e \in Events}
                            \cup UNION {refs[t] : t \in Threads})

Init ==
  /\ fresh = Events
  /\ at = [t \in Threads |-> "idle"] /\ event = [t \in Threads |-> Nobody]
  /\ refs = [t \in Threads |-> {}]
  /\ session = [e \in Events |-> Nobody]
  /\ pending = {} /\ port = <<>> /\ backlog = <<>>
  /\ peer = [s \in Sockets |-> Nobody] /\ sessions = {} /\ crashed = FALSE

-----------------------------------------------------------------------------
StartAccept ==
  /\ ~crashed /\ at[Main] = "idle"
  /\ \E e \in fresh :
       /\ fresh' = fresh \ {e}
       /\ event' = [event EXCEPT ![Main] = e]
  /\ at' = [at EXCEPT ![Main] = "register"]
  /\ UNCHANGED <<refs, session, pending, port, backlog, peer, sessions, crashed>>

(* RegisterAccept: the session is made and given to the event ...          *)
CreateSession(t) ==
  /\ ~crashed /\ at[t] = "register"
  /\ IF Free = {} THEN crashed' = TRUE /\ UNCHANGED <<at, refs, session, peer>>
     ELSE \E s \in Free :
       /\ session' = [session EXCEPT ![event[t]] = s]
       /\ refs' = [refs EXCEPT ![t] = @ \cup {s}]
       /\ peer' = [peer EXCEPT ![s] = Nobody]
       /\ at' = [at EXCEPT ![t] = "accept"] /\ UNCHANGED crashed
  /\ UNCHANGED <<fresh, event, pending, port, backlog, sessions>>

Attempt(t) == [event |-> event[t], socket |-> session[event[t]]]

Return(t) ==
  /\ at' = [at EXCEPT ![t] = "idle"] /\ event' = [event EXCEPT ![t] = Nobody]
  /\ refs' = [refs EXCEPT ![t] = {}]

(* Fault: an accept that failed at once is taken for one under way.        *)
AcceptExTwice(t) ==
  /\ ~crashed /\ at[t] = "accept"
  /\ pending' = pending \cup {Attempt(t)}
  /\ at' = [at EXCEPT ![t] = "register"]
  /\ UNCHANGED <<fresh, event, refs, session, port, backlog, peer, sessions,
                 crashed>>

(* ... then AcceptEx is called: the kernel has it, and the functions end,  *)
AcceptEx(t) ==
  /\ ~crashed /\ at[t] = "accept"
  /\ pending' = pending \cup {Attempt(t)}
  /\ Return(t)
  /\ UNCHANGED <<fresh, session, port, backlog, peer, sessions, crashed>>

(* or it fails at once, and RegisterAccept calls itself.                   *)
AcceptExFails(t) ==
  /\ ~crashed /\ at[t] = "accept"
  /\ at' = [at EXCEPT ![t] = "register"]
  /\ UNCHANGED <<fresh, event, refs, session, pending, port, backlog, peer,
                 sessions, crashed>>

(* The workers are launched after the service has started.                 *)
Dispatch(t) ==
  /\ ~crashed /\ fresh = {} /\ at[Main] = "idle"
  /\ at[t] = "idle" /\ port # <<>>
  /\ port' = Tail(port)
  /\ event' = [event EXCEPT ![t] = Head(port).event]
  /\ refs' = [refs EXCEPT ![t] = {session[Head(port).event]}]
  /\ at' = [at EXCEPT ![t] = "check"]
  /\ UNCHANGED <<fresh, session, pending, backlog, peer, sessions, crashed>>

(* Fault: the early return does not register the event again.              *)
RefuseAcceptReturns(t) ==
  /\ ~crashed /\ at[t] = "check"
  /\ peer[session[event[t]]] = Nobody
  /\ Return(t)
  /\ UNCHANGED <<fresh, session, pending, port, backlog, peer, sessions, crashed>>

(* SetUpdateAcceptSocket or getpeername fails, which takes a lost client.  *)
RefuseAccept(t) ==
  /\ ~crashed /\ at[t] = "check"
  /\ peer[session[event[t]]] = Nobody
  /\ at' = [at EXCEPT ![t] = "register"]
  /\ UNCHANGED <<fresh, event, refs, session, pending, port, backlog, peer,
                 sessions, crashed>>

(* session->ProcessConnect with its AddSession; the rest of it is Session. *)
ProcessConnect(t) ==
  /\ ~crashed /\ at[t] = "check"
  /\ sessions' = sessions \cup refs[t]
  /\ at' = [at EXCEPT ![t] = "register"]
  /\ UNCHANGED <<fresh, event, refs, session, pending, port, backlog, peer,
                 crashed>>

(* Session notices that its client has gone.                               *)
ReleaseSession(s) ==
  /\ ~crashed /\ s \in sessions /\ peer[s] = Nobody
  /\ sessions' = sessions \ {s}
  /\ UNCHANGED <<fresh, at, event, refs, session, pending, port, backlog,
                 peer, crashed>>

-----------------------------------------------------------------------------
(* The kernel gives the first client in the backlog to a pending accept.   *)
Accepted ==
  /\ ~crashed /\ backlog # <<>>
  /\ \E o \in pending :
       /\ pending' = pending \ {o} /\ port' = Append(port, o)
       /\ peer' = [peer EXCEPT ![o.socket] = Head(backlog)]
  /\ backlog' = Tail(backlog)
  /\ UNCHANGED <<fresh, at, event, refs, session, sessions, crashed>>

(* A pending accept fails: its completion comes without a client.          *)
Aborted ==
  /\ ~crashed /\ backlog # <<>>
  /\ \E o \in pending : pending' = pending \ {o} /\ port' = Append(port, o)
  /\ backlog' = Tail(backlog)
  /\ UNCHANGED <<fresh, at, event, refs, session, peer, sessions, crashed>>

Waits(c) == \E i \in DOMAIN backlog : backlog[i] = c
Connected(c) == \E s \in sessions : peer[s] = c
Away(c) == ~Waits(c) /\ \A s \in Sockets : peer[s] # c

ClientConnects(c) ==
  /\ ~crashed /\ Away(c)
  /\ backlog' = Append(backlog, c)
  /\ UNCHANGED <<fresh, at, event, refs, session, pending, port, peer,
                 sessions, crashed>>

(* The client gives up before it is accepted, or closes its connection.    *)
LeaveBacklog(c) ==
  /\ ~crashed
  /\ \E i \in DOMAIN backlog :
       backlog[i] = c /\ backlog' = RemoveAt(backlog, i)
  /\ UNCHANGED <<fresh, at, event, refs, session, pending, port, peer,
                 sessions, crashed>>

HangUp(c) ==
  /\ ~crashed
  /\ \E s \in Sockets :
       peer[s] = c /\ peer' = [peer EXCEPT ![s] = Nobody]
  /\ UNCHANGED <<fresh, at, event, refs, session, pending, port, backlog,
                 sessions, crashed>>

-----------------------------------------------------------------------------
Accepting(t) ==
  \/ CreateSession(t) \/ AcceptEx(t) \/ AcceptExFails(t)
  \/ RefuseAccept(t) \/ ProcessConnect(t)

Server ==
  \/ StartAccept
  \/ \E t \in Threads : Accepting(t)
  \/ \E t \in Workers : Dispatch(t)
  \/ \E s \in Sockets : ReleaseSession(s)

Environment ==
  \/ Accepted \/ Aborted
  \/ \E c \in Clients : ClientConnects(c) \/ LeaveBacklog(c) \/ HangUp(c)

Next == Server \/ Environment

(* The main thread starts the service; a worker that has dispatched an     *)
(* accept goes on with it, and one that is free takes what comes next;     *)
(* the kernel accepts.  AcceptEx may fail again and again: each failure    *)
(* takes a socket, so it ends, one way or the other.                       *)
Fairness ==
  /\ WF_vars(StartAccept)
  /\ \A t \in Threads : WF_vars(Accepting(t))
  /\ WF_vars(\E t \in Workers : Dispatch(t))
  /\ WF_vars(Accepted)

Spec == Init /\ [][Next]_vars
FairSpec == Spec /\ Fairness

-----------------------------------------------------------------------------
TypeOK ==
  /\ fresh \subseteq Events
  /\ at \in [Threads -> {"idle", "register", "accept", "check"}]
  /\ event \in [Threads -> Events \cup {Nobody}]
  /\ refs \in [Threads -> SUBSET Sockets]
  /\ session \in [Events -> Sockets \cup {Nobody}]
  /\ pending \subseteq Op /\ port \in Seq(Op)
  /\ backlog \in Seq(Clients)
  /\ peer \in [Sockets -> Clients \cup {Nobody}]
  /\ sessions \subseteq Sockets /\ crashed \in BOOLEAN

Queued(e) == \E i \in DOMAIN port : port[i].event = e
Posted(e) == \E o \in pending : o.event = e
Handled(e) == \E t \in Threads : event[t] = e

(* Each accept event is in exactly one place: not yet used, with the       *)
(* kernel, on its way through the completion port, or with one thread.     *)
(* None is ever lost and none is used by two.                              *)
EventsHaveOneHolder ==
  \A e \in Events :
    /\ e \in fresh \/ Posted(e) \/ Queued(e) \/ Handled(e)
    /\ e \in fresh => ~Posted(e) /\ ~Queued(e) /\ ~Handled(e)
    /\ Posted(e) => ~Queued(e) /\ ~Handled(e)
    /\ Queued(e) => ~Handled(e)
    /\ \A o, p \in pending : o.event = e /\ p.event = e => o = p
    /\ \A i, j \in DOMAIN port :
         port[i].event = e /\ port[j].event = e => i = j
    /\ \A t, u \in Threads : event[t] = e /\ event[u] = e => t = u

(* The session that an event names is the one whose socket the kernel has, *)
(* and neither another event's nor one that plays already.                 *)
SessionsMatch ==
  /\ \A o \in pending : session[o.event] = o.socket /\ o.socket \notin sessions
  /\ \A i \in DOMAIN port :
       session[port[i].event] = port[i].socket /\ port[i].socket \notin sessions
  /\ \A e, f \in Events : session[e] = session[f] => e = f \/ session[e] = Nobody

(* No accept slot is ever lost or used twice, however often accepts fail.  *)
AcceptSlotsKept == TypeOK /\ EventsHaveOneHolder /\ SessionsMatch

(* A thread has an event just while it works on it, and what it works with *)
(* is its own; with this, AcceptSlotsKept is inductive.                    *)
ThreadsOK ==
  \A t \in Threads :
    /\ at[t] = "idle" <=> event[t] = Nobody
    /\ at[t] \in {"accept", "check"} => session[event[t]] \in Sockets \ sessions
    /\ at[t] = "check" => refs[t] = {session[event[t]]}

IInv == AcceptSlotsKept /\ ThreadsOK

(* Whoever connects is accepted and in the service's set in the end, but   *)
(* for who leaves first, or whose accept failed; or the server has run out *)
(* of sockets.                                                             *)
KeepsAccepting ==
  \A c \in Clients : Waits(c) ~> Connected(c) \/ Away(c) \/ crashed
=============================================================================
