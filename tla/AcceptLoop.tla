----------------------------- MODULE AcceptLoop -----------------------------
(***************************************************************************)
(* The game server's accept loop: main (GameServer/GameServer.cpp) starts   *)
(* the service and the workers; Listener keeps one AcceptEx per AcceptEvent *)
(* outstanding, each with a Session of its own; the workers take completed  *)
(* events from the completion port and process them.  The clients are       *)
(* processes of DummyClient, which connect once.                            *)
(*                                                                          *)
(* A Session stands for its object and its socket: it lives as long as a    *)
(* shared_ptr refers to it, and ~Session closes the socket.  AcceptEx and   *)
(* the ports' queues belong to the operating system: they are modelled from *)
(* how the code uses them.                                                  *)
(***************************************************************************)
EXTENDS Integers, Sequences, FiniteSets

CONSTANTS
  Workers,    \* the threads main launches
  Main,       \* the main thread
  Events,     \* the AcceptEvents, GetMaxSessionCount() of them
  Sessions,   \* the sessions, numbers, as many as the system has sockets for
  Clients,    \* the processes of DummyClient
  None,       \* nullptr
  MaxFaults   \* bound: calls of the system that fail in a run, and AcceptEx operations

ASSUME AcceptAssumption ==
  /\ Main \notin Workers
  /\ None \notin Events \cup Sessions \cup Clients
  /\ Sessions \subseteq Nat
  /\ MaxFaults \in Nat

VARIABLES
  pc,            \* pc[t]: where thread t is
  port,          \* whether IocpCore::_iocpHandle is a completion port, and not NULL
  acceptEvents,  \* Listener::_acceptEvents
  session,       \* session[e]: AcceptEvent::session
  evt,           \* evt[t]: the event in the hands of thread t
  local,         \* local[t]: the session of ProcessAccept
  frames,        \* frames[t]: the session of each activation of RegisterAccept
  pending,       \* pending[e]: the session of the AcceptEx outstanding on e
  queue,         \* the events in the completion port of the listening socket
  peer,          \* peer[s]: the client on the socket of s
  client,        \* client[c]: the state of client c and of its connection
  faults,        \* number of failures
  crash          \* "none", or what ended the process

vars == <<pc, port, acceptEvents, session, evt, local, frames, pending, queue, peer,
          client, faults, crash>>

Threads == Workers \cup {Main}

Init ==
  /\ pc = [t \in Threads |-> IF t = Main THEN "core" ELSE "unborn"]
  /\ port = FALSE
  /\ acceptEvents = {}
  /\ session = [e \in Events |-> None]
  /\ evt = [t \in Threads |-> None]
  /\ local = [t \in Threads |-> None]
  /\ frames = [t \in Threads |-> <<>>]
  /\ pending = [e \in Events |-> None]
  /\ queue = <<>>
  /\ peer = [s \in Sessions |-> None]
  /\ client = [c \in Clients |-> "connect"]
  /\ faults = 0
  /\ crash = "none"

Running == crash = "none"

\* The process ends, and the system closes its connections.
Connections == {"backlog", "connected", "refused", "greeted"}
End(cause) ==
  /\ crash' = cause
  /\ client' = [c \in Clients |-> IF client[c] \in Connections THEN "closed" ELSE client[c]]

Goto(t, label) == pc' = [pc EXCEPT ![t] = label]

\* The sessions a shared_ptr refers to.
Live ==
  ({session[e] : e \in Events} \cup {local[t] : t \in Threads}
     \cup UNION {{frames[t][i] : i \in 1..Len(frames[t])} : t \in Threads}) \ {None}

\* The sockets CreateSocket can return, and the one it does: which of them makes
\* no difference to the program.
FreeSockets == Sessions \ Live
NewSocket   == CHOOSE s \in FreeSockets : \A r \in FreeSockets : s <= r

\* ~Session: the sessions that lose their last reference close their sockets.
Destroy ==
  LET dead == Live \ Live'
  IN  /\ peer' = [s \in Sessions |-> IF s \in dead THEN None ELSE peer[s]]
      /\ client' = [c \in Clients |->
                      IF client[c] # "left" /\ \E s \in dead : peer[s] = c
                        THEN "closed" ELSE client[c]]

-----------------------------------------------------------------------------
(* main, IocpCore::IocpCore, ServerService::Start and StartAccept.          *)

\* MakeShared<IocpCore>(): CreateIoCompletionPort returns a port ...
NewIocpCore ==
  /\ pc[Main] = "core"
  /\ port' = TRUE
  /\ Goto(Main, "start")
  /\ UNCHANGED <<acceptEvents, session, evt, local, frames, pending, queue, peer,
                 client, faults, crash>>

\* ... or fails with NULL, which is not the INVALID_HANDLE_VALUE the assertion tests
\* for.  Register then gives every socket a new port of its own and succeeds.
NewIocpCoreFails ==
  /\ pc[Main] = "core"
  /\ faults < MaxFaults
  /\ faults' = faults + 1
  /\ Goto(Main, "start")
  /\ UNCHANGED <<port, acceptEvents, session, evt, local, frames, pending, queue, peer,
                 client, crash>>

\* StartAccept up to listen(): from here on clients can connect.
StartAccept ==
  /\ Running
  /\ pc[Main] = "start"
  /\ Goto(Main, "create")
  /\ UNCHANGED <<port, acceptEvents, session, evt, local, frames, pending, queue, peer,
                 client, faults, crash>>

\* One of its calls fails: ASSERT_CRASH(service->Start()).
StartFails ==
  /\ Running
  /\ pc[Main] = "start"
  /\ crash' = "service->Start()"
  /\ UNCHANGED <<pc, port, acceptEvents, session, evt, local, frames, pending, queue,
                 peer, client, faults>>

\* An iteration of the loop of StartAccept: a new event, and RegisterAccept.
NewAcceptEvent ==
  /\ Running
  /\ pc[Main] = "create"
  /\ acceptEvents # Events
  /\ LET e == CHOOSE e \in Events : e \notin acceptEvents
     IN  /\ acceptEvents' = acceptEvents \cup {e}
         /\ evt' = [evt EXCEPT ![Main] = e]
  /\ Goto(Main, "register")
  /\ UNCHANGED <<port, session, local, frames, pending, queue, peer, client, faults,
                 crash>>

\* Start has returned true: main launches the workers, which are
\* alike, one after the other, and waits for them.
Launch ==
  /\ Running
  /\ pc[Main] = "create"
  /\ acceptEvents = Events
  /\ \E w \in Workers : pc[w] = "unborn"
  /\ Goto(CHOOSE w \in Workers : pc[w] = "unborn", "wait")
  /\ UNCHANGED <<port, acceptEvents, session, evt, local, frames, pending, queue, peer,
                 client, faults, crash>>

-----------------------------------------------------------------------------
(* Listener::RegisterAccept, on main and on the workers.                    *)

\* A CreateSession that returns nullptr.
RegisterAccept_Null(t) ==
  /\ Running
  /\ pc[t] = "register"
  /\ frames' = [frames EXCEPT ![t] = Append(@, None)]
  /\ Goto(t, "AcceptEx")
  /\ UNCHANGED <<port, acceptEvents, session, evt, local, pending, queue, peer, client,
                 faults, crash>>

\* The event keeps its previous session.
RegisterAccept_NotStored(t) ==
  /\ Running
  /\ pc[t] = "register"
  /\ FreeSockets # {}
  /\ frames' = [frames EXCEPT ![t] = Append(@, NewSocket)]
  /\ Goto(t, "AcceptEx")
  /\ UNCHANGED <<port, acceptEvents, session, evt, local, pending, queue, peer, client,
                 faults, crash>>

\* CreateSession called once for the event and once more for the call of AcceptEx.
RegisterAccept_Twice(t) ==
  /\ Running
  /\ pc[t] = "register"
  /\ IF Cardinality(FreeSockets) < 2
       THEN End("no socket") /\ UNCHANGED <<pc, session, frames, local, peer>>
       ELSE /\ session' = [session EXCEPT ![evt[t]] = NewSocket]
            /\ \E s \in FreeSockets \ {NewSocket} :
                 frames' = [frames EXCEPT ![t] = Append(@, s)]
            /\ Goto(t, "AcceptEx")
            /\ UNCHANGED <<local, crash>>
            /\ Destroy
  /\ UNCHANGED <<port, acceptEvents, evt, pending, queue, faults>>

\* CreateSession returns a session, Init, and the session goes into the event.
RegisterAccept(t) ==
  /\ Running
  /\ pc[t] = "register"
  /\ FreeSockets # {}
  /\ session' = [session EXCEPT ![evt[t]] = NewSocket]
  /\ frames' = [frames EXCEPT ![t] = Append(@, NewSocket)]
  /\ Goto(t, "AcceptEx")
  /\ UNCHANGED local
  /\ Destroy
  /\ UNCHANGED <<port, acceptEvents, evt, pending, queue, faults, crash>>

\* CreateSession returns nullptr, because no socket is left for Register or because
\* Register fails for the one there is, and session->GetSocket() ends the process.
\* (With the port NULL and no socket it is a stack overflow that does: Register then
\* succeeds, and AcceptEx never.)
CreateSessionFails(t) ==
  /\ Running
  /\ pc[t] = "register"
  /\ IF FreeSockets = {}
       THEN End("no socket") /\ UNCHANGED faults
       ELSE faults < MaxFaults /\ faults' = faults + 1 /\ End("Register")
  /\ UNCHANGED <<pc, port, acceptEvents, session, evt, local, frames, pending, queue,
                 peer>>

\* A retry with the session of the first attempt.
AcceptEx_First(t) ==
  /\ Running
  /\ pc[t] = "AcceptEx"
  /\ pending' = [pending EXCEPT ![evt[t]] = frames[t][1]]
  /\ evt' = [evt EXCEPT ![t] = None]
  /\ Goto(t, "return")
  /\ UNCHANGED <<port, acceptEvents, session, local, frames, queue, peer, client,
                 faults, crash>>

\* AcceptEx returns true or ERROR_IO_PENDING: the event is the system's ...
AcceptEx(t) ==
  /\ Running
  /\ pc[t] = "AcceptEx"
  /\ pending' = [pending EXCEPT ![evt[t]] = frames[t][Len(frames[t])]]
  /\ evt' = [evt EXCEPT ![t] = None]
  /\ Goto(t, "return")
  /\ UNCHANGED <<port, acceptEvents, session, local, frames, queue, peer, client,
                 faults, crash>>

\* ... or it fails: RegisterAccept calls itself.
AcceptExFails(t) ==
  /\ Running
  /\ pc[t] = "AcceptEx"
  /\ faults < MaxFaults
  /\ faults' = faults + 1
  /\ Goto(t, "register")
  /\ UNCHANGED <<port, acceptEvents, session, evt, local, frames, pending, queue, peer,
                 client, crash>>

\* All activations return, and ProcessAccept with them.
Return(t) ==
  /\ Running
  /\ pc[t] = "return"
  /\ frames' = [frames EXCEPT ![t] = <<>>]
  /\ local' = [local EXCEPT ![t] = None]
  /\ UNCHANGED session
  /\ Destroy
  /\ Goto(t, IF t = Main THEN "create" ELSE "wait")
  /\ UNCHANGED <<port, acceptEvents, evt, pending, queue, faults, crash>>

-----------------------------------------------------------------------------
(* The loop of a worker: IocpCore::Dispatch, Listener::Dispatch and         *)
(* ProcessAccept.                                                           *)

\* Listener::Dispatch, and the first line of ProcessAccept.
Deliver(w, e) ==
  /\ evt' = [evt EXCEPT ![w] = e]
  /\ local' = [local EXCEPT ![w] = session[e]]
  /\ Goto(w, "process")

\* GetQueuedCompletionStatus returns an event, completed or failed, to one
\* worker: either way it goes to the Dispatch of its owner, the listener.
Dispatch(w) ==
  /\ Running
  /\ pc[w] = "wait"
  /\ port
  /\ queue # <<>>
  /\ queue' = Tail(queue)
  /\ Deliver(w, Head(queue))
  /\ UNCHANGED <<port, acceptEvents, session, frames, pending, peer, client, faults,
                 crash>>

\* A default branch that ignores a missing event: the worker tries again.
DispatchNull_Ignored(w) ==
  /\ Running
  /\ pc[w] = "wait"
  /\ ~port
  /\ UNCHANGED vars

\* On the port NULL the call fails at once, with another error than WAIT_TIMEOUT and
\* without an event: iocpEvent->owner ends the process.
DispatchNull(w) ==
  /\ Running
  /\ pc[w] = "wait"
  /\ ~port
  /\ End("null event")
  /\ UNCHANGED <<pc, port, acceptEvents, session, evt, local, frames, pending, queue,
                 peer, faults>>

\* SetUpdateAcceptSocket and getpeername succeed: "Client Connected!".
ProcessAccept(w) ==
  /\ Running
  /\ pc[w] = "process"
  /\ peer[local[w]] # None
  /\ client' = [client EXCEPT ![peer[local[w]]] = IF @ = "left" THEN @ ELSE "greeted"]
  /\ Goto(w, "register")
  /\ UNCHANGED <<port, acceptEvents, session, evt, local, frames, pending, queue, peer,
                 faults, crash>>

\* The connection of w's session is dropped: one that is still there by a failure of the
\* system.
Refuse(w) ==
  LET there == {c \in Clients : peer[local[w]] = c /\ client[c] # "left"}
  IN  /\ there # {} => faults < MaxFaults
      /\ faults' = IF there = {} THEN faults ELSE faults + 1
      /\ client' = [c \in Clients |-> IF c \in there THEN "refused" ELSE client[c]]

\* An early return that forgets to register the event again.
ProcessAcceptFails_NoRegister(w) ==
  /\ Running
  /\ pc[w] = "process"
  /\ Refuse(w)
  /\ evt' = [evt EXCEPT ![w] = None]
  /\ Goto(w, "return")
  /\ UNCHANGED <<port, acceptEvents, session, local, frames, pending, queue, peer, crash>>

\* The result of SetUpdateAcceptSocket taken the wrong way round.
ProcessAcceptFails_Inverted(w) ==
  /\ Running
  /\ pc[w] = "process"
  /\ Goto(w, "register")
  /\ UNCHANGED <<port, acceptEvents, session, evt, local, frames, pending, queue, peer,
                 client, faults, crash>>

\* One of the two fails, for want of a connection or although there is one.
ProcessAcceptFails(w) ==
  /\ Running
  /\ pc[w] = "process"
  /\ Refuse(w)
  /\ Goto(w, "register")
  /\ UNCHANGED <<port, acceptEvents, session, evt, local, frames, pending, queue, peer,
                 crash>>

-----------------------------------------------------------------------------
(* DummyClient.                                                             *)

\* The loop around connect(): it fails until the server listens.  Once connected, the
\* next turn ends the loop with WSAEISCONN; WSASend succeeds from then on.
Connect(c) ==
  /\ Running
  /\ pc[Main] \notin {"core", "start"}
  /\ client[c] = "connect"
  /\ client' = [client EXCEPT ![c] = "backlog"]
  /\ UNCHANGED <<pc, port, acceptEvents, session, evt, local, frames, pending, queue,
                 peer, faults, crash>>

\* The server has closed the connection: WSASend fails, and the client ends.
SendFails(c) ==
  /\ client[c] = "closed"
  /\ client' = [client EXCEPT ![c] = "left"]
  /\ UNCHANGED <<pc, port, acceptEvents, session, evt, local, frames, pending, queue,
                 peer, faults, crash>>

\* The client is ended, or loses its connection.
Leave(c) ==
  /\ client[c] \in Connections
  /\ client' = [client EXCEPT ![c] = "left"]
  /\ UNCHANGED <<pc, port, acceptEvents, session, evt, local, frames, pending, queue,
                 peer, faults, crash>>

-----------------------------------------------------------------------------
(* The operating system.                                                    *)

\* An outstanding AcceptEx takes a client from the backlog ...
Complete(e, c) ==
  /\ Running
  /\ pending[e] # None
  /\ client[c] = "backlog"
  /\ peer' = [peer EXCEPT ![pending[e]] = c]
  /\ client' = [client EXCEPT ![c] = "connected"]
  /\ pending' = [pending EXCEPT ![e] = None]
  /\ queue' = Append(queue, e)
  /\ UNCHANGED <<pc, port, acceptEvents, session, evt, local, frames, faults, crash>>

\* ... or completes with an error.
Abort(e) ==
  /\ Running
  /\ pending[e] # None
  /\ faults < MaxFaults
  /\ faults' = faults + 1
  /\ pending' = [pending EXCEPT ![e] = None]
  /\ queue' = Append(queue, e)
  /\ UNCHANGED <<pc, port, acceptEvents, session, evt, local, frames, peer, client,
                 crash>>

\* All clients are gone and everyone waits, or the process has ended.
Quiet ==
  /\ \/ /\ \A c \in Clients : client[c] = "left"
        /\ queue = <<>>
        /\ \A w \in Workers : pc[w] = "wait"
     \/ ~Running
  /\ UNCHANGED vars

ThreadStep(t) == RegisterAccept(t) \/ CreateSessionFails(t) \/ AcceptEx(t)
                   \/ AcceptExFails(t) \/ Return(t)
WorkerStep(w) == Dispatch(w) \/ DispatchNull(w) \/ ProcessAccept(w)
                   \/ ProcessAcceptFails(w) \/ ThreadStep(w)
MainStep      == NewIocpCore \/ NewIocpCoreFails \/ StartAccept \/ StartFails
                   \/ NewAcceptEvent \/ Launch \/ ThreadStep(Main)

Next ==
  \/ MainStep
  \/ \E w \in Workers : WorkerStep(w)
  \/ \E c \in Clients : Connect(c) \/ SendFails(c) \/ Leave(c)
  \/ \E e \in Events : Abort(e) \/ \E c \in Clients : Complete(e, c)
  \/ Quiet

Spec == Init /\ [][Next]_vars

\* Every thread is scheduled, and the system does not pass over a client in its
\* backlog for ever, which is a queue.
FairSpec ==
  /\ Spec
  /\ WF_vars(MainStep)
  /\ \A w \in Workers : WF_vars(WorkerStep(w))
  /\ \A c \in Clients : SF_vars(\E e \in Events : Complete(e, c))

-----------------------------------------------------------------------------
TypeOK ==
  /\ port \in BOOLEAN
  /\ pc \in [Threads -> {"core", "start", "create", "unborn", "wait", "process",
                         "register", "AcceptEx", "return"}]
  /\ acceptEvents \subseteq Events
  /\ session \in [Events -> Sessions \cup {None}]
  /\ evt \in [Threads -> Events \cup {None}]
  /\ local \in [Threads -> Sessions \cup {None}]
  /\ frames \in [Threads -> Seq(Sessions)]
  /\ pending \in [Events -> Sessions \cup {None}]
  /\ queue \in Seq(Events)
  /\ peer \in [Sessions -> Clients \cup {None}]
  /\ client \in [Clients -> {"connect", "backlog", "connected", "refused", "greeted",
                             "closed", "left"}]
  /\ faults \in 0..MaxFaults
  /\ crash \in {"none", "service->Start()", "no socket", "Register", "null event"}

\* No AcceptEvent is ever lost or used twice: each one is outstanding in the
\* system, in the queue, or in the hands of one thread.
OneHolder ==
  \A e \in acceptEvents :
    Cardinality({t \in Threads : evt[t] = e})
      + Cardinality({i \in 1..Len(queue) : queue[i] = e})
      + (IF pending[e] = None THEN 0 ELSE 1) = 1

\* While AcceptEx is outstanding its event keeps its session, so the socket stays
\* open and the buffer given to the system stays allocated, although the thread
\* that called AcceptEx lets go of the session at once.
PendingKept == \A e \in Events : pending[e] # None => session[e] = pending[e]

\* A connection that waits to be processed has a session that one event only
\* refers to: no worker can be given the session of another client.
OneSessionPerClient ==
  \A c \in Clients : client[c] = "connected" =>
    /\ Cardinality({s \in Live : peer[s] = c}) = 1
    /\ Cardinality({e \in Events : session[e] \in Live /\ peer[session[e]] = c}) = 1

\* RegisterAccept never runs out of sockets although the system has few more than there
\* are events.  One for each failure and two for each worker but the last, which needs
\* one, are always enough: a worker that returns from ProcessAccept still holds the
\* session it processed and those of its activations of RegisterAccept, when other
\* workers may have served the event again.  Fewer do where there are fewer clients.
\* (A Register that fails for a socket makes a null session of it all the same.)
NoSocketShortage == crash # "no socket"

\* As long as the process runs it closes only connections it has announced, and those on
\* which SetUpdateAcceptSocket or getpeername failed: no client is dropped because of
\* what another client, worker or retry does.
NoSilentClose ==
  [][\A c \in Clients : Running' /\ client'[c] = "closed" /\ client[c] # "closed"
                          => client[c] \in {"greeted", "refused"}]_vars

\* With a completion port a client that connects is announced, or one of those calls fails
\* on its connection, unless it leaves or a Register that fails ends the process; and a
\* connection on which the call failed does not stay open, with a client that waits.
Served ==
  \A c \in Clients :
    /\ port /\ client[c] \in {"backlog", "connected"}
         ~> client[c] \in {"greeted", "refused", "left"} \/ crash = "Register"
    /\ client[c] = "refused" ~> client[c] \in {"closed", "left"}

\* Without one the server does not go on as if it were one, with clients that wait for
\* ever: the assertion in IocpCore::IocpCore passes, but the process ends.
FailStop == pc[Main] # "core" /\ ~port ~> ~Running

\* "ProcessAccept connects the session": the client keeps a session after
\* ProcessAccept (GameServer.cpp:26).
SessionConnected == \A c \in Clients : client[c] # "closed"
=============================================================================
