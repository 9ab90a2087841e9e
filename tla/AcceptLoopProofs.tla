-------------------------- MODULE AcceptLoopProofs --------------------------
(***************************************************************************)
(* Proofs about AcceptLoop, for any sets of workers, events, sessions and   *)
(* clients and any number of failures.                                      *)
(*                                                                          *)
(* RegisterAccept replaces the session of an event.  That this is not the   *)
(* session of an outstanding AcceptEx is because the event is in the hands  *)
(* of the thread, and therefore nowhere else: IInv says for each of the     *)
(* three places (a thread, the queue, the system) that an event there is in *)
(* no other, and that before AcceptEx the newest session of the thread is   *)
(* the one in the event.                                                    *)
(***************************************************************************)
EXTENDS AcceptLoop, FiniteSetTheorems, WellFoundedInduction, SequenceTheorems, TLAPS

\* The order of Nat as a relation.
Less == {x \in Nat \X Nat : x[1] < x[2]}

LEMMA LessWellFounded == IsWellFoundedOn(Less, Nat)
<1>1. Less = OpToRel(<, Nat)  BY Zenon DEF Less, OpToRel
<1> QED BY <1>1, NatLessThanWellFounded, Zenon

LEMMA NewSocketFree == ASSUME FreeSockets # {} PROVE NewSocket \in FreeSockets
<1>1. FreeSockets \subseteq Nat  BY AcceptAssumption DEF FreeSockets
<1>2. PICK s \in FreeSockets : \A r \in FreeSockets : <<r, s>> \notin Less
  BY <1>1, LessWellFounded, WFMin
<1>3. \A r \in FreeSockets : s <= r
  <2> TAKE r \in FreeSockets
  <2>1. r \in Nat /\ s \in Nat  BY <1>1
  <2>2. ~(r < s)
    <3>1. <<r, s>> \in Nat \X Nat /\ <<r, s>>[1] = r /\ <<r, s>>[2] = s  BY <2>1
    <3>2. <<r, s>> \notin Less  BY <1>2
    <3> QED BY <3>1, <3>2, Zenon DEF Less
  <2> QED BY <2>1, <2>2
<1> QED BY <1>3 DEF NewSocket

-----------------------------------------------------------------------------
Labels == {"core", "start", "create", "unborn", "wait", "process", "register", "AcceptEx",
           "return"}
States == {"connect", "backlog", "connected", "refused", "greeted", "closed", "left"}

\* The labels at which a thread has an event in its hands.
Busy == {"process", "register", "AcceptEx"}

HandInv == \A t \in Threads : evt[t] # None <=> pc[t] \in Busy

\* The three places an event can be in, each of them alone, and one of them at least.
ThreadHolds ==
  \A t \in Threads : evt[t] # None => evt[t] \in acceptEvents /\ pending[evt[t]] = None
ThreadsApart ==
  \A t, u \in Threads : t # u /\ evt[t] # None => evt[t] # evt[u]
QueueHolds ==
  \A i \in 1..Len(queue) :
    /\ queue[i] \in acceptEvents /\ pending[queue[i]] = None
    /\ \A t \in Threads : evt[t] # queue[i]
QueueApart == \A i, j \in 1..Len(queue) : i # j => queue[i] # queue[j]
PendingHolds == \A e \in Events : pending[e] # None => e \in acceptEvents
InQueue(e) == \E i \in 1..Len(queue) : queue[i] = e
NoneLost ==
  \A e \in acceptEvents : pending[e] # None \/ InQueue(e) \/ \E t \in Threads : evt[t] = e

Places ==
  ThreadHolds /\ ThreadsApart /\ QueueHolds /\ QueueApart /\ PendingHolds /\ NoneLost

\* Before AcceptEx the session of the activation is the one in the event.
FrameInv ==
  \A t \in Threads : pc[t] = "AcceptEx" =>
    frames[t] # <<>> /\ session[evt[t]] = frames[t][Len(frames[t])]

IInv == TypeOK /\ HandInv /\ Places /\ FrameInv /\ PendingKept

LEMMA InitIInv == Init => IInv
<1> SUFFICES ASSUME Init PROVE IInv  OBVIOUS
<1>1. TypeOK
  <2>1. <<>> \in Seq(Sessions) /\ <<>> \in Seq(Events)  OBVIOUS
  <2>2. port \in BOOLEAN  BY DEF Init
  <2>3. faults \in 0..MaxFaults  BY AcceptAssumption DEF Init
  <2>4. frames \in [Threads -> Seq(Sessions)] /\ queue \in Seq(Events)  BY <2>1 DEF Init
  <2>5. pc \in [Threads -> Labels] /\ client \in [Clients -> States]
    BY DEF Init, Labels, States
  <2> QED BY <2>2, <2>3, <2>4, <2>5 DEF Init, TypeOK, Labels, States
<1>2. HandInv /\ FrameInv  BY DEF Init, HandInv, FrameInv, Busy
<1>3. PendingKept  BY DEF Init, PendingKept
<1>4. Places
  BY DEF Init, Places, ThreadHolds, ThreadsApart, QueueHolds, QueueApart, PendingHolds, NoneLost
<1> QED BY <1>1, <1>2, <1>3, <1>4 DEF IInv

LEMMA DestroyType ==
  ASSUME TypeOK, Destroy
  PROVE  peer' \in [Sessions -> Clients \cup {None}] /\ client' \in [Clients -> States]
<1>1. peer \in [Sessions -> Clients \cup {None}] /\ client \in [Clients -> States]
  BY DEF TypeOK, States
<1> QED BY <1>1 DEF Destroy, States

\* The end of the process closes connections and opens none.
LEMMA EndType ==
  ASSUME TypeOK, NEW cause, End(cause)
  PROVE  /\ client' \in [Clients -> States] /\ crash' = cause
         /\ \A c \in Clients : /\ client'[c] = "connected" => client[c] = "connected"
                               /\ client'[c] \in {"connect", "backlog"}
                                    => client[c] \in {"connect", "backlog"}
<1>1. client \in [Clients -> States]  BY DEF TypeOK, States
<1> QED BY <1>1 DEF End, Connections, States

\* A step that moves no event and no session.
LEMMA QuietStep ==
  ASSUME IInv, TypeOK', UNCHANGED <<acceptEvents, evt, pending, queue, session, frames>>,
         \A t \in Threads : /\ pc'[t] \in Busy <=> pc[t] \in Busy
                            /\ pc'[t] = "AcceptEx" => pc[t] = "AcceptEx"
  PROVE  IInv'
<1>1. HandInv' /\ FrameInv'  BY DEF IInv, HandInv, FrameInv
<1>2. PendingKept'  BY DEF IInv, PendingKept
<1>3. Places'
  BY DEF IInv, Places, ThreadHolds, ThreadsApart, QueueHolds, QueueApart, PendingHolds,
         NoneLost, InQueue
<1> QED BY <1>1, <1>2, <1>3 DEF IInv

LEMMA MainKeeps ==
  ASSUME IInv, NewIocpCore \/ NewIocpCoreFails \/ StartAccept \/ StartFails \/ Launch
  PROVE  IInv'
<1>1. /\ pc \in [Threads -> Labels] /\ Main \in Threads
      /\ faults \in 0..MaxFaults /\ MaxFaults \in Nat
  BY AcceptAssumption DEF IInv, TypeOK, Labels, Threads
<1>2. CASE NewIocpCore \/ NewIocpCoreFails
  <2>1. pc' = [pc EXCEPT ![Main] = "start"] /\ pc[Main] = "core"
    BY <1>2 DEF NewIocpCore, NewIocpCoreFails, Goto
  <2>2. faults' \in 0..MaxFaults /\ port' \in BOOLEAN
    <3>1. faults' \in 0..MaxFaults
      BY <1>1, <1>2 DEF NewIocpCore, NewIocpCoreFails
    <3>2. port' \in BOOLEAN
      BY <1>2, Zenon DEF NewIocpCore, NewIocpCoreFails, IInv, TypeOK
    <3> QED BY <3>1, <3>2
  <2>3. UNCHANGED <<acceptEvents, session, evt, local, frames, pending, queue, peer, client, crash>>
    BY <1>2 DEF NewIocpCore, NewIocpCoreFails
  <2>4. TypeOK'  BY <1>1, <2>1, <2>2, <2>3 DEF IInv, TypeOK, Labels
  <2> QED BY <1>1, <2>1, <2>3, <2>4, QuietStep DEF Busy
<1>3. CASE StartAccept
  <2>1. TypeOK'  BY <1>1, <1>3 DEF IInv, TypeOK, Labels, StartAccept, Goto
  <2> QED BY <1>1, <1>3, <2>1, QuietStep DEF StartAccept, Goto, Busy
<1>4. CASE StartFails
  <2>1. TypeOK'  BY <1>4 DEF IInv, TypeOK, StartFails
  <2> QED BY <1>4, <2>1, QuietStep DEF StartFails
<1>5. CASE Launch
  <2>1. PICK w \in Workers : pc[w] = "unborn" /\ pc' = [pc EXCEPT ![w] = "wait"]
    BY <1>5 DEF Launch, Goto
  <2>2. w \in Threads  BY DEF Threads
  <2>3. TypeOK'  BY <1>1, <1>5, <2>1, <2>2 DEF IInv, TypeOK, Labels, Launch
  <2> QED BY <1>1, <1>5, <2>1, <2>2, <2>3, QuietStep DEF Launch, Busy
<1> QED BY <1>2, <1>3, <1>4, <1>5

LEMMA WorkerKeeps ==
  ASSUME IInv, NEW w \in Workers,
         DispatchNull(w) \/ ProcessAccept(w) \/ ProcessAcceptFails(w)
  PROVE  IInv'
<1>1. /\ pc \in [Threads -> Labels] /\ w \in Threads /\ client \in [Clients -> States]
      /\ faults \in 0..MaxFaults /\ MaxFaults \in Nat
  BY AcceptAssumption DEF IInv, TypeOK, Labels, States, Threads
<1>2. CASE DispatchNull(w)
  <2>1. client' \in [Clients -> States] /\ crash' = "null event"
    BY <1>2, EndType DEF DispatchNull, IInv
  <2>2. TypeOK'  BY <1>2, <2>1 DEF IInv, TypeOK, States, DispatchNull
  <2> QED BY <1>2, <2>2, QuietStep DEF DispatchNull
<1>3. CASE ProcessAccept(w) \/ ProcessAcceptFails(w)
  <2>1. pc[w] = "process" /\ pc' = [pc EXCEPT ![w] = "register"]
    BY <1>3 DEF ProcessAccept, ProcessAcceptFails, Goto
  <2>2. client' \in [Clients -> States] /\ faults' \in 0..MaxFaults
    <3>1. CASE ProcessAccept(w)  BY <1>1, <3>1 DEF ProcessAccept, States
    <3>2. CASE ProcessAcceptFails(w)
      <4>1. client' \in [Clients -> States]
        BY <1>1, <3>2 DEF ProcessAcceptFails, Refuse, States
      <4>2. faults' = faults \/ (faults' = faults + 1 /\ faults < MaxFaults)
        BY <3>2, Zenon DEF ProcessAcceptFails, Refuse
      <4> QED BY <1>1, <4>1, <4>2
    <3> QED BY <1>3, <3>1, <3>2
  <2>3. UNCHANGED <<port, acceptEvents, session, evt, local, frames, pending, queue, peer, crash>>
    BY <1>3 DEF ProcessAccept, ProcessAcceptFails
  <2>4. TypeOK'  BY <1>1, <2>1, <2>2, <2>3 DEF IInv, TypeOK, States, Labels
  <2> QED BY <1>1, <2>1, <2>3, <2>4, QuietStep DEF Busy
<1> QED BY <1>2, <1>3

LEMMA ClientKeeps ==
  ASSUME IInv, NEW c \in Clients, Connect(c) \/ SendFails(c) \/ Leave(c)
  PROVE  IInv'
<1>1. client \in [Clients -> States]  BY DEF IInv, TypeOK, States
<1>2. client' \in [Clients -> States]  BY <1>1 DEF Connect, SendFails, Leave, States
<1>3. UNCHANGED <<pc, port, acceptEvents, session, evt, local, frames, pending, queue, peer,
                  faults, crash>>
  BY DEF Connect, SendFails, Leave
<1>4. TypeOK'  BY <1>2, <1>3 DEF IInv, TypeOK, States
<1> QED BY <1>3, <1>4, QuietStep

-----------------------------------------------------------------------------
(* The steps that move an event or a session.                               *)

LEMMA NewAcceptEventKeeps == ASSUME IInv, NewAcceptEvent PROVE IInv'
<1>1. PICK e \in Events : /\ e \notin acceptEvents /\ acceptEvents' = acceptEvents \cup {e}
                          /\ evt' = [evt EXCEPT ![Main] = e]
  <2>1. acceptEvents \subseteq Events /\ acceptEvents # Events
    BY DEF IInv, TypeOK, NewAcceptEvent
  <2> QED BY <2>1 DEF NewAcceptEvent
<1>2. /\ pc[Main] = "create" /\ pc' = [pc EXCEPT ![Main] = "register"]
      /\ UNCHANGED <<port, session, local, frames, pending, queue, peer, client, faults, crash>>
  BY DEF NewAcceptEvent, Goto
<1>3. /\ pc \in [Threads -> Labels] /\ Main \in Threads /\ acceptEvents \subseteq Events
      /\ evt \in [Threads -> Events \cup {None}] /\ e # None
  BY AcceptAssumption DEF IInv, TypeOK, Labels, Threads
<1>4. evt[Main] = None  BY <1>2, <1>3 DEF IInv, HandInv, Busy
<1>5. /\ pending[e] = None /\ ~InQueue(e) /\ \A t \in Threads : evt[t] # e
  BY <1>1, <1>3 DEF IInv, Places, PendingHolds, QueueHolds, ThreadHolds, InQueue
<1>6. /\ evt'[Main] = e /\ \A t \in Threads \ {Main} : evt'[t] = evt[t] /\ pc'[t] = pc[t]
      /\ pc'[Main] = "register"
  BY <1>1, <1>2, <1>3
<1>7. TypeOK'  BY <1>1, <1>2, <1>3 DEF IInv, TypeOK, Labels
<1>8. HandInv'  BY <1>3, <1>6 DEF IInv, HandInv, Busy
<1>9. Places'
  <2>1. ThreadHolds'  BY <1>1, <1>2, <1>5, <1>6 DEF IInv, Places, ThreadHolds
  <2>2. ThreadsApart'  BY <1>3, <1>5, <1>6 DEF IInv, Places, ThreadsApart
  <2>3. QueueHolds'
    BY <1>1, <1>2, <1>5, <1>6 DEF IInv, Places, QueueHolds, InQueue
  <2>4. QueueApart' /\ PendingHolds'
    BY <1>1, <1>2 DEF IInv, Places, QueueApart, PendingHolds
  <2>5. NoneLost'
    <3> SUFFICES ASSUME NEW d \in acceptEvents'
                 PROVE  pending'[d] # None \/ InQueue(d)' \/ \E t \in Threads : evt'[t] = d
      BY DEF NoneLost
    <3>1. CASE d = e  BY <3>1, <1>3, <1>6
    <3>2. CASE d # e
      <4>1. pending[d] # None \/ InQueue(d) \/ \E t \in Threads : evt[t] = d
        BY <3>2, <1>1 DEF IInv, Places, NoneLost
      <4>2. d # None  BY <1>1, <1>3, AcceptAssumption
      <4> QED BY <4>1, <4>2, <1>2, <1>4, <1>6 DEF InQueue
    <3> QED BY <3>1, <3>2
  <2> QED BY <2>1, <2>2, <2>3, <2>4, <2>5 DEF Places
<1>10. FrameInv'  BY <1>2, <1>6 DEF IInv, FrameInv
<1>11. PendingKept'  BY <1>2 DEF IInv, PendingKept
<1> QED BY <1>7, <1>8, <1>9, <1>10, <1>11 DEF IInv

\* The new session goes to an event that is not outstanding and in no other hands.
LEMMA RegisterAcceptKeeps == ASSUME IInv, NEW t \in Threads, RegisterAccept(t) PROVE IInv'
<1>1. /\ pc[t] = "register"
      /\ UNCHANGED <<port, acceptEvents, local, evt, pending, queue, faults>>
  BY DEF RegisterAccept
<1>2. peer' \in [Sessions -> Clients \cup {None}] /\ client' \in [Clients -> States]
  BY DestroyType DEF RegisterAccept, IInv
<1> DEFINE s == NewSocket
           e == evt[t]
<1>3. /\ session' = [session EXCEPT ![e] = s] /\ crash' = crash
      /\ frames' = [frames EXCEPT ![t] = Append(@, s)]
      /\ pc' = [pc EXCEPT ![t] = "AcceptEx"]
  BY DEF RegisterAccept, Goto
<1>4. s \in Sessions  BY NewSocketFree DEF RegisterAccept, FreeSockets
<1>5. /\ pc \in [Threads -> Labels] /\ evt \in [Threads -> Events \cup {None}]
      /\ session \in [Events -> Sessions \cup {None}]
      /\ frames \in [Threads -> Seq(Sessions)]
  BY DEF IInv, TypeOK, Labels
<1>6. e \in Events /\ e # None /\ pending[e] = None
  BY <1>1, <1>5 DEF IInv, HandInv, Busy, Places, ThreadHolds
<1> HIDE DEF s, e
<1>7. frames[t] \in Seq(Sessions) /\ Append(frames[t], s) \in Seq(Sessions)
  BY <1>4, <1>5, AppendProperties
<1>8. TypeOK'
  <2>1. frames' \in [Threads -> Seq(Sessions)]  BY <1>3, <1>5, <1>7
  <2>2. session' \in [Events -> Sessions \cup {None}] /\ pc' \in [Threads -> Labels]
    BY <1>3, <1>4, <1>5 DEF Labels
  <2> QED BY <1>1, <1>2, <1>3, <2>1, <2>2 DEF IInv, TypeOK, Labels, States
<1>9. HandInv'  BY <1>1, <1>3, <1>5 DEF IInv, HandInv, Busy
<1>10. Places'
  BY <1>1 DEF IInv, Places, ThreadHolds, ThreadsApart, QueueHolds, QueueApart, PendingHolds,
              NoneLost, InQueue
<1>11. FrameInv'
  <2> SUFFICES ASSUME NEW u \in Threads, pc'[u] = "AcceptEx"
               PROVE  /\ frames'[u] # <<>>
                      /\ session'[evt[u]] = frames'[u][Len(frames'[u])]
    BY <1>1 DEF FrameInv
  <2>1. CASE u = t
    <3>1. frames'[u] = Append(frames[t], s)  BY <2>1, <1>3, <1>5
    <3>2. /\ Append(frames[t], s) # <<>>
          /\ Append(frames[t], s)[Len(Append(frames[t], s))] = s
      BY <1>4, <1>7, AppendProperties
    <3>3. session'[evt[u]] = s  BY <2>1, <1>3, <1>5, <1>6 DEF e
    <3> QED BY <3>1, <3>2, <3>3
  <2>2. CASE u # t
    <3>1. pc[u] = "AcceptEx" /\ frames'[u] = frames[u]  BY <2>2, <1>3, <1>5
    <3>2. evt[u] # e  BY <2>2, <1>6 DEF e, IInv, Places, ThreadsApart
    <3>3. evt[u] \in Events  BY <3>1, <1>5 DEF IInv, HandInv, Busy
    <3>4. session'[evt[u]] = session[evt[u]]  BY <3>2, <3>3, <1>3, <1>5
    <3> QED BY <3>1, <3>4 DEF IInv, FrameInv
  <2> QED BY <2>1, <2>2
<1>12. PendingKept'
  BY <1>1, <1>3, <1>5, <1>6 DEF IInv, PendingKept
<1> QED BY <1>8, <1>9, <1>10, <1>11, <1>12 DEF IInv

LEMMA CreateSessionFailsKeeps ==
  ASSUME IInv, NEW t \in Threads, CreateSessionFails(t)
  PROVE  IInv'
<1>1. UNCHANGED <<pc, port, acceptEvents, session, evt, local, frames, pending, queue, peer>>
  BY DEF CreateSessionFails
<1>2. faults \in 0..MaxFaults /\ MaxFaults \in Nat  BY AcceptAssumption DEF IInv, TypeOK
<1>3. \/ End("no socket") /\ faults' = faults
      \/ End("Register") /\ faults < MaxFaults /\ faults' = faults + 1
  BY DEF CreateSessionFails
<1>4. faults' \in 0..MaxFaults
  <2>1. faults' = faults \/ (faults < MaxFaults /\ faults' = faults + 1)  BY <1>3, Zenon
  <2> QED BY <1>2, <2>1
<1>5. client' \in [Clients -> States] /\ crash' \in {"no socket", "Register"}
  BY <1>3, EndType DEF IInv
<1>6. TypeOK'  BY <1>1, <1>4, <1>5 DEF IInv, TypeOK, States
<1> QED BY <1>1, <1>6, QuietStep

LEMMA AcceptExFailsKeeps == ASSUME IInv, NEW t \in Threads, AcceptExFails(t) PROVE IInv'
<1>1. /\ pc[t] = "AcceptEx" /\ pc' = [pc EXCEPT ![t] = "register"] /\ faults' = faults + 1
      /\ faults < MaxFaults
      /\ UNCHANGED <<port, acceptEvents, session, evt, local, frames, pending, queue, peer,
                     client, crash>>
  BY DEF AcceptExFails, Goto
<1>2. pc \in [Threads -> Labels] /\ faults \in 0..MaxFaults /\ MaxFaults \in Nat
  BY AcceptAssumption DEF IInv, TypeOK, Labels
<1>3. faults' \in 0..MaxFaults  BY <1>1, <1>2
<1>4. TypeOK'  BY <1>1, <1>2, <1>3 DEF IInv, TypeOK, Labels
<1> QED BY <1>1, <1>2, <1>4, QuietStep DEF Busy

LEMMA ReturnKeeps == ASSUME IInv, NEW t \in Threads, Return(t) PROVE IInv'
<1>1. /\ pc[t] = "return" /\ frames' = [frames EXCEPT ![t] = <<>>]
      /\ local' = [local EXCEPT ![t] = None]
      /\ pc' = [pc EXCEPT ![t] = IF t = Main THEN "create" ELSE "wait"]
      /\ UNCHANGED <<port, acceptEvents, session, evt, pending, queue, faults, crash>>
  BY DEF Return, Goto
<1>2. peer' \in [Sessions -> Clients \cup {None}] /\ client' \in [Clients -> States]
  BY DestroyType DEF Return, IInv
<1>3. pc \in [Threads -> Labels] /\ frames \in [Threads -> Seq(Sessions)]
  BY DEF IInv, TypeOK, Labels
<1>4. frames' \in [Threads -> Seq(Sessions)]
  <2>1. <<>> \in Seq(Sessions)  OBVIOUS
  <2> QED BY <2>1, <1>1, <1>3
<1>5. TypeOK'  BY <1>1, <1>2, <1>3, <1>4 DEF IInv, TypeOK, Labels, States
<1>6. HandInv'  BY <1>1, <1>3 DEF IInv, HandInv, Busy
<1>7. Places'
  BY <1>1 DEF IInv, Places, ThreadHolds, ThreadsApart, QueueHolds, QueueApart, PendingHolds,
              NoneLost, InQueue
<1>8. FrameInv'
  <2> SUFFICES ASSUME NEW u \in Threads, pc'[u] = "AcceptEx"
               PROVE  frames'[u] # <<>> /\ session[evt[u]] = frames'[u][Len(frames'[u])]
    BY <1>1 DEF FrameInv
  <2>1. u # t  BY <1>1, <1>3
  <2>2. pc[u] = "AcceptEx" /\ frames'[u] = frames[u]  BY <2>1, <1>1, <1>3
  <2> QED BY <2>2 DEF IInv, FrameInv
<1>9. PendingKept'  BY <1>1 DEF IInv, PendingKept
<1> QED BY <1>5, <1>6, <1>7, <1>8, <1>9 DEF IInv

\* The event goes from the thread to the system, with the session it refers to.
LEMMA AcceptExKeeps == ASSUME IInv, NEW t \in Threads, AcceptEx(t) PROVE IInv'
<1> DEFINE e == evt[t]
           s == frames[t][Len(frames[t])]
<1>1. /\ pc[t] = "AcceptEx" /\ pc' = [pc EXCEPT ![t] = "return"]
      /\ pending' = [pending EXCEPT ![e] = s] /\ evt' = [evt EXCEPT ![t] = None]
      /\ UNCHANGED <<port, acceptEvents, session, local, frames, queue, peer, client, faults,
                     crash>>
  BY DEF AcceptEx, Goto
<1>2. /\ pc \in [Threads -> Labels] /\ evt \in [Threads -> Events \cup {None}]
      /\ pending \in [Events -> Sessions \cup {None}] /\ acceptEvents \subseteq Events
      /\ frames[t] \in Seq(Sessions) /\ None \notin Events /\ None \notin Sessions
      /\ queue \in Seq(Events)
  BY AcceptAssumption DEF IInv, TypeOK, Labels
<1>3. e \in acceptEvents /\ e \in Events /\ pending[e] = None
  BY <1>1, <1>2 DEF IInv, HandInv, Busy, Places, ThreadHolds
<1>4. s \in Sessions /\ session[e] = s
  <2>1. frames[t] # <<>> /\ session[e] = s  BY <1>1 DEF IInv, FrameInv
  <2>2. Len(frames[t]) \in 1..Len(frames[t])  BY <1>2, <2>1
  <2> QED BY <1>2, <2>1, <2>2
<1> HIDE DEF e, s
<1>5. /\ evt'[t] = None /\ pc'[t] = "return"
      /\ \A u \in Threads \ {t} : evt'[u] = evt[u] /\ evt[u] # e /\ pc'[u] = pc[u]
  BY <1>1, <1>2, <1>3 DEF e, IInv, Places, ThreadsApart
<1>6. /\ pending'[e] = s /\ s # None
      /\ \A d \in Events \ {e} : pending'[d] = pending[d]
  BY <1>1, <1>2, <1>3, <1>4
<1>7. TypeOK'
  <2>1. pending' \in [Events -> Sessions \cup {None}] /\ evt' \in [Threads -> Events \cup {None}]
    BY <1>1, <1>2, <1>4
  <2>2. pc' \in [Threads -> Labels]  BY <1>1, <1>2 DEF Labels
  <2> QED BY <1>1, <2>1, <2>2 DEF IInv, TypeOK, Labels
<1>8. HandInv'  BY <1>5 DEF IInv, HandInv, Busy
<1>9. Places'
  <2>1. ThreadHolds'
    <3> SUFFICES ASSUME NEW u \in Threads, evt'[u] # None
                 PROVE  evt'[u] \in acceptEvents' /\ pending'[evt'[u]] = None
      BY DEF ThreadHolds
    <3>1. u # t /\ evt'[u] = evt[u] /\ evt[u] # e  BY <1>5
    <3>2. evt[u] \in acceptEvents /\ pending[evt[u]] = None
      BY <3>1 DEF IInv, Places, ThreadHolds
    <3> QED BY <3>1, <3>2, <1>1, <1>2, <1>6
  <2>2. ThreadsApart'  BY <1>5 DEF IInv, Places, ThreadsApart
  <2>3. QueueHolds'
    <3> SUFFICES ASSUME NEW i \in 1..Len(queue)
                 PROVE  /\ queue[i] \in acceptEvents /\ pending'[queue[i]] = None
                        /\ \A u \in Threads : evt'[u] # queue[i]
      BY <1>1 DEF QueueHolds
    <3>1. /\ queue[i] \in acceptEvents /\ pending[queue[i]] = None
          /\ \A u \in Threads : evt[u] # queue[i]
      BY DEF IInv, Places, QueueHolds
    <3>2. queue[i] # e /\ queue[i] \in Events  BY <3>1, <1>2 DEF e
    <3> QED BY <3>1, <3>2, <1>2, <1>5, <1>6
  <2>4. QueueApart'  BY <1>1 DEF IInv, Places, QueueApart
  <2>5. PendingHolds'  BY <1>1, <1>3, <1>6 DEF IInv, Places, PendingHolds
  <2>6. NoneLost'
    <3> SUFFICES ASSUME NEW d \in acceptEvents, d # e
                 PROVE  pending'[d] # None \/ InQueue(d)' \/ \E u \in Threads : evt'[u] = d
      BY <1>1, <1>6 DEF NoneLost
    <3>1. pending[d] # None \/ InQueue(d) \/ \E u \in Threads : evt[u] = d
      BY DEF IInv, Places, NoneLost
    <3>2. d \in Events  BY <1>2
    <3> QED BY <3>1, <3>2, <1>1, <1>5, <1>6 DEF InQueue, e
  <2> QED BY <2>1, <2>2, <2>3, <2>4, <2>5, <2>6 DEF Places
<1>10. FrameInv'  BY <1>1, <1>5 DEF IInv, FrameInv
<1>11. PendingKept'  BY <1>1, <1>4, <1>6 DEF IInv, PendingKept
<1> QED BY <1>7, <1>8, <1>9, <1>10, <1>11 DEF IInv

\* The event goes from the head of the queue to a worker.
LEMMA DispatchKeeps == ASSUME IInv, NEW w \in Workers, Dispatch(w) PROVE IInv'
<1> DEFINE e == Head(queue)
<1>1. /\ pc[w] = "wait" /\ pc' = [pc EXCEPT ![w] = "process"] /\ queue # <<>>
      /\ evt' = [evt EXCEPT ![w] = e] /\ queue' = Tail(queue)
      /\ local' = [local EXCEPT ![w] = session[e]]
      /\ UNCHANGED <<port, acceptEvents, session, frames, pending, peer, client, faults, crash>>
  BY DEF Dispatch, Deliver, Goto
<1>2. /\ pc \in [Threads -> Labels] /\ evt \in [Threads -> Events \cup {None}] /\ w \in Threads
      /\ queue \in Seq(Events) /\ acceptEvents \subseteq Events /\ None \notin Events
      /\ session \in [Events -> Sessions \cup {None}]
      /\ local \in [Threads -> Sessions \cup {None}]
  BY AcceptAssumption DEF IInv, TypeOK, Labels, Threads
<1>3. /\ Len(queue) \in Nat /\ 1 \in 1..Len(queue) /\ e = queue[1] /\ e \in Events
      /\ queue' \in Seq(Events) /\ Len(queue') = Len(queue) - 1
      /\ \A i \in 1..Len(queue') : i + 1 \in 1..Len(queue) /\ queue'[i] = queue[i + 1]
  BY <1>1, <1>2
<1>4. e \in acceptEvents /\ pending[e] = None /\ \A t \in Threads : evt[t] # e
  BY <1>3 DEF IInv, Places, QueueHolds
<1> HIDE DEF e
<1>5. evt[w] = None  BY <1>1, <1>2 DEF IInv, HandInv, Busy
<1>6. /\ evt'[w] = e /\ pc'[w] = "process" /\ e # None
      /\ \A u \in Threads \ {w} : evt'[u] = evt[u] /\ pc'[u] = pc[u]
  BY <1>1, <1>2, <1>3
<1>7. TypeOK'
  <2>1. evt' \in [Threads -> Events \cup {None}] /\ local' \in [Threads -> Sessions \cup {None}]
    BY <1>1, <1>2, <1>3
  <2>2. pc' \in [Threads -> Labels]  BY <1>1, <1>2 DEF Labels
  <2> QED BY <1>1, <1>3, <2>1, <2>2 DEF IInv, TypeOK, Labels
<1>8. HandInv'  BY <1>6 DEF IInv, HandInv, Busy
<1>9. Places'
  <2>1. ThreadHolds'  BY <1>1, <1>4, <1>6 DEF IInv, Places, ThreadHolds
  <2>2. ThreadsApart'  BY <1>2, <1>4, <1>6 DEF IInv, Places, ThreadsApart
  <2>3. QueueHolds'
    <3> SUFFICES ASSUME NEW i \in 1..Len(queue')
                 PROVE  /\ queue'[i] \in acceptEvents /\ pending[queue'[i]] = None
                        /\ \A u \in Threads : evt'[u] # queue'[i]
      BY <1>1 DEF QueueHolds
    <3>1. i + 1 \in 1..Len(queue) /\ queue'[i] = queue[i + 1] /\ i + 1 # 1  BY <1>3
    <3>2. queue'[i] # e  BY <3>1, <1>3 DEF IInv, Places, QueueApart
    <3> QED BY <3>1, <3>2, <1>6 DEF IInv, Places, QueueHolds
  <2>4. QueueApart'
    <3> SUFFICES ASSUME NEW i \in 1..Len(queue'), NEW j \in 1..Len(queue'), i # j
                 PROVE  queue'[i] # queue'[j]
      BY DEF QueueApart
    <3>1. i + 1 # j + 1  OBVIOUS
    <3> QED BY <3>1, <1>3 DEF IInv, Places, QueueApart
  <2>5. PendingHolds'  BY <1>1 DEF IInv, Places, PendingHolds
  <2>6. NoneLost'
    <3> SUFFICES ASSUME NEW d \in acceptEvents, d # e
                 PROVE  pending[d] # None \/ InQueue(d)' \/ \E u \in Threads : evt'[u] = d
      BY <1>1, <1>2, <1>6 DEF NoneLost
    <3>1. pending[d] # None \/ InQueue(d) \/ \E u \in Threads : evt[u] = d
      BY DEF IInv, Places, NoneLost
    <3>2. d # None  BY <1>2
    <3>3. CASE InQueue(d)
      <4>1. PICK i \in 1..Len(queue) : queue[i] = d  BY <3>3 DEF InQueue
      <4>2. i # 1  BY <4>1, <1>3
      <4>3. i - 1 \in 1..Len(queue') /\ (i - 1) + 1 = i  BY <4>1, <4>2, <1>3
      <4>4. queue'[i - 1] = d  BY <4>1, <4>3, <1>3
      <4> QED BY <4>3, <4>4 DEF InQueue
    <3> QED BY <3>1, <3>2, <3>3, <1>5, <1>6
  <2> QED BY <2>1, <2>2, <2>3, <2>4, <2>5, <2>6 DEF Places
<1>10. FrameInv'  BY <1>1, <1>6 DEF IInv, FrameInv
<1>11. PendingKept'  BY <1>1 DEF IInv, PendingKept
<1> QED BY <1>7, <1>8, <1>9, <1>10, <1>11 DEF IInv

\* The event goes from the system to the end of the queue.
LEMMA QueueKeeps ==
  ASSUME IInv, TypeOK', NEW e \in Events, pending[e] # None,
         pending' = [pending EXCEPT ![e] = None], queue' = Append(queue, e),
         UNCHANGED <<pc, acceptEvents, session, evt, frames>>
  PROVE  IInv'
<1>1. /\ pending \in [Events -> Sessions \cup {None}] /\ queue \in Seq(Events)
      /\ acceptEvents \subseteq Events
  BY DEF IInv, TypeOK
<1>2. /\ Len(queue) \in Nat /\ Len(queue') = Len(queue) + 1 /\ queue'[Len(queue) + 1] = e
      /\ \A i \in 1..Len(queue) : queue'[i] = queue[i]
  BY <1>1
<1>3. pending'[e] = None /\ \A d \in Events \ {e} : pending'[d] = pending[d]
  BY <1>1
<1>4. e \in acceptEvents /\ ~InQueue(e) /\ \A t \in Threads : evt[t] # e
  <2>1. e \in acceptEvents /\ ~InQueue(e)
    BY DEF IInv, Places, PendingHolds, QueueHolds, InQueue
  <2>2. \A t \in Threads : evt[t] # e
    BY AcceptAssumption DEF IInv, Places, ThreadHolds
  <2> QED BY <2>1, <2>2
<1>5. Places'
  <2>1. ThreadHolds'  BY <1>1, <1>3, <1>4 DEF IInv, Places, ThreadHolds
  <2>2. ThreadsApart'  BY DEF IInv, Places, ThreadsApart
  <2>3. QueueHolds'
    <3> SUFFICES ASSUME NEW i \in 1..Len(queue')
                 PROVE  /\ queue'[i] \in acceptEvents /\ pending'[queue'[i]] = None
                        /\ \A u \in Threads : evt[u] # queue'[i]
      BY DEF QueueHolds
    <3>1. CASE i = Len(queue) + 1  BY <3>1, <1>2, <1>3, <1>4
    <3>2. CASE i \in 1..Len(queue)
      <4>1. /\ queue'[i] = queue[i] /\ queue[i] \in acceptEvents /\ pending[queue[i]] = None
            /\ \A u \in Threads : evt[u] # queue[i]
        BY <3>2, <1>2 DEF IInv, Places, QueueHolds
      <4>2. queue[i] \in Events /\ queue[i] # e  BY <3>2, <4>1, <1>1, <1>4 DEF InQueue
      <4> QED BY <4>1, <4>2, <1>3
    <3> QED BY <3>1, <3>2, <1>2
  <2>4. QueueApart'
    <3> SUFFICES ASSUME NEW i \in 1..Len(queue'), NEW j \in 1..Len(queue'), i # j
                 PROVE  queue'[i] # queue'[j]
      BY DEF QueueApart
    <3>1. i \in 1..Len(queue) \/ i = Len(queue) + 1  BY <1>2
    <3>2. j \in 1..Len(queue) \/ j = Len(queue) + 1  BY <1>2
    <3> QED BY <3>1, <3>2, <1>2, <1>4 DEF IInv, Places, QueueApart, InQueue
  <2>5. PendingHolds'  BY <1>3 DEF IInv, Places, PendingHolds
  <2>6. NoneLost'
    <3> SUFFICES ASSUME NEW d \in acceptEvents
                 PROVE  pending'[d] # None \/ InQueue(d)' \/ \E u \in Threads : evt[u] = d
      BY DEF NoneLost
    <3>1. pending[d] # None \/ InQueue(d) \/ \E u \in Threads : evt[u] = d
      BY DEF IInv, Places, NoneLost
    <3>2. InQueue(e)' /\ (InQueue(d) => InQueue(d)')  BY <1>2 DEF InQueue
    <3> QED BY <3>1, <3>2, <1>1, <1>3
  <2> QED BY <2>1, <2>2, <2>3, <2>4, <2>5, <2>6 DEF Places
<1>6. HandInv' /\ FrameInv'  BY DEF IInv, HandInv, FrameInv
<1>7. PendingKept'  BY <1>3 DEF IInv, PendingKept
<1> QED BY <1>5, <1>6, <1>7 DEF IInv

LEMMA SystemKeeps ==
  ASSUME IInv, NEW e \in Events, Abort(e) \/ \E c \in Clients : Complete(e, c)
  PROVE  IInv'
<1>1. /\ pending[e] # None /\ pending' = [pending EXCEPT ![e] = None]
      /\ queue' = Append(queue, e)
      /\ UNCHANGED <<pc, port, acceptEvents, session, evt, local, frames, crash>>
  BY DEF Abort, Complete
<1>2. /\ pending \in [Events -> Sessions \cup {None}] /\ queue \in Seq(Events)
      /\ peer \in [Sessions -> Clients \cup {None}] /\ client \in [Clients -> States]
      /\ faults \in 0..MaxFaults /\ MaxFaults \in Nat
  BY AcceptAssumption DEF IInv, TypeOK, States
<1>3. pending' \in [Events -> Sessions \cup {None}] /\ queue' \in Seq(Events)
  BY <1>1, <1>2, AppendProperties
<1>4. faults' \in 0..MaxFaults  BY <1>2 DEF Abort, Complete
<1>5. peer' \in [Sessions -> Clients \cup {None}] /\ client' \in [Clients -> States]
  <2>1. CASE Abort(e)  BY <1>2, <2>1 DEF Abort
  <2>2. ASSUME NEW c \in Clients, Complete(e, c)
        PROVE  peer' \in [Sessions -> Clients \cup {None}] /\ client' \in [Clients -> States]
    BY <1>2, <2>2 DEF Complete, States
  <2> QED BY <2>1, <2>2
<1>6. TypeOK'  BY <1>1, <1>3, <1>4, <1>5 DEF IInv, TypeOK, States
<1> QED BY <1>1, <1>6, QueueKeeps

LEMMA NextIInv == IInv /\ [Next]_vars => IInv'
<1> SUFFICES ASSUME IInv, [Next]_vars PROVE IInv'  OBVIOUS
<1>1. CASE UNCHANGED vars
  <2>1. TypeOK'  BY <1>1 DEF IInv, TypeOK, vars
  <2> QED BY <1>1, <2>1, QuietStep DEF vars
<1>2. CASE \E t \in Threads : ThreadStep(t)
  BY <1>2, RegisterAcceptKeeps, CreateSessionFailsKeeps, AcceptExKeeps, AcceptExFailsKeeps,
     ReturnKeeps
     DEF ThreadStep
<1>3. CASE MainStep
  <2>1. Main \in Threads  BY DEF Threads
  <2> QED BY <1>2, <1>3, <2>1, MainKeeps, NewAcceptEventKeeps DEF MainStep
<1>4. CASE \E w \in Workers : WorkerStep(w)
  <2>1. Workers \subseteq Threads  BY DEF Threads
  <2> QED BY <1>2, <1>4, <2>1, DispatchKeeps, WorkerKeeps DEF WorkerStep
<1>5. CASE \E c \in Clients : Connect(c) \/ SendFails(c) \/ Leave(c)  BY <1>5, ClientKeeps
<1>6. CASE \E e \in Events : Abort(e) \/ \E c \in Clients : Complete(e, c)
  BY <1>6, SystemKeeps
<1>7. CASE Quiet  BY <1>1, <1>7 DEF Quiet
<1> QED BY <1>1, <1>3, <1>4, <1>5, <1>6, <1>7 DEF Next

LEMMA Inductive == Spec => []IInv
BY InitIInv, NextIInv, PTL DEF Spec

-----------------------------------------------------------------------------
\* Every activation of RegisterAccept that calls AcceptEx has a session, and sockets,
\* events and clients are what the code takes them for (Listener.cpp:54-166).
THEOREM Typing == Spec => []TypeOK
<1>1. IInv => TypeOK  BY DEF IInv
<1> QED BY <1>1, Inductive, PTL

\* The session of an outstanding AcceptEx stays in its event, for any number of events,
\* workers and failures (Listener.cpp:92-131).
THEOREM SessionKept == Spec => []PendingKept
<1>1. IInv => PendingKept  BY DEF IInv
<1> QED BY <1>1, Inductive, PTL

LEMMA HolderCount == IInv => OneHolder
<1> SUFFICES ASSUME IInv, NEW e \in acceptEvents
             PROVE  Cardinality({t \in Threads : evt[t] = e})
                      + Cardinality({i \in 1..Len(queue) : queue[i] = e})
                      + (IF pending[e] = None THEN 0 ELSE 1) = 1
  BY DEF OneHolder
<1> DEFINE T == {t \in Threads : evt[t] = e}
           Q == {i \in 1..Len(queue) : queue[i] = e}
<1>0. e # None /\ e \in Events  BY AcceptAssumption DEF IInv, TypeOK
<1>1. CASE pending[e] # None
  <2>1. T = {} /\ Q = {}
    BY <1>0, <1>1 DEF IInv, Places, ThreadHolds, QueueHolds
  <2>2. Cardinality(T) = 0 /\ Cardinality(Q) = 0  BY <2>1, FS_EmptySet
  <2> QED BY <1>1, <2>2
<1>2. CASE InQueue(e)
  <2>1. PICK i \in 1..Len(queue) : queue[i] = e  BY <1>2 DEF InQueue
  <2>2. T = {} /\ pending[e] = None  BY <2>1 DEF IInv, Places, QueueHolds
  <2>3. Q = {i}  BY <2>1 DEF IInv, Places, QueueApart
  <2>4. Cardinality(T) = 0 /\ Cardinality(Q) = 1  BY <2>2, <2>3, FS_EmptySet, FS_Singleton
  <2> QED BY <2>2, <2>4
<1>3. CASE \E t \in Threads : evt[t] = e
  <2>1. PICK t \in Threads : evt[t] = e  BY <1>3
  <2>2. Q = {} /\ pending[e] = None
    BY <1>0, <2>1 DEF IInv, Places, QueueHolds, ThreadHolds
  <2>3. T = {t}  BY <1>0, <2>1 DEF IInv, Places, ThreadsApart
  <2>4. Cardinality(T) = 1 /\ Cardinality(Q) = 0  BY <2>2, <2>3, FS_EmptySet, FS_Singleton
  <2> QED BY <2>2, <2>4
<1> QED BY <1>1, <1>2, <1>3 DEF IInv, Places, NoneLost

\* No AcceptEvent is lost or used twice, for any number of events, workers, clients and
\* failures (Listener.cpp:54-166, IocpCore.cpp:26-58).
THEOREM EventsKept == Spec => []OneHolder
BY HolderCount, Inductive, PTL

-----------------------------------------------------------------------------
(* Connections.  CInv follows a client from AcceptEx to its announcement.   *)

\* The event's completion has not been processed.
Unprocessed(e) == InQueue(e) \/ \E t \in Threads : evt[t] = e /\ pc[t] = "process"

SessionsApart == \A d, e \in Events : d # e /\ session[d] # None => session[d] # session[e]
PeersApart == \A r, s \in Sessions : r # s /\ peer[r] # None => peer[r] # peer[s]

\* A client that has not been accepted is on no socket.
Fresh ==
  \A c \in Clients : client[c] \in {"connect", "backlog"} => \A s \in Sessions : peer[s] # c

LocalInv == \A t \in Threads : pc[t] = "process" => local[t] = session[evt[t]]

\* A client that has been accepted and not been announced is on the socket of an event
\* that will be processed.
ConnectedInv ==
  \A c \in Clients : client[c] = "connected" =>
    \E e \in Events : session[e] \in Sessions /\ peer[session[e]] = c /\ Unprocessed(e)

CInv == SessionsApart /\ PeersApart /\ Fresh /\ LocalInv /\ ConnectedInv

\* What NoSilentClose asks of a step.
Announced ==
  \A c \in Clients : Running' /\ client'[c] = "closed" /\ client[c] # "closed"
                       => client[c] \in {"greeted", "refused"}

LEMMA InitCInv == Init => CInv
<1> SUFFICES ASSUME Init PROVE CInv  OBVIOUS
<1>1. Fresh
  <2>1. \A c \in Clients : c # None  BY AcceptAssumption
  <2> QED BY <2>1 DEF Init, Fresh
<1>2. SessionsApart /\ PeersApart /\ LocalInv /\ ConnectedInv
  BY DEF Init, SessionsApart, PeersApart, LocalInv, ConnectedInv
<1> QED BY <1>1, <1>2 DEF CInv

LEMMA LiveSessions ==
  ASSUME TypeOK
  PROVE  /\ Live \subseteq Sessions
         /\ \A e \in Events : session[e] # None => session[e] \in Live
<1>1. \A t \in Threads : \A i \in 1..Len(frames[t]) : frames[t][i] \in Sessions
  <2> TAKE t \in Threads
  <2>1. frames[t] \in Seq(Sessions)  BY DEF TypeOK
  <2> QED BY <2>1
<1>2. Live \subseteq Sessions
  <2>1. /\ \A e \in Events : session[e] \in Sessions \cup {None}
        /\ \A t \in Threads : local[t] \in Sessions \cup {None}
    BY DEF TypeOK
  <2> SUFFICES ASSUME NEW s \in Live PROVE s \in Sessions  OBVIOUS
  <2>2. /\ s # None
        /\ \/ \E e \in Events : s = session[e]
           \/ \E t \in Threads : s = local[t]
           \/ \E t \in Threads : \E i \in 1..Len(frames[t]) : s = frames[t][i]
    BY Zenon DEF Live
  <2> QED BY <1>1, <2>1, <2>2
<1>3. \A e \in Events : session[e] # None => session[e] \in Live  BY DEF Live
<1> QED BY <1>2, <1>3

\* A step that leaves sockets, sessions and completions alone.
LEMMA ConnectionsAlone ==
  ASSUME CInv, UNCHANGED <<session, queue, peer>>,
         \A t \in Threads : /\ pc'[t] = "process" <=> pc[t] = "process"
                            /\ pc[t] = "process" => evt'[t] = evt[t] /\ local'[t] = local[t],
         \A c \in Clients : /\ client'[c] = "connected" => client[c] = "connected"
                            /\ client'[c] \in {"connect", "backlog"}
                                 => client[c] \in {"connect", "backlog"}
  PROVE  CInv'
<1>1. SessionsApart' /\ PeersApart' /\ Fresh' /\ LocalInv'
  BY DEF CInv, SessionsApart, PeersApart, Fresh, LocalInv
<1>2. \A e \in Events : Unprocessed(e) => Unprocessed(e)'
  BY DEF Unprocessed, InQueue
<1>3. ConnectedInv'  BY <1>2 DEF CInv, ConnectedInv
<1> QED BY <1>1, <1>3 DEF CInv

\* RegisterAccept and Return: sessions lose references, but never that of a client who
\* waits to be announced.
LEMMA DestroyCInv ==
  ASSUME IInv, CInv, TypeOK', Destroy, NEW t \in Threads, UNCHANGED <<evt, queue>>,
         \A u \in Threads : /\ pc'[u] = "process" <=> pc[u] = "process"
                            /\ pc[u] = "process" => local'[u] = local[u],
         \A e \in Events : \/ session'[e] = session[e]
                           \/ e = evt[t] /\ pc[t] = "register" /\ session'[e] \in Sessions \ Live
  PROVE  CInv' /\ Announced
<1> DEFINE dead == Live \ Live'
<1>1. /\ peer' = [s \in Sessions |-> IF s \in dead THEN None ELSE peer[s]]
      /\ client' = [c \in Clients |-> IF client[c] # "left" /\ \E s \in dead : peer[s] = c
                                        THEN "closed" ELSE client[c]]
  BY DEF Destroy
<1>2. /\ Live \subseteq Sessions /\ dead \subseteq Sessions /\ None \notin Sessions
      /\ \A e \in Events : session[e] # None => session[e] \in Live
      /\ \A e \in Events : session'[e] # None => session'[e] \in Live'
  <2>1. /\ Live \subseteq Sessions
        /\ \A e \in Events : session[e] # None => session[e] \in Live
    BY LiveSessions DEF IInv
  <2>2. \A e \in Events : session'[e] # None => session'[e] \in Live'
    BY DEF Live
  <2> QED BY <2>1, <2>2, AcceptAssumption
<1> HIDE DEF dead
<1>3. \A e \in Events : Unprocessed(e) => session'[e] = session[e]
  <2> SUFFICES ASSUME NEW e \in Events, Unprocessed(e), pc[t] = "register" PROVE e # evt[t]
    OBVIOUS
  <2>1. CASE InQueue(e)  BY <2>1 DEF InQueue, IInv, Places, QueueHolds
  <2>2. CASE \E u \in Threads : evt[u] = e /\ pc[u] = "process"
    <3>1. PICK u \in Threads : evt[u] = e /\ pc[u] = "process"  BY <2>2
    <3>2. u # t  BY <3>1
    <3>3. evt[u] # None  BY <3>1, AcceptAssumption
    <3> QED BY <3>1, <3>2, <3>3 DEF IInv, Places, ThreadsApart
  <2> QED BY <2>1, <2>2 DEF Unprocessed
<1>4. \A e \in Events : Unprocessed(e) /\ session[e] \in Sessions => session[e] \notin dead
  BY <1>2, <1>3 DEF dead
<1>5. \A e \in Events : Unprocessed(e) => Unprocessed(e)'
  BY DEF Unprocessed, InQueue
<1>6. SessionsApart'
  <2> SUFFICES ASSUME NEW d \in Events, NEW e \in Events, d # e, session'[d] # None
               PROVE  session'[d] # session'[e]
    BY DEF SessionsApart
  <2>1. CASE session'[d] = session[d] /\ session'[e] = session[e]
    BY <2>1 DEF CInv, SessionsApart
  <2>2. CASE d = evt[t] /\ session'[d] \in Sessions \ Live
    <3>1. session'[e] = session[e]  BY <2>2
    <3> QED BY <2>2, <3>1, <1>2
  <2>3. CASE e = evt[t] /\ session'[e] \in Sessions \ Live
    <3>1. session'[d] = session[d]  BY <2>3
    <3> QED BY <2>3, <3>1, <1>2
  <2> QED BY <2>1, <2>2, <2>3
<1>7. PeersApart' /\ Fresh'
  <2>1. \A s \in Sessions : peer'[s] = None \/ peer'[s] = peer[s]  BY <1>1
  <2>2. PeersApart'  BY <2>1 DEF CInv, PeersApart
  <2>3. \A c \in Clients : client'[c] \in {"connect", "backlog"} => client'[c] = client[c]
    BY <1>1
  <2>4. \A c \in Clients : c # None  BY AcceptAssumption
  <2> QED BY <2>1, <2>2, <2>3, <2>4 DEF CInv, Fresh
<1>8. LocalInv'
  <2> SUFFICES ASSUME NEW u \in Threads, pc'[u] = "process"
               PROVE  local'[u] = session'[evt[u]]
    BY DEF LocalInv
  <2>1. pc[u] = "process" /\ local'[u] = session[evt[u]]  BY DEF CInv, LocalInv
  <2>2. evt[u] \in Events  BY <2>1 DEF IInv, TypeOK, HandInv, Busy
  <2>3. Unprocessed(evt[u])  BY <2>1 DEF Unprocessed
  <2> QED BY <2>1, <2>2, <2>3, <1>3
<1>9. ConnectedInv'
  <2> SUFFICES ASSUME NEW c \in Clients, client'[c] = "connected"
               PROVE  \E e \in Events : /\ session'[e] \in Sessions /\ peer'[session'[e]] = c
                                        /\ Unprocessed(e)'
    BY DEF ConnectedInv
  <2>1. client[c] = "connected"  BY <1>1
  <2>2. PICK e \in Events : session[e] \in Sessions /\ peer[session[e]] = c /\ Unprocessed(e)
    BY <2>1 DEF CInv, ConnectedInv
  <2> QED BY <2>2, <1>1, <1>3, <1>4, <1>5
<1>10. Announced
  <2> SUFFICES ASSUME NEW c \in Clients, client'[c] = "closed", client[c] # "closed"
               PROVE  client[c] \in {"greeted", "refused"}
    BY DEF Announced
  <2>1. PICK s \in dead : peer[s] = c /\ client[c] # "left"  BY <1>1
  <2>2. s \in Sessions  BY <1>2, <2>1
  <2>3. client[c] \notin {"connect", "backlog"}  BY <2>1, <2>2 DEF CInv, Fresh
  <2>4. client[c] # "connected"
    <3> SUFFICES ASSUME client[c] = "connected" PROVE FALSE  OBVIOUS
    <3>1. PICK e \in Events : session[e] \in Sessions /\ peer[session[e]] = c /\ Unprocessed(e)
      BY DEF CInv, ConnectedInv
    <3>2. c # None  BY AcceptAssumption
    <3>3. session[e] = s  BY <2>1, <2>2, <3>1, <3>2 DEF CInv, PeersApart
    <3> QED BY <3>1, <3>3, <1>4
  <2>5. client[c] \in States  BY DEF IInv, TypeOK, States
  <2> QED BY <2>1, <2>3, <2>4, <2>5 DEF States
<1> QED BY <1>6, <1>7, <1>8, <1>9, <1>10 DEF CInv

LEMMA ThreadCInv ==
  ASSUME IInv, CInv, TypeOK', NEW t \in Threads, ThreadStep(t)
  PROVE  CInv' /\ Announced
<1>1. pc \in [Threads -> Labels] /\ evt \in [Threads -> Events \cup {None}]
  BY DEF IInv, TypeOK, Labels
<1>2. CASE RegisterAccept(t)
  <2>1. Destroy /\ UNCHANGED <<evt, queue, local>> /\ pc[t] = "register"
    BY <1>2 DEF RegisterAccept
  <2>2. pc' = [pc EXCEPT ![t] = "AcceptEx"]  BY <1>2 DEF RegisterAccept, Goto
  <2>3. \A e \in Events : \/ session'[e] = session[e]
                          \/ e = evt[t] /\ session'[e] \in Sessions \ Live
    <3>1. session' = [session EXCEPT ![evt[t]] = NewSocket]  BY <1>2 DEF RegisterAccept
    <3>2. NewSocket \in Sessions \ Live  BY <1>2, NewSocketFree DEF RegisterAccept, FreeSockets
    <3>3. session \in [Events -> Sessions \cup {None}]  BY DEF IInv, TypeOK
    <3> QED BY <3>1, <3>2, <3>3
  <2> QED BY <1>1, <2>1, <2>2, <2>3, DestroyCInv
<1>3. CASE Return(t)
  <2>1. /\ Destroy /\ UNCHANGED <<session, evt, queue>> /\ pc[t] = "return"
        /\ local' = [local EXCEPT ![t] = None]
        /\ pc' = [pc EXCEPT ![t] = IF t = Main THEN "create" ELSE "wait"]
    BY <1>3 DEF Return, Goto
  <2>2. local \in [Threads -> Sessions \cup {None}]  BY DEF IInv, TypeOK
  <2>3. \A u \in Threads : /\ pc'[u] = "process" <=> pc[u] = "process"
                           /\ pc[u] = "process" => local'[u] = local[u]
    BY <1>1, <2>1, <2>2
  <2> QED BY <2>1, <2>3, DestroyCInv
<1>4. CASE AcceptEx(t) \/ AcceptExFails(t)
  <2>1. /\ pc[t] = "AcceptEx" /\ UNCHANGED <<session, queue, peer, client, local>>
        /\ pc' = [pc EXCEPT ![t] = "return"] \/ pc' = [pc EXCEPT ![t] = "register"]
        /\ evt' = evt \/ evt' = [evt EXCEPT ![t] = None]
    BY <1>4 DEF AcceptEx, AcceptExFails, Goto
  <2>2. \A u \in Threads : /\ pc'[u] = "process" <=> pc[u] = "process"
                           /\ pc[u] = "process" => evt'[u] = evt[u] /\ local'[u] = local[u]
    BY <1>1, <2>1
  <2>3. CInv'  BY <2>1, <2>2, ConnectionsAlone
  <2>4. Announced  BY <2>1 DEF Announced
  <2> QED BY <2>3, <2>4
<1>5. CASE CreateSessionFails(t)
  <2>1. UNCHANGED <<session, queue, peer, local, evt, pc>>  BY <1>5 DEF CreateSessionFails
  <2>2. PICK cause \in {"no socket", "Register"} : End(cause)
    BY <1>5 DEF CreateSessionFails
  <2>3. CInv'  BY <2>1, <2>2, EndType, ConnectionsAlone DEF IInv
  <2>4. ~Running'  BY <2>2, EndType DEF IInv, Running
  <2> QED BY <2>3, <2>4 DEF Announced
<1> QED BY <1>2, <1>3, <1>4, <1>5 DEF ThreadStep

LEMMA MainCInv ==
  ASSUME IInv, CInv,
         \/ NewIocpCore \/ NewIocpCoreFails \/ StartAccept \/ StartFails
         \/ NewAcceptEvent \/ Launch
  PROVE  CInv' /\ Announced
<1>1. pc \in [Threads -> Labels] /\ evt \in [Threads -> Events \cup {None}] /\ Main \in Threads
  BY DEF IInv, TypeOK, Labels, Threads
<1>2. UNCHANGED <<session, queue, peer, client, local>>
  BY DEF NewIocpCore, NewIocpCoreFails, StartAccept, StartFails, NewAcceptEvent, Launch
<1>3. \A u \in Threads : /\ pc'[u] = "process" <=> pc[u] = "process"
                         /\ pc[u] = "process" => evt'[u] = evt[u]
  <2>1. CASE Launch
    <3>1. PICK w \in Workers : pc[w] = "unborn" /\ pc' = [pc EXCEPT ![w] = "wait"]
      BY <2>1 DEF Launch, Goto
    <3>2. evt' = evt  BY <2>1 DEF Launch
    <3> QED BY <1>1, <3>1, <3>2
  <2>2. CASE NewAcceptEvent
    <3>1. /\ pc[Main] = "create" /\ pc' = [pc EXCEPT ![Main] = "register"]
          /\ \E e \in Events \cup {CHOOSE e \in Events : e \notin acceptEvents} :
               evt' = [evt EXCEPT ![Main] = e]
      BY <2>2 DEF NewAcceptEvent, Goto
    <3> QED BY <1>1, <3>1
  <2>3. CASE NewIocpCore \/ NewIocpCoreFails \/ StartAccept \/ StartFails
    <3>1. /\ evt' = evt
          /\ \/ pc' = pc
             \/ /\ pc[Main] \in {"core", "start"}
                /\ \E l \in {"start", "create"} : pc' = [pc EXCEPT ![Main] = l]
      BY <2>3 DEF NewIocpCore, NewIocpCoreFails, StartAccept, StartFails, Goto
    <3> QED BY <1>1, <3>1
  <2> QED BY <2>1, <2>2, <2>3
<1>4. CInv'  BY <1>2, <1>3, ConnectionsAlone
<1>5. Announced  BY <1>2 DEF Announced
<1> QED BY <1>4, <1>5

LEMMA ClientCInv ==
  ASSUME IInv, CInv, NEW c \in Clients, Connect(c) \/ SendFails(c) \/ Leave(c)
  PROVE  CInv' /\ Announced
<1>1. client \in [Clients -> States]  BY DEF IInv, TypeOK, States
<1>2. /\ UNCHANGED <<session, queue, peer, local, evt, pc>>
      /\ \/ client[c] = "connect" /\ client' = [client EXCEPT ![c] = "backlog"]
         \/ client' = [client EXCEPT ![c] = "left"]
  BY DEF Connect, SendFails, Leave
<1>3. \A d \in Clients : /\ client'[d] = "connected" => client[d] = "connected"
                         /\ client'[d] \in {"connect", "backlog"}
                              => client[d] \in {"connect", "backlog"}
                         /\ client'[d] = "closed" => client[d] = "closed"
  BY <1>1, <1>2
<1>4. CInv'  BY <1>2, <1>3, ConnectionsAlone
<1>5. Announced  BY <1>3 DEF Announced
<1> QED BY <1>4, <1>5

LEMMA DispatchCInv == ASSUME IInv, CInv, NEW w \in Workers, Dispatch(w) PROVE CInv' /\ Announced
<1> DEFINE e == Head(queue)
<1>1. /\ pc[w] = "wait" /\ pc' = [pc EXCEPT ![w] = "process"] /\ queue # <<>>
      /\ evt' = [evt EXCEPT ![w] = e] /\ queue' = Tail(queue)
      /\ local' = [local EXCEPT ![w] = session[e]]
      /\ UNCHANGED <<session, peer, client>>
  BY DEF Dispatch, Deliver, Goto
<1>2. /\ pc \in [Threads -> Labels] /\ evt \in [Threads -> Events \cup {None}] /\ w \in Threads
      /\ queue \in Seq(Events) /\ local \in [Threads -> Sessions \cup {None}]
  BY DEF IInv, TypeOK, Labels, Threads
<1>3. /\ Len(queue) \in Nat /\ e = queue[1] /\ Len(queue') = Len(queue) - 1
      /\ \A i \in 1..Len(queue') : queue'[i] = queue[i + 1]
  BY <1>1, <1>2
<1> HIDE DEF e
<1>4. /\ evt'[w] = e /\ pc'[w] = "process" /\ local'[w] = session[e]
      /\ \A u \in Threads \ {w} : evt'[u] = evt[u] /\ pc'[u] = pc[u] /\ local'[u] = local[u]
  BY <1>1, <1>2
<1>5. \A d \in Events : Unprocessed(d) => Unprocessed(d)'
  <2> SUFFICES ASSUME NEW d \in Events, Unprocessed(d), d # e PROVE Unprocessed(d)'
    BY <1>2, <1>4 DEF Unprocessed
  <2>1. CASE InQueue(d)
    <3>1. PICK i \in 1..Len(queue) : queue[i] = d  BY <2>1 DEF InQueue
    <3>2. i # 1  BY <3>1, <1>3
    <3>3. i - 1 \in 1..Len(queue') /\ (i - 1) + 1 = i  BY <3>1, <3>2, <1>3
    <3>4. queue'[i - 1] = d  BY <3>1, <3>3, <1>3
    <3> QED BY <3>3, <3>4 DEF Unprocessed, InQueue
  <2>2. CASE \E t \in Threads : evt[t] = d /\ pc[t] = "process"
    <3>1. PICK t \in Threads : evt[t] = d /\ pc[t] = "process"  BY <2>2
    <3>2. t # w  BY <3>1, <1>1
    <3> QED BY <3>1, <3>2, <1>4 DEF Unprocessed
  <2> QED BY <2>1, <2>2 DEF Unprocessed
<1>6. SessionsApart' /\ PeersApart' /\ Fresh'
  BY <1>1 DEF CInv, SessionsApart, PeersApart, Fresh
<1>7. LocalInv'  BY <1>1, <1>4 DEF CInv, LocalInv
<1>8. ConnectedInv'  BY <1>1, <1>5 DEF CInv, ConnectedInv
<1>9. Announced  BY <1>1 DEF Announced
<1> QED BY <1>6, <1>7, <1>8, <1>9 DEF CInv

LEMMA WorkerCInv ==
  ASSUME IInv, CInv, NEW w \in Workers,
         DispatchNull(w) \/ ProcessAccept(w) \/ ProcessAcceptFails(w)
  PROVE  CInv' /\ Announced
<1>1. /\ pc \in [Threads -> Labels] /\ w \in Threads /\ client \in [Clients -> States]
      /\ evt \in [Threads -> Events \cup {None}]
  BY DEF IInv, TypeOK, Labels, States, Threads
<1>2. CASE DispatchNull(w)
  <2>1. UNCHANGED <<session, queue, peer, local, evt, pc>> /\ End("null event")
    BY <1>2 DEF DispatchNull
  <2>2. CInv'  BY <2>1, EndType, ConnectionsAlone DEF IInv
  <2>3. crash' = "null event"  BY <2>1, EndType DEF IInv
  <2> QED BY <2>2, <2>3 DEF Announced, Running
<1>3. CASE ProcessAccept(w) \/ ProcessAcceptFails(w)
  <2>1. /\ pc[w] = "process" /\ pc' = [pc EXCEPT ![w] = "register"]
        /\ UNCHANGED <<session, queue, peer, local, evt>>
    BY <1>3 DEF ProcessAccept, ProcessAcceptFails, Goto
  <2>2. \A d \in Clients : /\ client'[d] = client[d] \/ client'[d] \in {"greeted", "refused"}
                           /\ client'[d] = "connected" => peer[local[w]] # d
    <3>1. CASE ProcessAccept(w)
      <4>1. client' = [client EXCEPT ![peer[local[w]]] = IF @ = "left" THEN @ ELSE "greeted"]
        BY <3>1 DEF ProcessAccept
      <4> QED BY <1>1, <4>1
    <3>2. CASE ProcessAcceptFails(w)
      <4>1. client' = [c \in Clients |-> IF peer[local[w]] = c /\ client[c] # "left"
                                            THEN "refused" ELSE client[c]]
        BY <3>2 DEF ProcessAcceptFails, Refuse
      <4> QED BY <1>1, <4>1
    <3> QED BY <1>3, <3>1, <3>2
  <2>3. SessionsApart' /\ PeersApart' /\ Fresh'
    BY <2>1, <2>2 DEF CInv, SessionsApart, PeersApart, Fresh
  <2>4. LocalInv'  BY <1>1, <2>1 DEF CInv, LocalInv
  <2>5. ConnectedInv'
    <3> SUFFICES ASSUME NEW c \in Clients, client'[c] = "connected"
                 PROVE  \E e \in Events : /\ session[e] \in Sessions /\ peer[session[e]] = c
                                          /\ Unprocessed(e)'
      BY <2>1 DEF ConnectedInv
    <3>1. client[c] = "connected" /\ peer[local[w]] # c  BY <2>2
    <3>2. PICK e \in Events : session[e] \in Sessions /\ peer[session[e]] = c /\ Unprocessed(e)
      BY <3>1 DEF CInv, ConnectedInv
    <3>3. evt[w] # e  BY <1>1, <2>1, <3>1, <3>2 DEF CInv, LocalInv
    <3>4. Unprocessed(e)'
      <4>1. CASE InQueue(e)  BY <4>1, <2>1 DEF Unprocessed, InQueue
      <4>2. CASE \E u \in Threads : evt[u] = e /\ pc[u] = "process"
        <5>1. PICK u \in Threads : evt[u] = e /\ pc[u] = "process"  BY <4>2
        <5>2. u # w /\ pc'[u] = pc[u]  BY <5>1, <3>3, <1>1, <2>1
        <5> QED BY <5>1, <5>2, <2>1 DEF Unprocessed
      <4> QED BY <3>2, <4>1, <4>2 DEF Unprocessed
    <3> QED BY <3>2, <3>4
  <2>6. Announced  BY <2>2 DEF Announced
  <2> QED BY <2>3, <2>4, <2>5, <2>6 DEF CInv
<1> QED BY <1>2, <1>3

LEMMA SystemCInv ==
  ASSUME IInv, CInv, NEW e \in Events, Abort(e) \/ \E c \in Clients : Complete(e, c)
  PROVE  CInv' /\ Announced
<1>1. /\ pending[e] # None /\ queue' = Append(queue, e)
      /\ UNCHANGED <<pc, session, evt, local>>
  BY DEF Abort, Complete
<1>2. /\ queue \in Seq(Events) /\ peer \in [Sessions -> Clients \cup {None}]
      /\ client \in [Clients -> States] /\ pending[e] \in Sessions /\ None \notin Events
  BY <1>1, AcceptAssumption DEF IInv, TypeOK, States
<1>3. Len(queue') = Len(queue) + 1 /\ queue'[Len(queue) + 1] = e /\ Len(queue) \in Nat
      /\ \A i \in 1..Len(queue) : queue'[i] = queue[i]
  BY <1>1, <1>2
<1>4. \A d \in Events : Unprocessed(d) => Unprocessed(d)'
  BY <1>1, <1>3 DEF Unprocessed, InQueue
<1>5. SessionsApart' /\ LocalInv'  BY <1>1 DEF CInv, SessionsApart, LocalInv
<1>6. CASE Abort(e)
  <2>1. UNCHANGED <<peer, client>>  BY <1>6 DEF Abort
  <2>2. PeersApart' /\ Fresh'  BY <2>1 DEF CInv, PeersApart, Fresh
  <2>3. ConnectedInv'  BY <1>1, <1>4, <2>1 DEF CInv, ConnectedInv
  <2>4. Announced  BY <2>1 DEF Announced
  <2> QED BY <1>5, <2>2, <2>3, <2>4 DEF CInv
<1>7. ASSUME NEW c \in Clients, Complete(e, c) PROVE CInv' /\ Announced
  <2> DEFINE s == session[e]
  <2>1. s = pending[e]  BY <1>1 DEF IInv, PendingKept
  <2>2. /\ s \in Sessions /\ client[c] = "backlog" /\ peer' = [peer EXCEPT ![s] = c]
        /\ client' = [client EXCEPT ![c] = "connected"]
    BY <1>2, <1>7, <2>1 DEF Complete
  <2> HIDE DEF s
  <2>3. /\ peer'[s] = c /\ \A r \in Sessions \ {s} : peer'[r] = peer[r] /\ peer[r] # c
        /\ client'[c] = "connected" /\ \A d \in Clients \ {c} : client'[d] = client[d]
    BY <1>2, <2>2 DEF CInv, Fresh
  <2>4. PeersApart'  BY <2>2, <2>3 DEF CInv, PeersApart
  <2>5. Fresh'  BY <2>2, <2>3 DEF CInv, Fresh
  <2>6. ~Unprocessed(e)
    BY <1>1, <1>2 DEF Unprocessed, InQueue, IInv, Places, QueueHolds, ThreadHolds
  <2>7. ConnectedInv'
    <3> SUFFICES ASSUME NEW d \in Clients, client'[d] = "connected"
                 PROVE  \E f \in Events : /\ session[f] \in Sessions /\ peer'[session[f]] = d
                                          /\ Unprocessed(f)'
      BY <1>1 DEF ConnectedInv
    <3>1. CASE d = c
      <4>1. Unprocessed(e)'  BY <1>3 DEF Unprocessed, InQueue
      <4> QED BY <3>1, <4>1, <2>2, <2>3 DEF s
    <3>2. CASE d # c
      <4>1. PICK f \in Events : session[f] \in Sessions /\ peer[session[f]] = d /\ Unprocessed(f)
        BY <3>2, <2>3 DEF CInv, ConnectedInv
      <4>2. f # e  BY <4>1, <2>6
      <4>3. session[f] # s
        BY <4>1, <4>2, <2>2, AcceptAssumption DEF CInv, SessionsApart, s
      <4> QED BY <4>1, <4>3, <1>4, <2>3
    <3> QED BY <3>1, <3>2
  <2>8. Announced  BY <2>3 DEF Announced
  <2> QED BY <1>5, <2>4, <2>5, <2>7, <2>8 DEF CInv
<1> QED BY <1>6, <1>7

LEMMA NextCInv == IInv /\ IInv' /\ CInv /\ [Next]_vars => CInv' /\ Announced
<1> SUFFICES ASSUME IInv, IInv', CInv, [Next]_vars PROVE CInv' /\ Announced  OBVIOUS
<1>1. CASE UNCHANGED vars
  <2>1. CInv'  BY <1>1, ConnectionsAlone DEF vars
  <2>2. Announced  BY <1>1 DEF vars, Announced
  <2> QED BY <2>1, <2>2
<1>2. CASE \E t \in Threads : ThreadStep(t)  BY <1>2, ThreadCInv DEF IInv
<1>3. CASE MainStep
  <2>1. Main \in Threads  BY DEF Threads
  <2> QED BY <1>2, <1>3, <2>1, MainCInv DEF MainStep
<1>4. CASE \E w \in Workers : WorkerStep(w)
  <2>1. Workers \subseteq Threads  BY DEF Threads
  <2> QED BY <1>2, <1>4, <2>1, DispatchCInv, WorkerCInv DEF WorkerStep
<1>5. CASE \E c \in Clients : Connect(c) \/ SendFails(c) \/ Leave(c)  BY <1>5, ClientCInv
<1>6. CASE \E e \in Events : Abort(e) \/ \E c \in Clients : Complete(e, c)
  BY <1>6, SystemCInv
<1>7. CASE Quiet  BY <1>1, <1>7 DEF Quiet
<1> QED BY <1>1, <1>3, <1>4, <1>5, <1>6, <1>7 DEF Next

LEMMA ConnectionsInductive == Spec => []CInv
<1>1. CInv /\ IInv /\ IInv' /\ [Next]_vars => CInv'  BY NextCInv
<1> QED BY <1>1, InitCInv, Inductive, PTL DEF Spec

\* As long as the process runs the connections it closes are announced ones and those on
\* which SetUpdateAcceptSocket or getpeername failed, for any number of events, workers,
\* clients and failures (Listener.cpp:92-166): a session that waits to be processed, or is
\* being processed by another worker, keeps its socket.
THEOREM NeverSilent == Spec => NoSilentClose
<1>1. IInv /\ IInv' /\ CInv /\ [Next]_vars
        => [\A c \in Clients : Running' /\ client'[c] = "closed" /\ client[c] # "closed"
                                 => client[c] \in {"greeted", "refused"}]_vars
  BY NextCInv DEF Announced
<1> QED BY <1>1, Inductive, ConnectionsInductive, PTL DEF Spec, NoSilentClose

LEMMA OneSession == IInv /\ CInv => OneSessionPerClient
<1> SUFFICES ASSUME IInv, CInv, NEW c \in Clients, client[c] = "connected"
             PROVE  /\ Cardinality({s \in Live : peer[s] = c}) = 1
                    /\ Cardinality({e \in Events : session[e] \in Live /\ peer[session[e]] = c}) = 1
  BY DEF OneSessionPerClient
<1>1. PICK e \in Events : session[e] \in Sessions /\ peer[session[e]] = c
  BY DEF CInv, ConnectedInv
<1>2. Live \subseteq Sessions /\ session[e] \in Live /\ c # None /\ None \notin Sessions
  BY <1>1, LiveSessions, AcceptAssumption DEF IInv
<1>3. {s \in Live : peer[s] = c} = {session[e]}
  BY <1>1, <1>2 DEF CInv, PeersApart
<1>4. \A d \in Events : session[d] \in Live /\ peer[session[d]] = c => d = e
  BY <1>1, <1>2 DEF CInv, PeersApart, SessionsApart
<1>5. {d \in Events : session[d] \in Live /\ peer[session[d]] = c} = {e}
  BY <1>1, <1>2, <1>4
<1> QED BY <1>3, <1>5, FS_Singleton

\* A client that waits to be announced has one session, which one event refers to
\* (Listener.cpp:92-166).
THEOREM OwnSession == Spec => []OneSessionPerClient
BY OneSession, Inductive, ConnectionsInductive, PTL

-----------------------------------------------------------------------------
(* Sockets.  SInv accounts for the sessions that are alive and are not that *)
(* of an event: each of them is held by a call of ProcessAccept, or by an   *)
(* activation of RegisterAccept, of which there is one per call and one     *)
(* more per failure.                                                        *)

\* The activations of RegisterAccept that have called themselves.
Retried(t) ==
  {i \in 1..Len(frames[t]) : pc[t] \in {"AcceptEx", "return"} => i # Len(frames[t])}
Surplus == UNION {{t} \X Retried(t) : t \in Threads}

SurplusInv == IsFiniteSet(Surplus) /\ Cardinality(Surplus) <= faults

\* A thread has sessions in a call only, main none of ProcessAccept; the newest one,
\* before AcceptEx, is that of the event.
Holds(t) ==
  /\ pc[t] \notin {"register", "AcceptEx", "return"} => frames[t] = <<>>
  /\ t = Main \/ pc[t] \notin {"process", "register", "AcceptEx", "return"} => local[t] = None
  /\ pc[t] = "register" =>
       IF frames[t] = <<>> THEN local[t] \in {None, session[evt[t]]}
                           ELSE session[evt[t]] = frames[t][Len(frames[t])]
CallInv == \A t \in Threads : Holds(t)

\* main calls RegisterAccept only before there are workers.
StartInv ==
  (\E w \in Workers : pc[w] # "unborn") => pc[Main] = "create" /\ acceptEvents = Events

SInv == SurplusInv /\ CallInv /\ StartInv

LEMMA InitSInv == Init => SInv
<1> SUFFICES ASSUME Init  PROVE SInv  OBVIOUS
<1>0. Main \notin Workers  BY AcceptAssumption
<1>1. SurplusInv
  <2>1. \A t \in Threads : frames[t] = <<>>  BY DEF Init
  <2>2. \A t \in Threads : Retried(t) = {}  BY <2>1 DEF Retried
  <2>3. Surplus = {}  BY <2>2 DEF Surplus
  <2> QED BY <2>3, FS_EmptySet DEF SurplusInv, Init
<1>2. CallInv  BY DEF Init, CallInv, Holds
<1>3. StartInv  BY <1>0 DEF Init, StartInv, Threads
<1> QED BY <1>1, <1>2, <1>3 DEF SInv

LEMMA RetriedSame ==
  ASSUME NEW t, frames'[t] = frames[t],
         pc'[t] \in {"AcceptEx", "return"} <=> pc[t] \in {"AcceptEx", "return"}
  PROVE  Retried(t)' = Retried(t)
BY DEF Retried

LEMMA SurplusKept ==
  ASSUME SurplusInv, faults \in Nat, faults' \in Nat, faults <= faults',
         \A t \in Threads : Retried(t)' \subseteq Retried(t)
  PROVE  SurplusInv'
<1>1. Surplus' \subseteq Surplus  BY DEF Surplus
<1>2. IsFiniteSet(Surplus) /\ Cardinality(Surplus) <= faults  BY DEF SurplusInv
<1>3. IsFiniteSet(Surplus') /\ Cardinality(Surplus') <= Cardinality(Surplus)
  BY <1>1, <1>2, FS_Subset
<1>4. Cardinality(Surplus) \in Nat /\ Cardinality(Surplus') \in Nat
  BY <1>2, <1>3, FS_CardinalityType
<1> QED BY <1>2, <1>3, <1>4 DEF SurplusInv

LEMMA HoldsSame ==
  ASSUME NEW t, Holds(t), pc'[t] = pc[t], frames'[t] = frames[t], local'[t] = local[t],
         pc[t] = "register" => session'[evt'[t]] = session[evt[t]]
  PROVE  Holds(t)'
BY DEF Holds

\* A step that leaves the calls alone.
LEMMA SocketsAlone ==
  ASSUME SInv, faults \in Nat, faults' \in Nat, faults <= faults',
         UNCHANGED <<pc, frames, local, session, evt, acceptEvents>>
  PROVE  SInv'
<1>1. \A t \in Threads : Retried(t)' = Retried(t)  BY DEF Retried
<1>2. SurplusInv'  BY <1>1, SurplusKept DEF SInv
<1>3. CallInv'  BY HoldsSame DEF SInv, CallInv
<1>4. StartInv'  BY DEF SInv, StartInv
<1> QED BY <1>2, <1>3, <1>4 DEF SInv

LEMMA FaultsNat ==
  ASSUME TypeOK, TypeOK'
  PROVE  faults \in Nat /\ faults' \in Nat /\ faults <= MaxFaults /\ MaxFaults \in Nat
<1>1. faults \in 0..MaxFaults /\ faults' \in 0..MaxFaults  BY DEF TypeOK
<1> QED BY <1>1, AcceptAssumption

LEMMA MainSInv ==
  ASSUME IInv, IInv', SInv,
         NewIocpCore \/ NewIocpCoreFails \/ StartAccept \/ NewAcceptEvent \/ Launch
  PROVE  SInv'
<1>0. /\ pc \in [Threads -> Labels] /\ evt \in [Threads -> Events \cup {None}]
      /\ Main \in Threads /\ Main \notin Workers /\ Workers \subseteq Threads
  BY AcceptAssumption DEF IInv, TypeOK, Labels, Threads
<1>1. faults \in Nat /\ faults' \in Nat  BY FaultsNat DEF IInv
<1>2. UNCHANGED <<frames, local, session>> /\ faults <= faults'
  BY <1>1 DEF NewIocpCore, NewIocpCoreFails, StartAccept, NewAcceptEvent, Launch
<1>3. ASSUME NEW m \in {"start", "create", "register"}, pc' = [pc EXCEPT ![Main] = m],
             pc[Main] \in {"core", "start", "create"}, \A w \in Workers : pc[w] = "unborn",
             \A u \in Threads : u # Main => evt'[u] = evt[u]
      PROVE  SInv'
  <2>1. pc'[Main] = m /\ \A u \in Threads : u # Main => pc'[u] = pc[u]  BY <1>0, <1>3
  <2>2. \A u \in Threads : Retried(u)' = Retried(u)  BY <1>2, <1>3, <2>1, RetriedSame
  <2>3. SurplusInv'  BY <1>1, <1>2, <2>2, SurplusKept DEF SInv
  <2>4. Holds(Main)'
    <3>1. Holds(Main)  BY <1>0 DEF SInv, CallInv
    <3>2. frames[Main] = <<>> /\ local[Main] = None  BY <3>1, <1>3 DEF Holds
    <3> QED BY <3>2, <2>1, <1>2 DEF Holds
  <2>5. CallInv'
    <3> SUFFICES ASSUME NEW u \in Threads  PROVE Holds(u)'  BY DEF CallInv
    <3>1. CASE u = Main  BY <3>1, <2>4
    <3>2. CASE u # Main
      <4>1. Holds(u)  BY DEF SInv, CallInv
      <4> QED BY <3>2, <4>1, <1>2, <1>3, <2>1, HoldsSame
    <3> QED BY <3>1, <3>2
  <2>6. StartInv'  BY <1>0, <1>3, <2>1 DEF StartInv
  <2> QED BY <2>3, <2>5, <2>6 DEF SInv
<1>4. CASE NewIocpCore \/ NewIocpCoreFails \/ StartAccept
  <2>1. \A w \in Workers : pc[w] = "unborn"
    BY <1>4 DEF NewIocpCore, NewIocpCoreFails, StartAccept, SInv, StartInv
  <2> QED BY <1>3, <1>4, <2>1 DEF NewIocpCore, NewIocpCoreFails, StartAccept, Goto
<1>5. CASE NewAcceptEvent
  <2>1. \A w \in Workers : pc[w] = "unborn"  BY <1>5 DEF NewAcceptEvent, SInv, StartInv
  <2>2. \A u \in Threads : u # Main => evt'[u] = evt[u]  BY <1>0, <1>5 DEF NewAcceptEvent
  <2> QED BY <1>3, <1>5, <2>1, <2>2 DEF NewAcceptEvent, Goto
<1>6. CASE Launch
  <2>1. PICK w \in Workers : pc[w] = "unborn" /\ pc' = [pc EXCEPT ![w] = "wait"]
    BY <1>6 DEF Launch, Goto
  <2>2. /\ UNCHANGED <<evt, acceptEvents>> /\ pc[Main] = "create" /\ acceptEvents = Events
    BY <1>6 DEF Launch
  <2>3. w \in Threads /\ w # Main /\ pc'[w] = "wait" /\ \A u \in Threads : u # w => pc'[u] = pc[u]
    BY <1>0, <2>1
  <2>4. \A u \in Threads : Retried(u)' = Retried(u)  BY <1>2, <2>1, <2>3, RetriedSame
  <2>5. SurplusInv'  BY <1>1, <1>2, <2>4, SurplusKept DEF SInv
  <2>6. CallInv'
    <3> SUFFICES ASSUME NEW u \in Threads  PROVE Holds(u)'  BY DEF CallInv
    <3>0. Holds(u)  BY DEF SInv, CallInv
    <3>1. CASE u = w  BY <3>0, <3>1, <1>2, <2>1, <2>3 DEF Holds
    <3>2. CASE u # w  BY <3>0, <3>2, <1>2, <2>2, <2>3, HoldsSame
    <3> QED BY <3>1, <3>2
  <2>7. StartInv'  BY <1>0, <2>2, <2>3 DEF StartInv
  <2> QED BY <2>5, <2>6, <2>7 DEF SInv
<1> QED BY <1>4, <1>5, <1>6

\* A step of thread t, which is in a call or in the loop of a worker.
LEMMA ThreadSInv ==
  ASSUME IInv, SInv, NEW t \in Threads, pc[t] # "unborn", t \in Workers \/ pc[t] # "create",
         NEW m \in Labels \ {"unborn"}, pc' = [pc EXCEPT ![t] = m], m # "create" \/ t \notin Workers,
         acceptEvents' = acceptEvents,
         \A u \in Threads : u # t => /\ frames'[u] = frames[u] /\ local'[u] = local[u]
                                     /\ evt'[u] = evt[u]
                                     /\ pc[u] = "register" => session'[evt[u]] = session[evt[u]],
         SurplusInv', Holds(t)'
  PROVE  SInv'
<1>0. pc \in [Threads -> Labels] /\ Main \notin Workers /\ Threads = Workers \cup {Main}
  BY AcceptAssumption DEF IInv, TypeOK, Labels, Threads
<1>1. pc'[t] = m /\ \A u \in Threads : u # t => pc'[u] = pc[u]  BY <1>0
<1>2. CallInv'
  <2> SUFFICES ASSUME NEW u \in Threads  PROVE Holds(u)'  BY DEF CallInv
  <2>1. CASE u = t  BY <2>1
  <2>2. CASE u # t
    <3>1. Holds(u)  BY DEF SInv, CallInv
    <3> QED BY <2>2, <3>1, <1>1, HoldsSame
  <2> QED BY <2>1, <2>2
<1>3. StartInv'  BY <1>0, <1>1 DEF SInv, StartInv
<1> QED BY <1>2, <1>3 DEF SInv

LEMMA RegisterSInv ==
  ASSUME IInv, IInv', SInv, NEW t \in Threads, RegisterAccept(t)
  PROVE  SInv'
<1>0. faults \in Nat /\ faults' \in Nat  BY FaultsNat DEF IInv
<1>1. pc[t] = "register" /\ UNCHANGED <<acceptEvents, local, evt, faults>>  BY DEF RegisterAccept
<1> DEFINE s == NewSocket
           e == evt[t]
<1>2. /\ session' = [session EXCEPT ![e] = s] /\ frames' = [frames EXCEPT ![t] = Append(@, s)]
      /\ pc' = [pc EXCEPT ![t] = "AcceptEx"]
  BY DEF RegisterAccept, Goto
<1>3. s \in Sessions  BY NewSocketFree DEF RegisterAccept, FreeSockets
<1>4. /\ pc \in [Threads -> Labels] /\ evt \in [Threads -> Events \cup {None}]
      /\ session \in [Events -> Sessions \cup {None}] /\ frames \in [Threads -> Seq(Sessions)]
  BY DEF IInv, TypeOK, Labels
<1>5. e \in Events /\ e # None  BY <1>1, <1>4 DEF IInv, HandInv, Busy
<1>6. ASSUME NEW u \in Threads, u # t, pc[u] = "register"
      PROVE  session'[evt[u]] = session[evt[u]]
  <2>1. evt[u] \in Events /\ evt[u] # None  BY <1>6, <1>4 DEF IInv, HandInv, Busy
  <2>2. evt[u] # e  BY <1>5, <1>6 DEF IInv, Places, ThreadsApart
  <2> QED BY <2>1, <2>2, <1>2, <1>4
<1> HIDE DEF s, e
<1>7. frames[t] \in Seq(Sessions)  BY <1>4
<1>8. /\ Len(Append(frames[t], s)) = Len(frames[t]) + 1 /\ Len(frames[t]) \in Nat
  BY <1>3, <1>7, AppendProperties, LenProperties
<1>9. /\ frames'[t] = Append(frames[t], s) /\ pc'[t] = "AcceptEx"
      /\ \A u \in Threads : u # t => frames'[u] = frames[u] /\ pc'[u] = pc[u]
  BY <1>2, <1>4
<1>10. Retried(t)' = Retried(t)
  <2> DEFINE n == Len(frames[t])
             k == Len(frames'[t])
  <2>1. k = n + 1 /\ n \in Nat  BY <1>8, <1>9
  <2>2. Retried(t)' = {i \in 1..k : i # k}  BY <1>9 DEF Retried
  <2>3. Retried(t) = 1..n  BY <1>1 DEF Retried
  <2> HIDE DEF n, k
  <2>4. {i \in 1..k : i # k} = 1..n  BY <2>1
  <2> QED BY <2>2, <2>3, <2>4
<1>11. \A u \in Threads : Retried(u)' = Retried(u)  BY <1>9, <1>10, RetriedSame
<1>12. SurplusInv'  BY <1>0, <1>1, <1>11, SurplusKept DEF SInv
<1>13. Holds(t)'
  <2>1. Holds(t)  BY DEF SInv, CallInv
  <2> QED BY <2>1, <1>1, <1>9 DEF Holds
<1>14. "AcceptEx" \in Labels \ {"unborn"}  BY DEF Labels
<1> QED BY <1>1, <1>2, <1>6, <1>9, <1>12, <1>13, <1>14, ThreadSInv

LEMMA AcceptExSInv ==
  ASSUME IInv, IInv', SInv, NEW t \in Threads, AcceptEx(t) \/ AcceptExFails(t)
  PROVE  SInv'
<1>0. faults \in Nat /\ faults' \in Nat  BY FaultsNat DEF IInv
<1>1. /\ pc \in [Threads -> Labels] /\ evt \in [Threads -> Events \cup {None}]
      /\ frames \in [Threads -> Seq(Sessions)]
  BY DEF IInv, TypeOK, Labels
<1>2. pc[t] = "AcceptEx" /\ UNCHANGED <<acceptEvents, local, session, frames>>
  BY DEF AcceptEx, AcceptExFails
<1>3. Holds(t)  BY DEF SInv, CallInv
<1>4. "return" \in Labels \ {"unborn"} /\ "register" \in Labels \ {"unborn"}  BY DEF Labels
<1>5. CASE AcceptEx(t)
  <2>1. pc' = [pc EXCEPT ![t] = "return"] /\ evt' = [evt EXCEPT ![t] = None] /\ faults' = faults
    BY <1>5 DEF AcceptEx, Goto
  <2>2. pc'[t] = "return" /\ \A u \in Threads : u # t => pc'[u] = pc[u] /\ evt'[u] = evt[u]
    BY <1>1, <2>1
  <2>3. \A u \in Threads : Retried(u)' = Retried(u)  BY <1>2, <2>2, RetriedSame
  <2>4. SurplusInv'  BY <1>0, <2>1, <2>3, SurplusKept DEF SInv
  <2>5. Holds(t)'  BY <1>2, <1>3, <2>2 DEF Holds
  <2> QED BY <1>2, <1>4, <2>1, <2>2, <2>4, <2>5, ThreadSInv
<1>6. CASE AcceptExFails(t)
  <2>1. pc' = [pc EXCEPT ![t] = "register"] /\ evt' = evt /\ faults' = faults + 1
    BY <1>6 DEF AcceptExFails, Goto
  <2>2. pc'[t] = "register" /\ \A u \in Threads : u # t => pc'[u] = pc[u]
    BY <1>1, <2>1
  <2>3. frames[t] # <<>> /\ session[evt[t]] = frames[t][Len(frames[t])]
    BY <1>2 DEF IInv, FrameInv
  <2>4. Holds(t)'  BY <1>2, <1>3, <2>1, <2>2, <2>3 DEF Holds
  <2>5. SurplusInv'
    <3> DEFINE x == <<t, Len(frames[t])>>
    <3>1. \A u \in Threads : u # t => Retried(u)' = Retried(u)  BY <1>2, <2>2, RetriedSame
    <3>2. Retried(t)' \subseteq Retried(t) \cup {Len(frames[t])}  BY <1>2, <2>2 DEF Retried
    <3>3. Surplus' \subseteq Surplus \cup {x}
      <4> SUFFICES ASSUME NEW y \in Surplus', y # x  PROVE y \in Surplus  OBVIOUS
      <4>1. PICK u \in Threads : y \in {u} \X Retried(u)'  BY DEF Surplus
      <4>2. PICK i \in Retried(u)' : y = <<u, i>>  BY <4>1
      <4>3. i \in Retried(u)  BY <4>2, <3>1, <3>2
      <4>4. y \in {u} \X Retried(u)  BY <4>2, <4>3
      <4> QED BY <4>4 DEF Surplus
    <3> HIDE DEF x
    <3>4. IsFiniteSet(Surplus) /\ Cardinality(Surplus) <= faults  BY DEF SInv, SurplusInv
    <3>5. /\ IsFiniteSet(Surplus \cup {x}) /\ Cardinality(Surplus) \in Nat
          /\ Cardinality(Surplus \cup {x}) \in {Cardinality(Surplus), Cardinality(Surplus) + 1}
      BY <3>4, FS_AddElement, FS_CardinalityType
    <3>6. IsFiniteSet(Surplus') /\ Cardinality(Surplus') <= Cardinality(Surplus \cup {x})
      BY <3>3, <3>5, FS_Subset
    <3>7. Cardinality(Surplus') \in Nat  BY <3>6, FS_CardinalityType
    <3>8. Cardinality(Surplus') <= faults'  BY <1>0, <2>1, <3>4, <3>5, <3>6, <3>7
    <3> QED BY <3>6, <3>8 DEF SurplusInv
  <2> QED BY <1>2, <1>4, <2>1, <2>2, <2>4, <2>5, ThreadSInv
<1> QED BY <1>5, <1>6

LEMMA ReturnSInv ==
  ASSUME IInv, IInv', SInv, NEW t \in Threads, Return(t)
  PROVE  SInv'
<1> DEFINE m == IF t = Main THEN "create" ELSE "wait"
<1>0. faults \in Nat /\ faults' \in Nat  BY FaultsNat DEF IInv
<1>1. /\ pc \in [Threads -> Labels] /\ local \in [Threads -> Sessions \cup {None}]
      /\ frames \in [Threads -> Seq(Sessions)] /\ Main \notin Workers
  BY AcceptAssumption DEF IInv, TypeOK, Labels
<1>2. /\ pc[t] = "return" /\ frames' = [frames EXCEPT ![t] = <<>>]
      /\ local' = [local EXCEPT ![t] = None] /\ pc' = [pc EXCEPT ![t] = m]
      /\ UNCHANGED <<acceptEvents, session, evt, faults>>
  BY DEF Return, Goto
<1>3. m \in Labels \ {"unborn"} /\ (m # "create" \/ t \notin Workers)  BY <1>1 DEF Labels
<1>4. m \notin {"register", "AcceptEx", "return"}  OBVIOUS
<1> HIDE DEF m
<1>5. /\ pc'[t] = m /\ frames'[t] = <<>> /\ local'[t] = None
      /\ \A u \in Threads : u # t =>
           pc'[u] = pc[u] /\ frames'[u] = frames[u] /\ local'[u] = local[u]
  BY <1>1, <1>2
<1>6. \A u \in Threads : Retried(u)' \subseteq Retried(u)
  <2> TAKE u \in Threads
  <2>1. CASE u = t
    <3>1. Retried(t)' = {}  BY <1>5 DEF Retried
    <3> QED BY <2>1, <3>1
  <2>2. CASE u # t  BY <2>2, <1>5, RetriedSame
  <2> QED BY <2>1, <2>2
<1>7. SurplusInv'  BY <1>0, <1>2, <1>6, SurplusKept DEF SInv
<1>8. Holds(t)'  BY <1>4, <1>5 DEF Holds
<1> QED BY <1>2, <1>3, <1>5, <1>7, <1>8, ThreadSInv

LEMMA WorkerSInv ==
  ASSUME IInv, IInv', CInv, SInv, NEW w \in Workers,
         Dispatch(w) \/ ProcessAccept(w) \/ ProcessAcceptFails(w)
  PROVE  SInv'
<1>0. faults \in Nat /\ faults' \in Nat  BY FaultsNat DEF IInv
<1>1. /\ pc \in [Threads -> Labels] /\ local \in [Threads -> Sessions \cup {None}]
      /\ evt \in [Threads -> Events \cup {None}]
      /\ Main \notin Workers /\ w \in Threads /\ w # Main
  BY AcceptAssumption DEF IInv, TypeOK, Labels, Threads
<1>2. UNCHANGED <<acceptEvents, session, frames>> /\ faults <= faults'
  <2>1. UNCHANGED <<acceptEvents, session, frames>>
    BY DEF Dispatch, ProcessAccept, ProcessAcceptFails
  <2>2. faults' = faults \/ faults' = faults + 1
    BY Zenon DEF Dispatch, ProcessAccept, ProcessAcceptFails, Refuse
  <2> QED BY <1>0, <2>1, <2>2
<1>3. Holds(w)  BY <1>1 DEF SInv, CallInv
<1>4. "process" \in Labels \ {"unborn"} /\ "register" \in Labels \ {"unborn"}  BY DEF Labels
<1>5. ASSUME NEW m \in {"process", "register"}, pc' = [pc EXCEPT ![w] = m],
             pc[w] \in {"wait", "process"}
      PROVE  /\ SurplusInv' /\ pc'[w] = m /\ frames[w] = <<>>
  <2>1. pc'[w] = m /\ \A u \in Threads : u # w => pc'[u] = pc[u]  BY <1>1, <1>5
  <2>2. \A u \in Threads : Retried(u)' = Retried(u)  BY <1>2, <1>5, <2>1, RetriedSame
  <2>3. SurplusInv'  BY <1>0, <1>2, <2>2, SurplusKept DEF SInv
  <2> QED BY <1>3, <1>5, <2>1, <2>3 DEF Holds
<1>6. CASE Dispatch(w)
  <2>1. /\ pc[w] = "wait" /\ pc' = [pc EXCEPT ![w] = "process"]
        /\ \A u \in Threads : u # w => evt'[u] = evt[u] /\ local'[u] = local[u]
    BY <1>1, <1>6 DEF Dispatch, Deliver, Goto
  <2>2. SurplusInv' /\ pc'[w] = "process" /\ frames[w] = <<>>  BY <1>5, <2>1
  <2>3. Holds(w)'  BY <1>1, <1>2, <2>2 DEF Holds
  <2> QED BY <1>1, <1>2, <1>4, <2>1, <2>2, <2>3, ThreadSInv
<1>7. CASE ProcessAccept(w) \/ ProcessAcceptFails(w)
  <2>1. /\ pc[w] = "process" /\ pc' = [pc EXCEPT ![w] = "register"] /\ UNCHANGED <<evt, local>>
    BY <1>7 DEF ProcessAccept, ProcessAcceptFails, Goto
  <2>2. SurplusInv' /\ pc'[w] = "register" /\ frames[w] = <<>>  BY <1>5, <2>1
  <2>3. local[w] = session[evt[w]]  BY <1>1, <2>1 DEF CInv, LocalInv
  <2>4. Holds(w)'  BY <1>1, <1>2, <2>1, <2>2, <2>3 DEF Holds
  <2> QED BY <1>1, <1>2, <1>4, <2>1, <2>2, <2>4, ThreadSInv
<1> QED BY <1>6, <1>7

LEMMA NextSInv == IInv /\ IInv' /\ CInv /\ SInv /\ [Next]_vars => SInv'
<1> SUFFICES ASSUME IInv, IInv', CInv, SInv, [Next]_vars  PROVE SInv'  OBVIOUS
<1>0. faults \in Nat /\ faults' \in Nat  BY FaultsNat DEF IInv
<1>1. ASSUME UNCHANGED <<pc, frames, local, session, evt, acceptEvents>>, faults <= faults'
      PROVE  SInv'
  BY <1>0, <1>1, SocketsAlone
<1>2. CASE UNCHANGED vars  BY <1>0, <1>1, <1>2 DEF vars
<1>3. ASSUME NEW t \in Threads, ThreadStep(t)  PROVE SInv'
  <2>1. CASE CreateSessionFails(t)
    <3>1. /\ UNCHANGED <<pc, frames, local, session, evt, acceptEvents>>
          /\ faults' = faults \/ faults' = faults + 1
      BY <2>1 DEF CreateSessionFails
    <3> QED BY <1>0, <1>1, <3>1
  <2> QED BY <1>3, <2>1, RegisterSInv, AcceptExSInv, ReturnSInv DEF ThreadStep
<1>4. CASE MainStep
  <2>1. Main \in Threads  BY DEF Threads
  <2>2. CASE StartFails  BY <1>0, <1>1, <2>2 DEF StartFails
  <2> QED BY <1>3, <1>4, <2>1, <2>2, MainSInv DEF MainStep
<1>5. ASSUME NEW w \in Workers, WorkerStep(w)  PROVE SInv'
  <2>1. w \in Threads  BY DEF Threads
  <2>2. CASE DispatchNull(w)
    <3>1. UNCHANGED <<pc, frames, local, session, evt, acceptEvents, faults>>
      BY <2>2 DEF DispatchNull
    <3> QED BY <1>0, <1>1, <3>1
  <2> QED BY <1>3, <1>5, <2>1, <2>2, WorkerSInv DEF WorkerStep
<1>6. ASSUME NEW c \in Clients, Connect(c) \/ SendFails(c) \/ Leave(c)  PROVE SInv'
  BY <1>0, <1>1, <1>6 DEF Connect, SendFails, Leave
<1>7. ASSUME NEW e \in Events, Abort(e) \/ \E c \in Clients : Complete(e, c)  PROVE SInv'
  BY <1>0, <1>1, <1>7 DEF Abort, Complete
<1>8. CASE Quiet  BY <1>2, <1>8 DEF Quiet
<1> QED BY <1>2, <1>4, <1>5, <1>6, <1>7, <1>8 DEF Next

LEMMA SocketsInductive == Spec => []SInv
<1>1. SInv /\ CInv /\ IInv /\ IInv' /\ [Next]_vars => SInv'  BY NextSInv
<1> QED BY <1>1, InitSInv, Inductive, ConnectionsInductive, PTL DEF Spec

LEMMA Image ==
  ASSUME NEW S, IsFiniteSet(S), NEW f, DOMAIN f = S, f = [x \in S |-> f[x]], NEW T,
         \A y \in T : \E x \in S : y = f[x], \A x \in S : f[x] \in T
  PROVE  IsFiniteSet(T) /\ Cardinality(T) <= Cardinality(S) /\ Cardinality(T) \in Nat
<1>1. f \in [S -> T]  OBVIOUS
<1>2. f \in Surjection(S, T)  BY <1>1 DEF Surjection
<1>3. IsFiniteSet(T) /\ Cardinality(T) <= Cardinality(S)  BY <1>2, FS_Surjection
<1> QED BY <1>3, FS_CardinalityType

LEMMA UnionSize ==
  ASSUME NEW S, IsFiniteSet(S), NEW T, IsFiniteSet(T)
  PROVE  /\ IsFiniteSet(S \cup T) /\ Cardinality(S) \in Nat /\ Cardinality(T) \in Nat
         /\ Cardinality(S \cup T) \in Nat
         /\ Cardinality(S \cup T) <= Cardinality(S) + Cardinality(T)
<1>1. /\ IsFiniteSet(S \cup T)
      /\ Cardinality(S \cup T) = Cardinality(S) + Cardinality(T) - Cardinality(S \cap T)
  BY FS_Union
<1>2. IsFiniteSet(S \cap T)  BY FS_Intersection
<1>3. /\ Cardinality(S) \in Nat /\ Cardinality(T) \in Nat /\ Cardinality(S \cup T) \in Nat
      /\ Cardinality(S \cap T) \in Nat
  BY <1>1, <1>2, FS_CardinalityType
<1> QED BY <1>1, <1>3

\* The session a thread in AcceptEx or after it has from its last activation.
TopOf(u) == IF frames[u] = <<>> THEN None ELSE frames[u][Len(frames[u])]

\* When a thread registers, what is alive is in the events, in surplus activations, of
\* whose sessions that of the event stands for the one being processed, or in the calls
\* of the other workers, two in each.
LEMMA LiveAt ==
  ASSUME IInv, SInv, NEW t \in Threads, pc[t] = "register", NEW s \in Live
  PROVE  \/ \E e \in Events : s = session[e]
         \/ \E x \in Surplus : s = IF x = <<t, Len(frames[t])>> THEN local[t] ELSE frames[x[1]][x[2]]
         \/ \E u \in Workers \ {t} : pc[u] # "unborn" /\ (s = local[u] \/ s = TopOf(u))
<1>1. /\ evt \in [Threads -> Events \cup {None}] /\ frames \in [Threads -> Seq(Sessions)]
      /\ evt[t] \in Events
  <2>1. /\ evt \in [Threads -> Events \cup {None}] /\ frames \in [Threads -> Seq(Sessions)]
    BY DEF IInv, TypeOK
  <2> QED BY <2>1 DEF IInv, HandInv, Busy
<1>2. \A u \in Threads : Holds(u)  BY DEF SInv, CallInv
<1>3. Holds(t)  BY <1>2
<1>4. \A u \in Threads : u = t \/ u \in Workers \ {t} \/ (u = Main /\ t # Main)  BY DEF Threads
<1>5. t # Main => pc[Main] = "create"
  <2>1. t # Main => t \in Workers  BY DEF Threads
  <2> QED BY <2>1 DEF SInv, StartInv
<1>6. /\ s # None
      /\ \/ \E e \in Events : s = session[e]
         \/ \E u \in Threads : s = local[u]
         \/ \E u \in Threads : \E i \in 1..Len(frames[u]) : s = frames[u][i]
  BY Zenon DEF Live
<1>7. \A u \in Threads : Len(frames[u]) \in Nat /\ (frames[u] # <<>> => Len(frames[u]) \in 1..Len(frames[u]))
  <2> TAKE u \in Threads
  <2>1. frames[u] \in Seq(Sessions)  BY <1>1
  <2> QED BY <2>1
<1>8. ASSUME NEW u \in Threads, NEW i \in Retried(u)  PROVE <<u, i>> \in Surplus
  <2>1. <<u, i>> \in {u} \X Retried(u)  OBVIOUS
  <2> QED BY <2>1 DEF Surplus
<1>9. CASE \E e \in Events : s = session[e]  BY <1>9
<1>10. ASSUME NEW u \in Threads, s = local[u]
       PROVE  \/ \E e \in Events : s = session[e]
              \/ \E x \in Surplus : s = IF x = <<t, Len(frames[t])>> THEN local[t] ELSE frames[x[1]][x[2]]
              \/ \E v \in Workers \ {t} : pc[v] # "unborn" /\ (s = local[v] \/ s = TopOf(v))
  <2>1. CASE u = t /\ frames[t] = <<>>  BY <2>1, <1>1, <1>3, <1>6, <1>10 DEF Holds
  <2>2. CASE u = t /\ frames[t] # <<>>
    <3>1. Len(frames[t]) \in Retried(t)  BY <2>2, <1>7 DEF Retried
    <3>2. <<t, Len(frames[t])>> \in Surplus  BY <3>1, <1>8
    <3> QED BY <3>2, <2>2, <1>10
  <2>3. CASE u \in Workers \ {t}
    <3>1. pc[u] # "unborn"  BY <1>2, <1>6, <1>10 DEF Holds
    <3> QED BY <2>3, <3>1, <1>10
  <2>4. CASE u = Main /\ t # Main
    <3>1. Holds(Main)  BY <2>4, <1>2
    <3>2. local[Main] = None  BY <3>1 DEF Holds
    <3> QED BY <2>4, <3>2, <1>6, <1>10
  <2> QED BY <2>1, <2>2, <2>3, <2>4, <1>4
<1>11. ASSUME NEW u \in Threads, NEW i \in 1..Len(frames[u]), s = frames[u][i]
       PROVE  \/ \E e \in Events : s = session[e]
              \/ \E x \in Surplus : s = IF x = <<t, Len(frames[t])>> THEN local[t] ELSE frames[x[1]][x[2]]
              \/ \E v \in Workers \ {t} : pc[v] # "unborn" /\ (s = local[v] \/ s = TopOf(v))
  <2>0. frames[u] # <<>>  OBVIOUS
  <2>1. CASE u = t /\ i = Len(frames[t])
    <3>1. s = session[evt[t]]  BY <2>0, <2>1, <1>3, <1>11 DEF Holds
    <3> QED BY <3>1, <1>1
  <2>2. CASE i \in Retried(u) /\ ~(u = t /\ i = Len(frames[t]))
    <3>1. <<u, i>> \in Surplus  BY <2>2, <1>8
    <3>2. <<u, i>> # <<t, Len(frames[t])>> /\ <<u, i>>[1] = u /\ <<u, i>>[2] = i  BY <2>2
    <3> QED BY <3>1, <3>2, <1>11
  <2>3. CASE i \notin Retried(u)
    <3>1. pc[u] \in {"AcceptEx", "return"} /\ i = Len(frames[u])  BY <2>3 DEF Retried
    <3>2. u \in Workers \ {t}  BY <3>1, <1>4, <1>5
    <3>3. s = TopOf(u)  BY <3>1, <2>0, <1>11 DEF TopOf
    <3> QED BY <3>1, <3>2, <3>3
  <2> QED BY <2>1, <2>2, <2>3
<1> QED BY <1>6, <1>9, <1>10, <1>11

\* One socket for each event and each failure, and two for each worker but the last,
\* which needs one.
EnoughSockets ==
  /\ IsFiniteSet(Sessions) /\ IsFiniteSet(Events) /\ IsFiniteSet(Workers) /\ Workers # {}
  /\ Cardinality(Sessions) > Cardinality(Events) + MaxFaults + 2 * (Cardinality(Workers) - 1)

LEMMA SocketLeft ==
  ASSUME EnoughSockets, IInv, SInv, NEW t \in Threads, pc[t] = "register"
  PROVE  FreeSockets # {}
<1> DEFINE O == {u \in Workers \ {t} : pc[u] # "unborn"}
           last == <<t, Len(frames[t])>>
           fa == [e \in Events |-> session[e]]
           fb == [x \in Surplus |-> IF x = last THEN local[t] ELSE frames[x[1]][x[2]]]
           fc == [u \in O |-> local[u]]
           fd == [u \in O |-> TopOf(u)]
           A == {fa[e] : e \in Events}
           B == {fb[x] : x \in Surplus}
           C == {fc[u] : u \in O}
           D == {fd[u] : u \in O}
           w == Cardinality(Workers)
<1>1. IsFiniteSet(O) /\ Cardinality(O) <= w - 1 /\ w \in Nat /\ Cardinality(O) \in Nat
  <2>0. IsFiniteSet(Workers) /\ w \in Nat /\ w # 0
    BY FS_CardinalityType, FS_EmptySet DEF EnoughSockets
  <2>1. CASE t \in Workers
    <3>1. O \subseteq Workers \ {t}  OBVIOUS
    <3> HIDE DEF O
    <3>2. IsFiniteSet(Workers \ {t}) /\ Cardinality(Workers \ {t}) = w - 1
      BY <2>0, <2>1, FS_RemoveElement
    <3>3. IsFiniteSet(O) /\ Cardinality(O) <= w - 1  BY <3>1, <3>2, FS_Subset
    <3> QED BY <2>0, <3>3, FS_CardinalityType
  <2>2. CASE t \notin Workers
    <3>1. t = Main  BY <2>2 DEF Threads
    <3>2. O = {}  BY <3>1 DEF SInv, StartInv
    <3> HIDE DEF O
    <3>3. IsFiniteSet(O) /\ Cardinality(O) = 0  BY <3>2, FS_EmptySet
    <3> QED BY <2>0, <3>3
  <2> QED BY <2>1, <2>2
<1>2. Live \subseteq ((A \cup B) \cup C) \cup D
  <2> SUFFICES ASSUME NEW s \in Live  PROVE s \in ((A \cup B) \cup C) \cup D  OBVIOUS
  <2>1. \/ \E e \in Events : s = session[e]
        \/ \E x \in Surplus : s = IF x = last THEN local[t] ELSE frames[x[1]][x[2]]
        \/ \E u \in Workers \ {t} : pc[u] # "unborn" /\ (s = local[u] \/ s = TopOf(u))
    BY LiveAt
  <2>2. ASSUME NEW e \in Events, s = session[e]  PROVE s \in A  BY <2>2
  <2>3. ASSUME NEW x \in Surplus, s = IF x = last THEN local[t] ELSE frames[x[1]][x[2]]
        PROVE  s \in B
    BY <2>3
  <2>4. ASSUME NEW u \in Workers \ {t}, pc[u] # "unborn", s = local[u] \/ s = TopOf(u)
        PROVE  s \in C \cup D
    <3>1. u \in O  BY <2>4
    <3> HIDE DEF O
    <3>2. fc[u] = local[u] /\ fd[u] = TopOf(u) /\ fc[u] \in C /\ fd[u] \in D  BY <3>1
    <3> QED BY <2>4, <3>2
  <2> QED BY <2>1, <2>2, <2>3, <2>4
<1>3. /\ IsFiniteSet(A) /\ Cardinality(A) <= Cardinality(Events) /\ Cardinality(A) \in Nat
      /\ Cardinality(Events) \in Nat
  <2>1. IsFiniteSet(Events)  BY DEF EnoughSockets
  <2>2. Cardinality(Events) \in Nat  BY <2>1, FS_CardinalityType
  <2>3. DOMAIN fa = Events /\ fa = [x \in Events |-> fa[x]]  OBVIOUS
  <2> HIDE DEF fa
  <2>4. (\A y \in A : \E x \in Events : y = fa[x]) /\ \A x \in Events : fa[x] \in A  OBVIOUS
  <2> HIDE DEF A
  <2> QED BY <2>1, <2>2, <2>3, <2>4, Image
<1>4. /\ IsFiniteSet(B) /\ Cardinality(B) <= MaxFaults /\ Cardinality(B) \in Nat
      /\ MaxFaults \in Nat
  <2>1. IsFiniteSet(Surplus) /\ Cardinality(Surplus) <= faults  BY DEF SInv, SurplusInv
  <2>2. Cardinality(Surplus) \in Nat  BY <2>1, FS_CardinalityType
  <2>3. faults \in Nat /\ faults <= MaxFaults /\ MaxFaults \in Nat
    <3>1. faults \in 0..MaxFaults  BY DEF IInv, TypeOK
    <3> QED BY <3>1, AcceptAssumption
  <2>4. DOMAIN fb = Surplus /\ fb = [x \in Surplus |-> fb[x]]  OBVIOUS
  <2> HIDE DEF fb
  <2>5. (\A y \in B : \E x \in Surplus : y = fb[x]) /\ \A x \in Surplus : fb[x] \in B  OBVIOUS
  <2> HIDE DEF B
  <2>6. IsFiniteSet(B) /\ Cardinality(B) <= Cardinality(Surplus) /\ Cardinality(B) \in Nat
    BY <2>1, <2>4, <2>5, Image
  <2> QED BY <2>1, <2>2, <2>3, <2>6
<1>5. IsFiniteSet(C) /\ Cardinality(C) <= w - 1 /\ Cardinality(C) \in Nat
  <2>1. DOMAIN fc = O /\ fc = [x \in O |-> fc[x]]  OBVIOUS
  <2> HIDE DEF fc
  <2>2. (\A y \in C : \E x \in O : y = fc[x]) /\ \A x \in O : fc[x] \in C  OBVIOUS
  <2> HIDE DEF C, O, w
  <2>3. IsFiniteSet(C) /\ Cardinality(C) <= Cardinality(O) /\ Cardinality(C) \in Nat
    BY <1>1, <2>1, <2>2, Image
  <2> QED BY <1>1, <2>3
<1>6. IsFiniteSet(D) /\ Cardinality(D) <= w - 1 /\ Cardinality(D) \in Nat
  <2>1. DOMAIN fd = O /\ fd = [x \in O |-> fd[x]]  OBVIOUS
  <2> HIDE DEF fd
  <2>2. (\A y \in D : \E x \in O : y = fd[x]) /\ \A x \in O : fd[x] \in D  OBVIOUS
  <2> HIDE DEF D, O, w
  <2>3. IsFiniteSet(D) /\ Cardinality(D) <= Cardinality(O) /\ Cardinality(D) \in Nat
    BY <1>1, <2>1, <2>2, Image
  <2> QED BY <1>1, <2>3
<1> HIDE DEF O, A, B, C, D, w, last, fa, fb, fc, fd
<1> DEFINE AB == A \cup B
           ABC == AB \cup C
           all == ABC \cup D
<1>7. IsFiniteSet(AB) /\ Cardinality(AB) \in Nat /\ Cardinality(AB) <= Cardinality(A) + Cardinality(B)
  BY <1>3, <1>4, UnionSize
<1> HIDE DEF AB
<1>8. IsFiniteSet(ABC) /\ Cardinality(ABC) \in Nat /\ Cardinality(ABC) <= Cardinality(AB) + Cardinality(C)
  BY <1>5, <1>7, UnionSize
<1> HIDE DEF ABC
<1>9. IsFiniteSet(all) /\ Cardinality(all) \in Nat /\ Cardinality(all) <= Cardinality(ABC) + Cardinality(D)
  BY <1>6, <1>8, UnionSize
<1>10. Live \subseteq all  BY <1>2 DEF AB, ABC
<1> HIDE DEF all
<1>11. Cardinality(all) <= Cardinality(Events) + MaxFaults + 2 * (w - 1)
  BY <1>1, <1>3, <1>4, <1>5, <1>6, <1>7, <1>8, <1>9
<1>12. Cardinality(Sessions) \in Nat /\ Cardinality(Sessions) > Cardinality(Events) + MaxFaults + 2 * (w - 1)
  BY FS_CardinalityType DEF EnoughSockets, w
<1>13. SUFFICES ASSUME FreeSockets = {}  PROVE FALSE  OBVIOUS
<1>14. Sessions \subseteq all  BY <1>10, <1>13 DEF FreeSockets
<1>15. Cardinality(Sessions) <= Cardinality(all)  BY <1>9, <1>14, FS_Subset
<1> QED BY <1>1, <1>3, <1>4, <1>9, <1>11, <1>12, <1>15

\* RegisterAccept does not run out of sockets if the system has one for each event and
\* each failure and two for each worker but the last, which needs one, however the workers
\* interleave: want of sockets makes no null session (Listener.cpp:92-166).  A Register
\* that fails for a socket still does, and no number of sockets helps.
THEOREM SocketsSuffice == ASSUME EnoughSockets PROVE Spec => []NoSocketShortage
<1>1. Init => NoSocketShortage  BY DEF Init, NoSocketShortage
<1>2. IInv /\ SInv /\ NoSocketShortage /\ [Next]_vars => NoSocketShortage'
  <2> SUFFICES ASSUME IInv, SInv, NoSocketShortage, [Next]_vars  PROVE NoSocketShortage'  OBVIOUS
  <2>1. ASSUME NEW t \in Threads, ThreadStep(t)  PROVE NoSocketShortage'
    <3>1. CASE RegisterAccept(t)
      BY <3>1 DEF RegisterAccept, NoSocketShortage
    <3>2. CASE CreateSessionFails(t)
      <4>1. FreeSockets # {}  BY <3>2, SocketLeft DEF CreateSessionFails
      <4>2. crash' = "Register"  BY <3>2, <4>1, EndType DEF CreateSessionFails, IInv
      <4> QED BY <4>2 DEF NoSocketShortage
    <3>3. CASE AcceptEx(t) \/ AcceptExFails(t) \/ Return(t)
      BY <3>3 DEF AcceptEx, AcceptExFails, Return, NoSocketShortage
    <3> QED BY <2>1, <3>1, <3>2, <3>3 DEF ThreadStep
  <2>2. CASE UNCHANGED vars \/ Quiet  BY <2>2 DEF Quiet, vars, NoSocketShortage
  <2>3. CASE MainStep
    <3>1. Main \in Threads  BY DEF Threads
    <3>2. CASE NewIocpCore \/ NewIocpCoreFails \/ StartAccept \/ StartFails \/ NewAcceptEvent \/ Launch
      BY <3>2 DEF NewIocpCore, NewIocpCoreFails, StartAccept, StartFails, NewAcceptEvent, Launch,
                  NoSocketShortage
    <3> QED BY <2>1, <2>3, <3>1, <3>2 DEF MainStep
  <2>4. ASSUME NEW v \in Workers, WorkerStep(v)  PROVE NoSocketShortage'
    <3>1. v \in Threads  BY DEF Threads
    <3>2. CASE Dispatch(v) \/ DispatchNull(v) \/ ProcessAccept(v) \/ ProcessAcceptFails(v)
      BY <3>2 DEF Dispatch, DispatchNull, End, ProcessAccept, ProcessAcceptFails, NoSocketShortage
    <3> QED BY <2>1, <2>4, <3>1, <3>2 DEF WorkerStep
  <2>5. ASSUME NEW c \in Clients, Connect(c) \/ SendFails(c) \/ Leave(c)  PROVE NoSocketShortage'
    BY <2>5 DEF Connect, SendFails, Leave, NoSocketShortage
  <2>6. ASSUME NEW e \in Events, Abort(e) \/ \E c \in Clients : Complete(e, c)  PROVE NoSocketShortage'
    BY <2>6 DEF Abort, Complete, NoSocketShortage
  <2> QED BY <2>2, <2>3, <2>4, <2>5, <2>6 DEF Next
<1> QED BY <1>1, <1>2, Inductive, SocketsInductive, PTL DEF Spec
=============================================================================
