--------------------------- MODULE ThreadManager ----------------------------
(***************************************************************************)
(* class ThreadManager (ServerCore/ThreadManager.cpp), from the end of its  *)
(* constructor to the end of its destructor.  Launch holds _lock until the  *)
(* thread it has created is in _threads.  Join does not take the lock, and  *)
(* its range-for ends where the vector ended when the loop began.           *)
(***************************************************************************)
EXTENDS Integers, Sequences, FiniteSets

CONSTANTS
  Threads,       \* the threads that may be launched, each of them once
  Main,          \* the main thread: it launches, joins and deletes the manager
  None,          \* no thread
  IdSpan,        \* 2^32: SThreadId is 32 bits wide
  NestedLaunch   \* whether callbacks call Launch

ASSUME ThreadAssumption ==
  /\ Main \notin Threads /\ None \notin Threads \cup {Main}
  /\ IsFiniteSet(Threads)
  /\ IdSpan \in Nat /\ Cardinality(Threads) + 2 < IdSpan
  /\ NestedLaunch \in BOOLEAN

VARIABLES
  pc,         \* pc[t]: where thread t is
  lock,       \* the thread that holds _lock
  created,    \* the thread it has created and not yet pushed
  threads,    \* _threads
  joined,     \* the threads that have been joined
  toJoin,     \* the threads the loop of Join has not reached
  deleting,   \* whether Join was called by ~ThreadManager
  SThreadId,  \* the next id
  LThreadId,  \* LThreadId[t]: the id of thread t
  crash       \* "none", or what ended the process

launchVars == <<lock, created>>
joinVars   == <<joined, toJoin, deleting>>
idVars     == <<SThreadId, LThreadId>>
vars       == <<pc, threads, launchVars, joinVars, idVars, crash>>

All == Threads \cup {Main}

\* The constructor has run InitTLS for the main thread, which has id 1.
Init ==
  /\ pc = [t \in All |-> IF t = Main THEN "callback" ELSE "none"]
  /\ lock = None /\ created = None
  /\ threads = <<>>
  /\ joined = {} /\ toJoin = <<>> /\ deleting = FALSE
  /\ SThreadId = 2
  /\ LThreadId = [t \in All |-> IF t = Main THEN 1 ELSE 0]
  /\ crash = "none"

Running == crash = "none"

\* Thread u takes the lock and creates thread t, which runs from now on.
Launch(u, t) ==
  /\ Running
  /\ pc[u] = "callback" /\ (u = Main \/ NestedLaunch)
  /\ pc[t] = "none"
  /\ lock = None
  /\ lock' = u /\ created' = t
  /\ pc' = [pc EXCEPT ![u] = "launch", ![t] = "init"]
  /\ UNCHANGED <<threads, joinVars, idVars, crash>>

\* push_back and unlock.  A push_back that moves the vector leaves a Join that is
\* in its loop with an iterator into freed memory.
PushBack(u) ==
  /\ Running
  /\ pc[u] = "launch"
  /\ threads' = Append(threads, created)
  /\ lock' = None /\ created' = None
  /\ pc' = [pc EXCEPT ![u] = "callback"]
  /\ crash' \in IF pc[Main] = "join" THEN {"none", "dangling iterator"} ELSE {"none"}
  /\ UNCHANGED <<joinVars, idVars>>

\* SThreadId read and written in two steps, with another InitTLS between them.
InitTLS_NotAtomic(t) ==
  /\ Running
  /\ pc[t] = "init"
  /\ LThreadId' = [LThreadId EXCEPT ![t] = SThreadId]
  /\ SThreadId' \in {SThreadId, (SThreadId + 1) % IdSpan}
  /\ pc' = [pc EXCEPT ![t] = "callback"]
  /\ UNCHANGED <<threads, launchVars, joinVars, crash>>

\* fetch_sub for fetch_add.
InitTLS_Sub(t) ==
  /\ Running
  /\ pc[t] = "init"
  /\ LThreadId' = [LThreadId EXCEPT ![t] = SThreadId]
  /\ SThreadId' = SThreadId - 1
  /\ pc' = [pc EXCEPT ![t] = "callback"]
  /\ UNCHANGED <<threads, launchVars, joinVars, crash>>

InitTLS(t) ==
  /\ Running
  /\ pc[t] = "init"
  /\ LThreadId' = [LThreadId EXCEPT ![t] = SThreadId]
  /\ SThreadId' = (SThreadId + 1) % IdSpan
  /\ pc' = [pc EXCEPT ![t] = "callback"]
  /\ UNCHANGED <<threads, launchVars, joinVars, crash>>

\* The callback returns; DestroyTLS does nothing.
DestroyTLS(t) ==
  /\ Running
  /\ pc[t] = "callback"
  /\ pc' = [pc EXCEPT ![t] = "done"]
  /\ UNCHANGED <<threads, launchVars, joinVars, idVars, crash>>

\* A loop that leaves the first thread out.
BeginJoin_Short ==
  /\ Running
  /\ pc[Main] = "callback"
  /\ toJoin' = IF threads = <<>> THEN <<>> ELSE Tail(threads)
  /\ pc' = [pc EXCEPT ![Main] = "join"]
  /\ UNCHANGED <<threads, launchVars, joined, idVars, crash>>

BeginJoin ==
  /\ Running
  /\ pc[Main] = "callback"
  /\ toJoin' = threads
  /\ pc' = [pc EXCEPT ![Main] = "join"]
  /\ UNCHANGED <<threads, launchVars, joined, idVars, crash>>

\* Main calls Join, or deletes the manager, whose destructor calls it.
Join   == BeginJoin /\ deleting' = FALSE
Delete == BeginJoin /\ deleting' = TRUE

\* A loop that stays where it is.
JoinNext_Stuck ==
  /\ Running
  /\ pc[Main] = "join"
  /\ toJoin # <<>>
  /\ pc[Head(toJoin)] = "done"
  /\ joined' = joined \cup {Head(toJoin)}
  /\ UNCHANGED <<pc, threads, toJoin, launchVars, deleting, idVars, crash>>

\* An iteration: join() waits for the thread to end.
JoinNext ==
  /\ Running
  /\ pc[Main] = "join"
  /\ toJoin # <<>>
  /\ pc[Head(toJoin)] = "done"
  /\ joined' = joined \cup {Head(toJoin)}
  /\ toJoin' = Tail(toJoin)
  /\ UNCHANGED <<pc, threads, launchVars, deleting, idVars, crash>>

\* clear(): std::terminate if a thread that is destroyed has not been joined.
JoinClear ==
  /\ Running
  /\ pc[Main] = "join"
  /\ toJoin = <<>>
  /\ crash' = IF \E i \in 1..Len(threads) : threads[i] \notin joined
                THEN "terminate" ELSE "none"
  /\ threads' = <<>>
  /\ pc' = [pc EXCEPT ![Main] = IF deleting THEN "deleted" ELSE "callback"]
  /\ UNCHANGED <<launchVars, joinVars, idVars>>

\* The manager is deleted and no thread is left.
Done ==
  /\ pc[Main] = "deleted"
  /\ \A t \in Threads : pc[t] \in {"none", "done"}
  /\ UNCHANGED vars

Next ==
  \/ \E u \in All : PushBack(u) \/ \E t \in Threads : Launch(u, t)
  \/ \E t \in Threads : InitTLS(t) \/ DestroyTLS(t)
  \/ Join \/ Delete \/ JoinNext \/ JoinClear
  \/ Done

Spec == Init /\ [][Next]_vars

-----------------------------------------------------------------------------
TypeOK ==
  /\ pc \in [All -> {"none", "init", "callback", "launch", "done", "join", "deleted"}]
  /\ lock \in All \cup {None}
  /\ created \in Threads \cup {None}
  /\ threads \in Seq(Threads)
  /\ joined \subseteq Threads
  /\ toJoin \in Seq(Threads)
  /\ deleting \in BOOLEAN
  /\ SThreadId \in 1..(IdSpan - 1)
  /\ LThreadId \in [All -> 0..(IdSpan - 1)]
  /\ crash \in {"none", "terminate", "dangling iterator"}

\* A thread has its id, which no other thread has had before, when its callback
\* runs; 0, the id of a thread that InitTLS has not seen, is not given to any.
UniqueIds ==
  \A t \in All : pc[t] \notin {"none", "init"} =>
    /\ LThreadId[t] # 0
    /\ \A u \in All \ {t} : LThreadId[u] # LThreadId[t]

\* Join neither destroys a thread that runs nor goes on in freed memory, and once
\* the manager is deleted every thread has returned from its callback.
JoinSafe ==
  /\ crash = "none"
  /\ pc[Main] = "deleted" => \A t \in Threads : pc[t] \in {"none", "done"}

\* Join returns if the callbacks do.
JoinReturns == pc[Main] = "join" ~> pc[Main] # "join"
=============================================================================
