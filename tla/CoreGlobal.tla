----------------------------- MODULE CoreGlobal -----------------------------
(***************************************************************************)
(* The life of the process (ServerCore/CoreGlobal.cpp): GCoreGlobal's       *)
(* constructor builds the global objects and initialises the socket         *)
(* library before main, and its destructor takes them down after main, with *)
(* the threads of ThreadManager running in between.  The initial state is   *)
(* the one after new ThreadManager().                                       *)
(***************************************************************************)
EXTENDS ThreadManager

VARIABLES
  stage,   \* what GCoreGlobal is doing
  built,   \* how much of Construction has been done
  alive    \* the globals, bound functions and libraries that may be used

globalVars == <<stage, built, alive>>
gvars      == <<vars, globalVars>>

\* What the constructor and SocketUtils::Init add, in their order: the dummy socket of
\* Init serves to find the three functions of the socket library.
Construction ==
  <<"GMemory", "GDeadLockProfiler", "WinSock", "ConnectEx", "DisconnectEx", "AcceptEx">>
Globals == {"GThreadManager"} \cup {Construction[i] : i \in DOMAIN Construction}

GInit ==
  /\ Init
  /\ stage = "constructing"
  /\ built = 0
  /\ alive = {"GThreadManager"}

-----------------------------------------------------------------------------
(* CoreGlobal::CoreGlobal and SocketUtils::Init.                            *)

Construct ==
  /\ stage = "constructing"
  /\ built < Len(Construction)
  /\ built' = built + 1
  /\ alive' = alive \cup {Construction[built + 1]}
  /\ UNCHANGED <<vars, stage>>

\* WSAStartup or BindWindowsFunction fails, the latter also for want of a socket:
\* ASSERT_CRASH.
ConstructFails ==
  /\ stage = "constructing"
  /\ built \in 2..(Len(Construction) - 1)
  /\ stage' = "crashed"
  /\ UNCHANGED <<vars, built, alive>>

EnterMain ==
  /\ stage = "constructing"
  /\ built = Len(Construction)
  /\ stage' = "main"
  /\ UNCHANGED <<vars, built, alive>>

-----------------------------------------------------------------------------
(* main and the threads it launches.                                        *)

\* Main launches and joins as long as main() runs; the other threads need not care.
MayLaunch(u) == stage \in {"main", "destroying"} /\ (u = Main => stage = "main")

LaunchStep(u) ==
  /\ MayLaunch(u)
  /\ \E t \in Threads : Launch(u, t)
  /\ UNCHANGED globalVars

PushStep(u) ==
  /\ MayLaunch(u)
  /\ PushBack(u)
  /\ UNCHANGED globalVars

MainJoins ==
  /\ stage = "main"
  /\ Join
  /\ UNCHANGED globalVars

ThreadStep(t) ==
  /\ InitTLS(t) \/ DestroyTLS(t)
  /\ UNCHANGED globalVars

JoinStep ==
  /\ JoinNext \/ JoinClear
  /\ UNCHANGED globalVars

-----------------------------------------------------------------------------
(* CoreGlobal::~CoreGlobal, after main has returned.                        *)

\* delete GMemory; delete GThreadManager;
BeginDestroy_MemoryFirst ==
  /\ stage = "main"
  /\ Delete
  /\ stage' = "destroying"
  /\ alive' = alive \ {"GMemory"}
  /\ UNCHANGED built

\* delete GThreadManager, whose destructor joins.
BeginDestroy ==
  /\ stage = "main"
  /\ Delete
  /\ stage' = "destroying"
  /\ UNCHANGED <<built, alive>>

\* The deletes that follow, and SocketUtils::Clear.
Destruction == <<"GThreadManager", "GMemory", "GDeadLockProfiler", "WinSock">>
Destroy ==
  /\ stage = "destroying"
  /\ pc[Main] = "deleted"
  /\ \E i \in DOMAIN Destruction :
       /\ Destruction[i] \in alive
       /\ \A j \in 1..(i - 1) : Destruction[j] \notin alive
       /\ alive' = alive \ {Destruction[i]}
       /\ stage' = IF i = Len(Destruction) THEN "exited" ELSE stage
  /\ UNCHANGED <<vars, built>>

Ended == stage \in {"crashed", "exited"} /\ UNCHANGED gvars

GNext ==
  \/ Construct \/ ConstructFails \/ EnterMain
  \/ \E u \in All : LaunchStep(u) \/ PushStep(u)
  \/ MainJoins \/ JoinStep \/ BeginDestroy \/ Destroy
  \/ \E t \in Threads : ThreadStep(t)
  \/ Ended

GSpec == GInit /\ [][GNext]_gvars

\* Threads are scheduled and callbacks return; main may take its time.
GFairSpec ==
  /\ GSpec
  /\ \A t \in Threads : WF_gvars(ThreadStep(t) \/ PushStep(t))
  /\ WF_gvars(JoinStep)

-----------------------------------------------------------------------------
\* Every callback runs, to its very end, with all globals constructed and none
\* destroyed: a worker allocates from GMemory, locks with GDeadLockProfiler and calls
\* the bound functions, and its captured objects go back to GMemory when it ends.
GlobalsOutlive ==
  \A t \in Threads : pc[t] \in {"init", "callback", "launch"} => Globals \subseteq alive
=============================================================================
