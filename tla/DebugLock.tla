----------------------------- MODULE DebugLock ------------------------------
(***************************************************************************)
(* The debug build: threads that use several Locks through guards, every    *)
(* guard reporting to the one DeadLockProfiler.                             *)
(*                                                                          *)
(* A guard's constructor calls PushLock and then competes for its Lock; its *)
(* destructor calls PopLock and then releases.  Locks are taken at the      *)
(* level of LockSpec, which Lock implements: a grant or a release is one    *)
(* step.  As the policy of Lock.h:14 asks, no thread asks for a write guard *)
(* of a lock inside its own read guard of that lock.                        *)
(***************************************************************************)
EXTENDS DeadLockProfiler

CONSTANTS
  Threads,   \* the threads
  Locks,     \* the Lock objects
  Name,      \* Name[l]: the name the guards of lock l are constructed with
  MaxNest    \* bound: guards a thread may have alive at once

ASSUME NameAssumption == Name \in [Locks -> Names]
ASSUME NestAssumption == MaxNest \in Nat
ASSUME FiniteAssumption == IsFiniteSet(Threads) /\ IsFiniteSet(Names)

VARIABLES
  held,   \* held[t]: the guards [lock, kind] alive in t, innermost last
  pc,     \* "idle", "wait" (in a constructor), "release" (in a destructor)
          \* or "dead" (it ran CRASH)
  want    \* want[t]: the guard t is constructing, or was when it crashed

vars == <<nameToId, lockStack, lockHistory, crash, held, pc, want>>

GuardSet == [lock : Locks, kind : {"R", "W"}]
NoGuard  == [lock |-> "none", kind |-> "none"]

\* The kinds of the guards of lock l that each thread has, as LockSpec takes them.
Of(l) ==
  [t \in Threads |->
     {held[t][i].kind : i \in {j \in 1..Len(held[t]) : held[t][j].lock = l}}]

\* Only the conditions under which LockSpec grants are used.
L == INSTANCE LockSpec WITH held <- held, crash <- crash

Granted(t, g) ==
  IF g.kind = "W" THEN L!CanWrite(Of(g.lock), t) ELSE L!CanRead(Of(g.lock), t)

Innermost(t) == held[t][Len(held[t])]

Init ==
  /\ ProfilerInit
  /\ crash = "none"
  /\ held = [t \in Threads |-> <<>>]
  /\ pc = [t \in Threads |-> "idle"]
  /\ want = [t \in Threads |-> NoGuard]

\* WriteLock / ReadLock up to the return of PushLock.
Request(t, g) ==
  /\ crash = "none"
  /\ pc[t] = "idle"
  /\ Len(held[t]) < MaxNest
  /\ g.kind = "W" => "R" \notin Of(g.lock)[t]
  /\ PushLock(Name[g.lock])
  /\ pc' = [pc EXCEPT ![t] = IF crash' = "none" THEN "wait" ELSE "dead"]
  /\ want' = [want EXCEPT ![t] = g]
  /\ UNCHANGED held

\* The rest of WriteLock / ReadLock, when the lock is granted.
Acquire(t) ==
  /\ crash = "none"
  /\ pc[t] = "wait"
  /\ Granted(t, want[t])
  /\ held' = [held EXCEPT ![t] = Append(@, want[t])]
  /\ pc' = [pc EXCEPT ![t] = "idle"]
  /\ want' = [want EXCEPT ![t] = NoGuard]
  /\ UNCHANGED <<profilerVars, crash>>

\* WriteLock / ReadLock waited for ACQUIRE_TIMEOUT_TICK.
Timeout(t) ==
  /\ crash = "none"
  /\ pc[t] = "wait"
  /\ ~Granted(t, want[t])
  /\ crash' = "Lock_Timeout"
  /\ pc' = [pc EXCEPT ![t] = "dead"]
  /\ UNCHANGED <<profilerVars, held, want>>

\* WriteUnlock / ReadUnlock up to the return of PopLock.
Unlock(t) ==
  /\ crash = "none"
  /\ pc[t] = "idle"
  /\ held[t] # <<>>
  /\ PopLock(Name[Innermost(t).lock])
  /\ pc' = [pc EXCEPT ![t] = IF crash' = "none" THEN "release" ELSE "dead"]
  /\ UNCHANGED <<held, want>>

\* The rest of WriteUnlock / ReadUnlock.
Release(t) ==
  /\ crash = "none"
  /\ pc[t] = "release"
  /\ held' = [held EXCEPT ![t] = SubSeq(@, 1, Len(@) - 1)]
  /\ pc' = [pc EXCEPT ![t] = "idle"]
  /\ UNCHANGED <<profilerVars, crash, want>>

Crashed == crash # "none" /\ UNCHANGED vars

Next ==
  \/ \E t \in Threads :
       \/ \E g \in GuardSet : Request(t, g)
       \/ Acquire(t)
       \/ Timeout(t)
       \/ Unlock(t)
       \/ Release(t)
  \/ Crashed

Spec == Init /\ [][Next]_vars

-----------------------------------------------------------------------------
\* t waits for a lock that u has and that excludes t.
WaitsFor(t, u) ==
  /\ t # u
  /\ pc[t] = "wait"
  /\ ~Granted(t, want[t])
  /\ Of(want[t].lock)[u] # {}
  /\ want[t].kind = "W" \/ "W" \in Of(want[t].lock)[u]

Deadlocked ==
  HasCycle({e \in Threads \X Threads : WaitsFor(e[1], e[2])}, Threads)

\* The profiler's purpose: threads never wait for each other in a circle,
\* because the request that would close the circle has crashed the process
\* (README.md:19-23).
NoUndetectedDeadlock == crash = "none" => ~Deadlocked

\* Every lock a thread has or waits for is on the stack as often as it is held
\* or waited for.
StackCounts ==
  \A n \in Names :
    Cardinality({i \in 1..Len(lockStack) : lockStack[i] = nameToId[n]}) =
      Cardinality({p \in Threads \X (1..MaxNest) :
                     /\ p[2] <= Len(held[p[1]])
                     /\ Name[held[p[1]][p[2]].lock] = n
                     /\ ~(pc[p[1]] = "release" /\ p[2] = Len(held[p[1]]))})
      + Cardinality({t \in Threads : pc[t] = "wait" /\ Name[want[t].lock] = n})

\* All entries of a lock are next to each other on the stack.
StackRuns ==
  \A i, j, k \in 1..Len(lockStack) :
    i < j /\ j < k /\ lockStack[i] = lockStack[k] => lockStack[j] = lockStack[i]

\* What one stack can tell although threads push and pop it in turns, until a crash:
\* its entries are the locks held or waited for, and as neighbours are linked in the
\* history, which has no cycle, it never returns to a lock it has left (PushLock,
\* PopLock).
StackAccounts == crash = "none" => StackCounts /\ StackRuns

-----------------------------------------------------------------------------
(* What the code or the README says of the profiler and the code does not   *)
(* do.                                                                      *)

\* "These two checks are not needed if it is used correctly"
\* (DeadLockProfiler.cpp:72-73): guards that nest never fail PopLock's checks.
NoUnlockCrash == crash \notin {"INVALID_UNLOCK", "MULTIPLE UNLOCK"}
=============================================================================
