------------------------------ MODULE LockSpec ------------------------------
(***************************************************************************)
(* What class Lock (ServerCore/Lock.h, Lock.cpp) promises its users, with   *)
(* acquisition and release as single steps.                                 *)
(*                                                                          *)
(* A thread's state is the sequence of guards (WriteLockGuard "W",          *)
(* ReadLockGuard "R") alive on its stack, innermost last.  The policy is    *)
(* the comment of Lock.h:9-18 and of Lock.cpp:6-8: a write lock is granted  *)
(* to a thread that already owns one or when nobody owns or shares the      *)
(* lock, a read lock when no other thread owns it, and an owner that still  *)
(* has read locks may not release a write lock.                             *)
(***************************************************************************)
EXTENDS Naturals, Sequences

CONSTANTS Threads,   \* the threads that use the lock
          MaxNest    \* bound: guards a thread may have alive at once

VARIABLES held,      \* held[t]: kinds of the guards of t, innermost last
          crash      \* "none", or the cause given to the CRASH macro

specVars == <<held, crash>>

Kinds == {"R", "W"}

\* The kinds of the guards each thread has alive, in the guard table h.
KindsOf(h) == [t \in Threads |-> {h[t][i] : i \in 1..Len(h[t])}]

\* The conditions under which the lock is granted, k[u] being what thread u has.
CanWrite(k, t) == "W" \in k[t] \/ \A u \in Threads : k[u] = {}
CanRead(k, t)  == \A u \in Threads \ {t} : "W" \notin k[u]

Push(s, k) == Append(s, k)
Top(s)     == s[Len(s)]
Pop(s)     == SubSeq(s, 1, Len(s) - 1)

Acquire(t, k) ==
  /\ crash = "none"
  /\ IF k = "W" THEN CanWrite(KindsOf(held), t) ELSE CanRead(KindsOf(held), t)
  /\ held' = [held EXCEPT ![t] = Push(@, k)]
  /\ UNCHANGED crash

Release(t) ==
  /\ crash = "none"
  /\ held[t] # <<>>
  /\ ~(Top(held[t]) = "W" /\ "R" \in KindsOf(held)[t])
  /\ held' = [held EXCEPT ![t] = Pop(@)]
  /\ UNCHANGED crash

\* The owner releases a write lock while it still has read locks.
ReleaseOutOfOrder(t) ==
  /\ crash = "none"
  /\ held[t] # <<>>
  /\ Top(held[t]) = "W"
  /\ "R" \in KindsOf(held)[t]
  /\ crash' = "INVALID_UNLOCK_ORDER"
  /\ UNCHANGED held

\* A call that waits too long ends the process.
GiveUp ==
  /\ crash = "none"
  /\ crash' = "Lock_Timeout"
  /\ UNCHANGED held

SpecInit == held = [t \in Threads |-> <<>>] /\ crash = "none"

SpecNext ==
  \/ \E t \in Threads :
       \/ \E k \in Kinds : Acquire(t, k)
       \/ Release(t)
       \/ ReleaseOutOfOrder(t)
  \/ GiveUp

Spec == SpecInit /\ [][SpecNext]_specVars
=============================================================================
