-------------------------------- MODULE Lock --------------------------------
(***************************************************************************)
(* class Lock, the recursive read-write spin lock of ServerCore/Lock.cpp,   *)
(* in the release build (the debug build also calls the DeadLockProfiler,   *)
(* see DeadLockProfiler.tla).                                               *)
(*                                                                          *)
(* Each access to the atomic _lockFlag, and each access to the plain        *)
(* _writeCount, is a step of its own; a thread is between two such accesses *)
(* in every state.  Threads use the lock through ReadLockGuard and          *)
(* WriteLockGuard only, so they release in the reverse order in which they  *)
(* acquired: held[t] is the stack of the guards alive in thread t.          *)
(*                                                                          *)
(* A thread is named by its LThreadId.  _lockFlag is the integer the code   *)
(* keeps: the owner's id in the upper half word, the number of read locks   *)
(* in the lower one.                                                        *)
(***************************************************************************)
EXTENDS Integers, Sequences, FiniteSets

CONSTANTS
  Threads,         \* the LThreadIds of the threads that use the lock
  Span16,          \* 2^16: ids in the flag, read counts and _writeCount are 16 bits
  MAX_SPIN_COUNT,  \* attempts before the clock is looked at (5000 in the code)
  MaxNest,         \* bound: guards a thread may have alive at once
  ReadThenWrite    \* whether a thread with a read guard may ask for a write guard

ASSUME WordAssumption == Span16 \in Nat /\ Span16 > 1
ASSUME ThreadAssumption == Threads \subseteq 1..(Span16 - 1)
ASSUME SpinAssumption == MAX_SPIN_COUNT \in Nat \ {0}
ASSUME NestAssumption ==
  /\ MaxNest \in Nat
  /\ Cardinality(Threads) * MaxNest < Span16
ASSUME PolicyAssumption == ReadThenWrite \in BOOLEAN

VARIABLES
  lockFlag,    \* Lock::_lockFlag
  writeCount,  \* Lock::_writeCount
  crash,       \* "none", or the cause given to the CRASH macro
  pc,          \* pc[t]: the access thread t is about to make
  expected,    \* expected[t]: local of ReadLock, the count it read
  spinCount,   \* spinCount[t]: failed attempts since the last look at the clock
  held         \* held[t]: kinds of the guards of t, innermost last

vars == <<lockFlag, writeCount, crash, pc, expected, spinCount, held>>

Abs == INSTANCE LockSpec WITH held <- held, crash <- crash

-----------------------------------------------------------------------------
(* The flag word.                                                           *)

EMPTY_FLAG == 0
WriteThread(f) == f \div Span16            \* (f & WRITE_THREAD_MASK) >> 16
ReadCount(f)   == f % Span16               \* f & READ_COUNT_MASK
Desired(t)     == (t % Span16) * Span16    \* (LThreadId << 16) & WRITE_THREAD_MASK
Word32(n)      == n % (Span16 * Span16)    \* unsigned 32-bit arithmetic

-----------------------------------------------------------------------------
Labels == {"idle", "W_cas", "W_count", "WU_dec", "WU_store",
           "R_add", "R_load", "R_cas"}
Causes == {"none", "Lock_Timeout", "INVALID_UNLOCK_ORDER", "MULTIPLE UNLOCK"}

Goto(t, l) == pc' = [pc EXCEPT ![t] = l]

\* The call returns: the guard of kind k is constructed / destroyed.
Constructed(t, k) ==
  /\ Goto(t, "idle")
  /\ held' = [held EXCEPT ![t] = Append(@, k)]
Destroyed(t) ==
  /\ Goto(t, "idle")
  /\ held' = [held EXCEPT ![t] = SubSeq(@, 1, Len(@) - 1)]

Holding(t, k) == \E i \in 1..Len(held[t]) : held[t][i] = k
Innermost(t)  == held[t][Len(held[t])]

\* Thread t, in no call of the lock, may make another one.
MayCall(t) ==
  /\ crash = "none"
  /\ pc[t] = "idle"

-----------------------------------------------------------------------------
Init ==
  /\ lockFlag = EMPTY_FLAG
  /\ writeCount = 0
  /\ crash = "none"
  /\ pc = [t \in Threads |-> "idle"]
  /\ expected = [t \in Threads |-> 0]
  /\ spinCount = [t \in Threads |-> 0]
  /\ held = [t \in Threads |-> <<>>]

-----------------------------------------------------------------------------
(* WriteLock                                                                *)

\* The load and the comparison with LThreadId.
WriteLock_NoRecursion(t) ==
  /\ MayCall(t)
  /\ Len(held[t]) < MaxNest
  /\ Holding(t, "R") => ReadThenWrite
  /\ Goto(t, "W_cas")
  /\ spinCount' = [spinCount EXCEPT ![t] = 0]
  /\ UNCHANGED <<lockFlag, writeCount, crash, expected, held>>

WriteLock(t) ==
  /\ MayCall(t)
  /\ Len(held[t]) < MaxNest
  /\ Holding(t, "R") => ReadThenWrite
  /\ Goto(t, IF t = WriteThread(lockFlag) THEN "W_count" ELSE "W_cas")
  /\ spinCount' = [spinCount EXCEPT ![t] = 0]
  /\ UNCHANGED <<lockFlag, writeCount, crash, expected, held>>

\* One compare_exchange_strong of the spin loop.
WriteCas(t) ==
  /\ crash = "none"
  /\ pc[t] = "W_cas"
  /\ spinCount[t] < MAX_SPIN_COUNT
  /\ \/ /\ lockFlag = EMPTY_FLAG
        /\ lockFlag' = Desired(t)
        /\ Goto(t, "W_count")
        /\ UNCHANGED spinCount
     \/ /\ lockFlag # EMPTY_FLAG
        /\ spinCount' = [spinCount EXCEPT ![t] = @ + 1]
        /\ UNCHANGED <<lockFlag, pc>>
  /\ UNCHANGED <<writeCount, crash, expected, held>>

\* _writeCount++ and return, of the recursive entry and of the winner alike.
CountWrite(t) ==
  /\ crash = "none"
  /\ pc[t] = "W_count"
  /\ writeCount' = (writeCount + 1) % Span16
  /\ Constructed(t, "W")
  /\ UNCHANGED <<lockFlag, crash, expected, spinCount>>

-----------------------------------------------------------------------------
(* WriteUnlock                                                              *)

\* The store of EMPTY_FLAG moved in front of the decrement.
WriteUnlock_StoreFirst(t) ==
  /\ MayCall(t)
  /\ held[t] # <<>> /\ Innermost(t) = "W"
  /\ lockFlag' = EMPTY_FLAG
  /\ Goto(t, "WU_dec")
  /\ UNCHANGED <<writeCount, crash, expected, spinCount, held>>

\* The load and the check that no read lock is left.
WriteUnlock(t) ==
  /\ MayCall(t)
  /\ held[t] # <<>> /\ Innermost(t) = "W"
  /\ IF ReadCount(lockFlag) # 0
       THEN crash' = "INVALID_UNLOCK_ORDER" /\ UNCHANGED pc
       ELSE Goto(t, "WU_dec") /\ UNCHANGED crash
  /\ UNCHANGED <<lockFlag, writeCount, expected, spinCount, held>>

DecWrite_NoNesting(t) ==
  /\ crash = "none"
  /\ pc[t] = "WU_dec"
  /\ writeCount' = (writeCount - 1) % Span16
  /\ Goto(t, "WU_store") /\ UNCHANGED held
  /\ UNCHANGED <<lockFlag, crash, expected, spinCount>>

DecWrite_NoStore(t) ==
  /\ crash = "none"
  /\ pc[t] = "WU_dec"
  /\ writeCount' = (writeCount - 1) % Span16
  /\ Destroyed(t)
  /\ UNCHANGED <<lockFlag, crash, expected, spinCount>>

\* lockCount = --_writeCount, and the test of lockCount.
DecWrite(t) ==
  /\ crash = "none"
  /\ pc[t] = "WU_dec"
  /\ writeCount' = (writeCount - 1) % Span16
  /\ IF writeCount' = 0
       THEN Goto(t, "WU_store") /\ UNCHANGED held
       ELSE Destroyed(t)
  /\ UNCHANGED <<lockFlag, crash, expected, spinCount>>

StoreEmpty(t) ==
  /\ crash = "none"
  /\ pc[t] = "WU_store"
  /\ lockFlag' = EMPTY_FLAG
  /\ Destroyed(t)
  /\ UNCHANGED <<writeCount, crash, expected, spinCount>>

-----------------------------------------------------------------------------
(* ReadLock                                                                 *)

ReadLock(t) ==
  /\ MayCall(t)
  /\ Len(held[t]) < MaxNest
  /\ Goto(t, IF t = WriteThread(lockFlag) THEN "R_add" ELSE "R_load")
  /\ spinCount' = [spinCount EXCEPT ![t] = 0]
  /\ UNCHANGED <<lockFlag, writeCount, crash, expected, held>>

\* The owner's fetch_add(1).
ReadAdd(t) ==
  /\ crash = "none"
  /\ pc[t] = "R_add"
  /\ lockFlag' = Word32(lockFlag + 1)
  /\ Constructed(t, "R")
  /\ UNCHANGED <<writeCount, crash, expected, spinCount>>

ReadLoad_Unmasked(t) ==
  /\ crash = "none"
  /\ pc[t] = "R_load"
  /\ spinCount[t] < MAX_SPIN_COUNT
  /\ expected' = [expected EXCEPT ![t] = lockFlag]
  /\ Goto(t, "R_cas")
  /\ UNCHANGED <<lockFlag, writeCount, crash, spinCount, held>>

ReadLoad(t) ==
  /\ crash = "none"
  /\ pc[t] = "R_load"
  /\ spinCount[t] < MAX_SPIN_COUNT
  /\ expected' = [expected EXCEPT ![t] = ReadCount(lockFlag)]
  /\ Goto(t, "R_cas")
  /\ UNCHANGED <<lockFlag, writeCount, crash, spinCount, held>>

\* A fetch that forgets to count the reader.
ReadCas_NotCounted(t) ==
  /\ crash = "none"
  /\ pc[t] = "R_cas"
  /\ \/ /\ lockFlag = expected[t]
        /\ Constructed(t, "R")
        /\ UNCHANGED <<lockFlag, spinCount>>
     \/ /\ lockFlag # expected[t]
        /\ spinCount' = [spinCount EXCEPT ![t] = @ + 1]
        /\ Goto(t, "R_load")
        /\ UNCHANGED <<lockFlag, held>>
  /\ UNCHANGED <<writeCount, crash, expected>>

\* compare_exchange_strong(expected, expected + 1).
ReadCas(t) ==
  /\ crash = "none"
  /\ pc[t] = "R_cas"
  /\ \/ /\ lockFlag = expected[t]
        /\ lockFlag' = Word32(expected[t] + 1)
        /\ Constructed(t, "R")
        /\ UNCHANGED spinCount
     \/ /\ lockFlag # expected[t]
        /\ spinCount' = [spinCount EXCEPT ![t] = @ + 1]
        /\ Goto(t, "R_load")
        /\ UNCHANGED <<lockFlag, held>>
  /\ UNCHANGED <<writeCount, crash, expected>>

-----------------------------------------------------------------------------
(* ReadUnlock: fetch_sub(1), and a crash if there was no read lock.         *)

ReadUnlock(t) ==
  /\ MayCall(t)
  /\ held[t] # <<>> /\ Innermost(t) = "R"
  /\ lockFlag' = Word32(lockFlag - 1)
  /\ IF ReadCount(lockFlag) = 0
       THEN crash' = "MULTIPLE UNLOCK" /\ UNCHANGED <<pc, held>>
       ELSE Destroyed(t) /\ UNCHANGED crash
  /\ UNCHANGED <<writeCount, expected, spinCount>>

-----------------------------------------------------------------------------
(* MAX_SPIN_COUNT attempts have failed: the clock decides between crashing  *)
(* the process and another round after this_thread::yield().                *)

RoundFailed(t) ==
  /\ crash = "none"
  /\ pc[t] \in {"W_cas", "R_load"}
  /\ spinCount[t] = MAX_SPIN_COUNT

TimedOut_Never(t) == FALSE

TimedOut(t) ==
  /\ RoundFailed(t)
  /\ crash' = "Lock_Timeout"
  /\ UNCHANGED <<lockFlag, writeCount, pc, expected, spinCount, held>>

Yield(t) ==
  /\ RoundFailed(t)
  /\ spinCount' = [spinCount EXCEPT ![t] = 0]
  /\ UNCHANGED <<lockFlag, writeCount, crash, pc, expected, held>>

\* CRASH has ended the process.
Crashed == crash # "none" /\ UNCHANGED vars

-----------------------------------------------------------------------------
\* The steps inside a call; making a call is up to the thread.
Step(t) ==
  \/ WriteCas(t) \/ CountWrite(t)
  \/ DecWrite(t) \/ StoreEmpty(t)
  \/ ReadAdd(t) \/ ReadLoad(t) \/ ReadCas(t)
  \/ Yield(t)

Next ==
  \/ \E t \in Threads :
       \/ WriteLock(t) \/ WriteCas(t) \/ CountWrite(t)
       \/ WriteUnlock(t) \/ DecWrite(t) \/ StoreEmpty(t)
       \/ ReadLock(t) \/ ReadAdd(t) \/ ReadLoad(t) \/ ReadCas(t)
       \/ ReadUnlock(t)
       \/ TimedOut(t) \/ Yield(t)
  \/ Crashed

Spec == Init /\ [][Next]_vars

\* A running thread keeps executing its call.  GetTickCount64 grows without
\* bound, so a call that looks at the clock again and again finds the timeout
\* elapsed at some look.
Fairness == \A t \in Threads : WF_vars(Step(t)) /\ SF_vars(TimedOut(t))

FairSpec == Spec /\ Fairness

-----------------------------------------------------------------------------
TypeOK ==
  /\ lockFlag \in 0..(Span16 * Span16 - 1)
  /\ writeCount \in 0..(Span16 - 1)
  /\ crash \in Causes
  /\ pc \in [Threads -> Labels]
  /\ expected \in [Threads -> 0..(Span16 - 1)]
  /\ spinCount \in [Threads -> 0..MAX_SPIN_COUNT]
  /\ held \in [Threads -> Seq({"R", "W"})]
  /\ \A t \in Threads : Len(held[t]) <= MaxNest

\* The lock excludes: while a thread has a WriteLockGuard alive, no other
\* thread has a guard of either kind (Lock.cpp:6-8).
MutualExclusion ==
  \A t, u \in Threads : t # u /\ Holding(t, "W") => held[u] = <<>>

\* _writeCount needs no atomic: "only the winner of the competition changes
\* it" (Lock.h:48).  Two threads are never both about to change it, and the one
\* that is has its id in the flag.
WriteCountUnshared ==
  \A t \in Threads : pc[t] \in {"W_count", "WU_dec"} =>
    /\ WriteThread(lockFlag) = t
    /\ \A u \in Threads \ {t} : pc[u] \notin {"W_count", "WU_dec"}

\* Guards that nest cannot trip the two consistency checks of WriteUnlock and
\* ReadUnlock, whatever the other threads do: the one crash is of a thread that took a
\* write guard inside a read guard of its own, which WriteLock lets an owner do against
\* the policy of Lock.h:12-16.
WriteInRead(t) ==
  \E i, j \in 1..Len(held[t]) : i < j /\ held[t][i] = "R" /\ held[t][j] = "W"
NoUnlockCrash ==
  /\ crash # "MULTIPLE UNLOCK"
  /\ crash = "INVALID_UNLOCK_ORDER" => \E t \in Threads : WriteInRead(t)

\* Recursion: the owner of the write lock enters again, for write or for read,
\* without competing for the flag, so it can never wait for itself.
OwnerNeverWaits ==
  \A t \in Threads : Holding(t, "W") => pc[t] \notin {"W_cas", "R_load", "R_cas"}

\* No release is lost: once every guard is gone and no call is under way, the
\* flag and the recursion count are back at their initial values.
FreeWhenUnused ==
  (\A t \in Threads : held[t] = <<>> /\ pc[t] = "idle")
    => lockFlag = EMPTY_FLAG /\ writeCount = 0

\* A call never hangs: it returns, or the process crashes with Lock_Timeout.
CallsEnd ==
  \A t \in Threads : pc[t] # "idle" ~> pc[t] = "idle" \/ crash # "none"

\* Lock implements LockSpec: every return from a call is a grant or a release
\* the policy allows, and the only crashes are the ones it names.
Refines == Abs!Spec
=============================================================================
