# TLA+ models of the IOCP game server core

This directory holds TLA+ specifications of the server library in
`CPP_Server/Server/ServerCore` and of the lock-free stack and the `main` of
`CPP_Server/Server/GameServer`, the TLC configurations that check them on small
instances, and proofs that TLAPS checks for every instance. `DummyClient` is the
environment of the server. `PROJECT.json` maps
every definition to the lines it models and lists runs, mutants, hazards,
findings and theorems. File names below are relative to
`CPP_Server/Server/ServerCore` unless they say otherwise.

## 1. The system

| Component | State | Operations | Used by |
|---|---|---|---|
| `Lock` (Lock.h, Lock.cpp) | `_lockFlag` (owner id in the upper, reader count in the lower 16 bits), `_writeCount` | `WriteLock`, `WriteUnlock`, `ReadLock`, `ReadUnlock`, two guards | every class that uses the lock macros |
| `DeadLockProfiler` | `_nameToId`, `_lockStack`, `_lockHistory`, the vectors of a search | `PushLock`, `PopLock`, `CheckCycle`, `Dfs` | debug build of `Lock` |
| `LockFreeStack` (GameServer) | a 16-byte header: depth 16, sequence 48, next 64 bits | `InitializeHead`, `PushEntrySList`, `PopEntrySList` | any thread |
| `Listener`, `AcceptEvent` | `_acceptEvents`, the session of each event | `StartAccept`, `RegisterAccept`, `ProcessAccept`, `Dispatch` | `ServerService`, workers |
| `IocpCore` | the completion port | `Register`, `Dispatch` | workers of `main` |
| `Service`, `Session` | the set of sessions, a socket each | `Start`, `CreateSession`, `AddSession`, `ReleaseSession` | `Listener` |
| `ThreadManager`, TLS | `_threads`, `SThreadId`, `LThreadId` | `Launch`, `Join`, `InitTLS`, `DestroyTLS` | `main`, `CoreGlobal` |
| `Memory`, `MemoryPool` | `_pools`, `_poolTable`, lists of free blocks, two counters, headers | `Allocate`, `Release`, `Push`, `Pop` | `PoolAllocator`, `xnew`, `ObjectPool` |
| `RefCountable`, `TSharedPtr` | `_refCount`, `_ptr` | constructors, assignments, destructor | any thread |
| `StompAllocator` (Allocator.cpp) | none: addresses are computed | `Alloc`, `Release` | `Memory` in the `_STOMP` build |
| `TypeCast.h` | `s_convert`, the static that builds it, `_typeId` of an object | `TypeCast`, `CanCast`, `IndexOf`, `MakeTable` | any thread |
| `CoreGlobal` | the global objects, the socket library and its functions | constructor, destructor | the process, before and after `main` |
| `SocketUtils` | three bound functions | `Init`, `Clear`, calls of the socket library | `CoreGlobal`, `Listener`, `Session` |
| `DummyClient` | one connection | `connect` in a loop, `WSASend` in a loop | - |
| `ObjectPool`, other allocators, `Container.h` | none: they forward | `Pop`, `Push`, `Alloc`, `Release` | - |
| `NetAddress` | one address | conversions | `Listener`, `Service` |

How they interact: `main` starts a `ServerService`, whose `Listener` creates one
`AcceptEvent` per allowed session and calls `AcceptEx` for each. Workers launched by
the `ThreadManager` block in `IocpCore::Dispatch`; a completed event goes through
`Listener::Dispatch` to `ProcessAccept`, which registers it again. Locks report to
one global `DeadLockProfiler` in the debug build. All of it lives inside the lifetime of
the globals, which `CoreGlobal` builds before `main` and deletes after it.

What is hard, and which property makes the component correct:

* **Lock**: accesses to the flag interleave, `_writeCount` is not atomic, a thread may
  recurse and may time out. Correct: writers exclude, the count is never shared, no
  release is lost, an owner never waits, every call returns or crashes by timeout.
* **DeadLockProfiler**: all threads share one stack; the search must tell four kinds of
  edges apart. Correct: no circle of waiting threads without an alarm; the search
  reports exactly the graphs with a cycle.
* **LockFreeStack**: the header is copied without atomicity, links are read from entries
  others may have taken (ABA). Correct: it is a stack; each entry has one owner.
* **Accept loop**: an event may be completed and processed again by another worker
  before the call that registered it returns; failures recurse. Correct: no event is
  lost or shared, sessions of outstanding calls live, every client is announced and none
  dropped before, unless a call fails on its own connection; without a completion port the
  process does not linger.
* **ThreadManager**: ids are drawn concurrently, `Join` takes no lock. Correct: unique
  ids, no running thread destroyed, `Join` returns.
* **CoreGlobal**: the constructor may fail half way; the destructor joins in the middle.
  Correct: no callback runs without its globals.
* **TypeCast**: the first casts of several threads meet at one static; indices of classes
  outside the list are -1. Correct: a cast agrees with the class hierarchy, and returns.
* **StompAllocator**: `Release` knows the block's address only. Correct: the block ends
  with its pages, and the address freed is the one that was allocated.
* **Memory**: blocks move between threads, counters follow the list later. Correct: no
  block has two users, blocks go home to their pool.
* **RefCounting**: last references are given up concurrently, deletion cascades.
  Correct: no dangling pointer, no leak.

`PROJECT.json` lists the hazards line by line.

## 2. Modules

| Module | Models | State and actions |
|---|---|---|
| `LockSpec` | what `Lock` promises | the guards alive per thread; `Acquire`, `Release`, `ReleaseOutOfOrder`, `GiveUp` are single steps |
| `Lock` | Lock.h, Lock.cpp | one action per access to `_lockFlag` or `_writeCount`; `pc[t]` names the next access; words are `% 2^w` |
| `LockProofs` | - | the theorems about `Lock` |
| `LockGraph` | - | `HasCycle`, the reference definition of a cycle |
| `DeadLockProfiler` | PushLock, PopLock | each is one step, because it runs under the profiler's mutex |
| `DebugLock` | several locks, threads and the profiler | composes `DeadLockProfiler` with `LockSpec`: push, acquire, pop, release are four steps |
| `DebugLockProofs` | - | the theorems about `DebugLock` |
| `CheckCycle` | CheckCycle, Dfs | frames of the recursion, the vectors, and the loop that prints the cycle |
| `CheckCycleProofs` | - | the theorems about `CheckCycle` |
| `StackSpec` | a stack | push and pop in one step |
| `LockFreeStack` | GameServer/LockFreeStack | the two halves of the header are copied in any order; then link, compare-exchange, retry |
| `LockFreeStackProofs` | - | the theorems about `LockFreeStack` |
| `AcceptLoop` | GameServer `main`, Service, Listener, IocpCore, Session, DummyClient | main, workers, clients; the system's `AcceptEx` and completion queue as environment |
| `AcceptLoopProofs` | - | the theorems about `AcceptLoop` |
| `ThreadManager` | ThreadManager.cpp, CoreTLS | `Launch` in two steps around the creation of the thread, `Join` per iteration |
| `CoreGlobal` | CoreGlobal.cpp, `SocketUtils::Init`, `Clear` | extends `ThreadManager`: construction step by step, `main`, destruction step by step |
| `CoreGlobalProofs` | - | the theorems about `ThreadManager`; the process implements it; the theorems about the whole process |
| `AllocatorSpec` | what `Memory` promises | who asks for how many bytes, and the blocks the program has with size and room; `Ask`, `Give`, `TakeBack` are single steps |
| `MemoryPool` | Memory.cpp, MemoryPool.h, MemoryPool.cpp | one action per list operation, counter and header access; the pool table as the function the constructor computes |
| `StompAllocator` | Allocator.cpp, the `_STOMP` parts of Memory.cpp | functions of addresses and sizes |
| `MemoryProofs` | - | the theorems about `MemoryPool` and `StompAllocator` |
| `RefCounting` | RefCounting.h | a call is a stack of instructions, each with at most one shared access |
| `TypeCast` | TypeCast.h | the type list as functions; a cast as steps: the static, the cells of the table, the read |
| `PointerProofs` | - | the theorems about `RefCounting` and `TypeCast` |

The module `MC<name>` next to a module gives the constants that a `.cfg` cannot
express and the symmetry; `MCCoreGlobal` also runs `ThreadManager`, and `MCMemoryPool`
evaluates `StompAllocator` on small sizes.

Abstractions that are shared: messages, names and addresses are model values; logging
and texts are left out, except for the edges that `Dfs` prints, because a property is
about them. A `CRASH` or `ASSERT_CRASH` sets `crash`, after which nothing moves: the
process is gone. A step that only a crashed process takes is a stutter, so that TLC
reports real deadlocks.

Module by module:

* **Lock.** Guards nest as C++ scopes do, so a thread releases its innermost guard.
  `ReadThenWrite` says whether threads keep the policy of Lock.h:14 (no write lock
  inside one's own read lock). The clock is abstracted: after `MAX_SPIN_COUNT` failed
  attempts a thread may time out or go on (`Yield`).
* **DebugLock.** Grants are taken at the level of `LockSpec`, which `Lock` implements
  (theorem `Implements`). `Name` is a parameter, because the macros use the name of
  the class.
* **CheckCycle.** The initial states are all histories without a cycle plus one edge:
  that is when `PushLock` calls it. `set<int32>` is walked in ascending order.
* **LockFreeStack.** Entries stay mapped. `MaxCalls` keeps the sequence number from
  wrapping, which would need 2^48 operations under one `Pop`.
* **AcceptLoop.** A session is an object together with its socket; it lives while a
  `shared_ptr` (an event, a local, an activation of `RegisterAccept`) refers to it. The
  lowest free socket is taken: sockets are interchangeable. `CreateIoCompletionPort` may
  return NULL, which the assertion of IocpCore.cpp:13 does not notice. `CreateSession`
  returns nullptr when no socket is left or `Register` fails, and Listener.cpp:111 uses it:
  the process ends (`CreateSessionFails`), and with it every connection (`End`).
  `SetUpdateAcceptSocket` and `getpeername` may fail for want of a connection or on a live
  one, whose client is then `refused` (`Refuse`). A client is a
  process of `DummyClient`: it connects once, sends until that fails and ends, or it
  leaves at any time.
* **ThreadManager.** A `push_back` while `Join` is in its loop may or may not move the
  vector; both outcomes are allowed. `NestedLaunch` says whether callbacks launch.
* **CoreGlobal.** The initial state is the one after `new ThreadManager()`; each further
  global, `WSAStartup` and each `BindWindowsFunction` is a step, and the last four may
  crash. After `main` the manager's destructor joins before anything is deleted.
* **MemoryPool.** `TableSlot` states which pool the constructor leaves in a slot. The
  bounds of the constructor's loops are a constant that need only ascend to
  `MAX_ALLOC_SIZE` (`Ascend`). An assumption of `MCMemoryPool` evaluates both with the
  numbers of Memory.cpp: they ascend, and each of the 4097 slots is set, to the smallest
  pool that fits. `Asked` and `Given` are what the program sees of all this; through them
  `MemoryPool` implements `AllocatorSpec`.
* **RefCounting.** Each object has one member pointer, set before the object is shared,
  so deletions cascade. `CreatorReleases` says whether the code that called `new` gives
  up the count it starts with; `AssignOwnMember` whether programs write `p = p->next`. The
  instruction `AddRef` names the pointer it counts for, so that the references which are
  counted can be told from those which are not yet (`CountedBy`).
* **StompAllocator.** `base` is what `VirtualAlloc` returned. The arithmetic is that of the
  integers: sizes near 2^31 are outside the model.
* **TypeCast.** The hierarchy and the list are chosen in the initial state, the root being
  listed. What the compiler computes by recursion on templates are recursive functions:
  `IndexFrom`, `Bases`, `TypeId`. A class outside the list does not set `_typeId`, and its index is -1: the read of
  `s_convert[from][-1]` gives the cell before, or anything.

## 3. Runs

With two TLC workers `profiler` takes just under a minute, `accept_loop` about twenty
seconds, every other run less.

| Run | Bounds | What it shows |
|---|---|---|
| `lock` | 2 threads, 3 guards each, upgrades allowed, 3-bit half words, 2 spins | exclusion, unshared `_writeCount`, an unlock check fails only after write inside one's own read, an owner never waits, nothing is left behind; `Lock` implements `LockSpec`; every call ends |
| `check_cycle` | every history of 4 locks | crash if and only if there is a cycle, the printed edges are those of one simple cycle in order, indices stay in bounds, termination |
| `profiler` | 3 threads, 3 locks of different classes, 2 guards each | no undetected circle; what the shared stack contains |
| `profiler_unlock` | 2 threads, 1 guard each | *violated*: correct use trips `PopLock`'s check |
| `profiler_one_class` | 2 threads, 2 locks of one class | *violated*: a deadlock that is not reported |
| `lock_free_stack` | 2 threads, 3 entries, 7 calls, 1-bit depth | it implements a stack; a retry means that another thread made progress |
| `accept_loop` | 2 events, 2 workers, 2 clients, 1 fault, 5 sockets | the fault being any call of the system: events and sessions are neither lost nor shared; a running server closes no connection unannounced on which no call failed; clients are served; sockets suffice; without a port the process ends |
| `accept_session` | 1 event, 1 worker, 1 client | *violated*: the session is gone when `ProcessAccept` returns |
| `threads` | 3 threads, launches by main, `CoreGlobal` around them | unique ids, safe and returning `Join`, no callback without its globals |
| `memory_pool` | 3 threads, 3 blocks, pools of 1, 2, 2, 4 bytes and one size beyond | one user per block, home pools, how far counters lag; `MemoryPool` implements `AllocatorSpec` |
| `ref_counting` | 2 threads with 2 pointers, 2 linked objects | no dangling pointer, exact counts, no leak |
| `type_cast` | 2 threads, every hierarchy of 3 classes and every list with the root | casts agree with the hierarchy while the table is being filled; every cast returns |

Why the bounds are enough to be interesting: three guards put a read guard inside
a recursive write guard and a write guard inside both; what a third thread can do to the
flag in between is covered by the proofs, which hold for any number. Four nodes have every shape
of forward, cross and back edge. Three threads and three locks are the shortest circle
that no two of them close alone. The ABA pattern needs three entries and
seven calls. For two clients the accept loop needs five sockets: with
four TLC finds `RegisterAccept` out of sockets. With clients
enough the number is |Events| + 2|Workers| - 1 + MaxFaults (checked with one and two
events, two workers, and one socket less for a violation). Deadlock checking is on wherever the
system may not stop; `check_cycle` is one call that ends.

Fairness. `lock` assumes that a thread inside a call takes its steps (the
operating system schedules threads) and that a thread which fails for ever finally
passes the 10 s timeout (`GetTickCount64` advances). `check_cycle` assumes that the
single thread runs. `accept_loop` assumes scheduled threads (weak fairness) and that a
client in the backlog is not passed over for ever when calls of `AcceptEx` come and go
(strong fairness, weaker than the first-come order of the backlog); clients may leave at
any time and need not connect. `FailStop` needs the scheduled workers only. `threads`
assumes scheduled threads and callbacks that return (`GFairSpec`); `main` may take its
time. `type_cast` assumes that a thread inside a cast is scheduled.

Each property of a passing run has a mutant, a variant of a mapped definition with a
plausible slip (`<definition>_<slip>` in the module), under which TLC finds the
property violated.

### What the violations show

* **profiler_unlock.** `_lockStack` is one stack for all threads. Thread 1 locks A,
  thread 2 locks B, thread 1 unlocks A: `PopLock` finds B on top and crashes with
  `INVALID_UNLOCK`, although the comment at DeadLockProfiler.cpp:72-73 says the checks
  matter only for wrong use.
* **profiler_one_class.** Locks are named by `typeid(this).name()`: two objects of a
  class are one node, no edge is recorded between them, and two threads that lock them
  in opposite orders deadlock without a report.
* **accept_session.** `ProcessAccept` has the only reference to the accepted session.
  When it returns, `~Session` closes the client's socket; `AddSession` has no caller.

The parameters of the models show more, by a change of one constant in a cfg:

* `MaxNest = 3` with one thread in `DebugLock`: A, B, A again, a recursion that `Lock`
  allows, ends in `DEADLOCK_DETECTED`; `MaxNest = 1` with two threads: edges both ways
  between locks that no thread ever held together.
* `NestedLaunch = TRUE` in `MCCoreGlobal.cfg`: a callback that launches while main joins leaves `Join` with an
  iterator into a vector that has moved, or destroys a joinable thread (`JoinSafe`).
* `CreatorReleases = FALSE`: an object handed to `TSharedPtr(T*)` keeps a count that
  nobody owns and is never deleted (`CountExact`).
* `AssignOwnMember = TRUE`: `operator=` releases its own object before it reads the
  right-hand side, which was a member of that object (`NoDangling`).

And by reading the models rather than running them: `CastCorrect` says nothing of a cast
to a class outside the list, because the code reads a cell of another pair or memory in
front of the table; `Refines` and `NoAssert` of `MemoryPool` are about programs that release a block once, because the
mark `allocSize = 0` that would reveal a second release is gone when the block has been
given out again; `LockFreeStack` assumes that a popped entry stays mapped, because a slow
`Pop` reads its link.

## 4. Proofs

`LockProofs` proves for every set of thread ids, every half-word width, spin limit and
nesting bound that satisfy the assumptions of `Lock` (ids are nonzero and fit a half
word; the guards alive at once fit a half word):

| Theorem | States |
|---|---|
| `Typing` | `TypeOK` |
| `Exclusion` | `MutualExclusion` |
| `CountUnshared` | `WriteCountUnshared` |
| `Recursion` | `OwnerNeverWaits` |
| `Free` | `FreeWhenUnused` |
| `UnlockSafe` | `NoUnlockCrash`: only write inside one's own read trips a check |
| `PolicySafe` | if threads keep the policy (`~ReadThenWrite`), none is ever tripped |
| `Implements` | `Lock` implements `LockSpec` |

None of these invariants is inductive. `IInv` counts guards: the lower half of the flag
is the number of read guards (`FlagInv`); the upper half is the thread that has write
guards or has won the compare-exchange and not yet counted it, and then no other thread
has a guard (`OwnerInv`); `_writeCount` is the number of write guards, and 0 one step
before the last is released (`CountInv`); and `PcInv` says what a thread knows at each
label. `NestInv` adds, for `PolicySafe`, that no write guard is inside a read guard. The
counting lemmas (`GuardsPush`, `GuardsPop`) say how the guard sets change; the flag
lemmas (`FlagMake`, `FlagAdd`, `FlagSub`...) that the halves do not carry into each
other. One lemma per action shows that it preserves `IInv`.

`CoreGlobalProofs` first proves, of `ThreadManager` alone, `Typing` (`TypeOK`) and `Ids` (`UniqueIds`) for every finite
set of threads, with or without launches by callbacks, if the ids fit the width of
`SThreadId`. `UniqueIds` does not say why the counter has not wrapped, so `IInv` counts
the threads that `InitTLS` has seen: `SThreadId` is two more than their number
(`CountInv`), the ids in use are different and below it (`IdInv`), and a thread inside
`Launch` holds the lock and has a thread to push (`LaunchInv`).

`SafeJoin` (`JoinSafe`) adds the assumption that callbacks do not launch, without which
TLC refutes it. `JInv` follows a thread: while it runs it is in `_threads` or in the hands
of a `Launch` of main (`RunningListed`), and while main is in the loop of `Join` every
thread of the vector has been joined or is still ahead (`LoopCovers`).

It then shows that each step of the process is a step of `ThreadManager` or a
stutter, which the composition makes so (the lemma `ImplementsThreadManager`), and takes
over its theorems for the whole process (`ProcessIds`, `ProcessJoin`). `Outlived` (`GlobalsOutlive`) needs both: `GInv` says what
exists in each stage and that no thread runs before `main`; that none runs after the first
delete is `JInv`'s last part, for the `Join` inside the destructor has returned by then.

`AcceptLoopProofs` proves, for any sets of events, workers, sockets and clients and any
number of failures:

| Theorem | States |
|---|---|
| `Typing` | `TypeOK` |
| `EventsKept` | `OneHolder`: no event is lost or in two places |
| `SessionKept` | `PendingKept`: an outstanding `AcceptEx` keeps its session |
| `NeverSilent` | `NoSilentClose`: while it runs, the server closes only connections it has announced and those on which a call failed |
| `OwnSession` | `OneSessionPerClient` |
| `SocketsSuffice` | `NoSocketShortage`, if there are more than Events + MaxFaults + 2(Workers - 1) sockets |

`RegisterAccept` overwrites the session of its event, and nothing in it says that no call
is outstanding. `IInv` therefore describes the places of an event: a thread, the queue or
the system, each excluding the others (`Places`), a thread having one exactly between
`Dispatch` and `AcceptEx` (`HandInv`); and before `AcceptEx` the session of the innermost
activation is the event's (`FrameInv`). `CInv` follows connections: events have different
sessions, sockets different peers, a client that has not been accepted is on no socket, and
one that has been and has not been announced is on the socket of an event whose completion
is in the queue or in the hands of a worker (`ConnectedInv`). A session that dies at a
`Return` or is replaced in an event is then never that of a waiting client.

`SocketsSuffice` counts the sockets in use: besides one per event, an activation of
`RegisterAccept` keeps the session of a failed call until it returns, and there are no more
of those than failures (`SurplusInv`); every other worker keeps at most two more, the client
it has just announced and the session it is about to register. One socket fewer, and TLC
finds the shortage. Nothing in the code limits the failures, and no number of sockets helps
against a `Register` that fails for the one there is: that crash is a state of the model
with a name of its own (`"Register"`), which `NoSocketShortage` leaves out and `Served` names.

`LockFreeStackProofs` proves, for any sets of threads and entries, any widths of the fields
and any number of retries:

| Theorem | States |
|---|---|
| `Typing` | `TypeOK` |
| `ListMatches` | `ListIsStack`: the links are those of the abstract stack |
| `Ownership` | `OneOwner` |
| `LockFree` | `RetryMeansProgress` |
| `Implements` | `LockFreeStack` implements `StackSpec` |

The danger is ABA: a compare-exchange that succeeds although the stack has changed, with a
link read from an entry another thread had meanwhile. The assumption is that fewer calls
are made than the sequence number counts. Then the sequence number never returns to a value
that some thread has copied (`SeqInv`, `CopyInv`), so that a header which equals the copy,
torn or not, has been there all the time; and `PushInv` and `PopInv` say that the link is
right as long as it has. `StackDistinct`, `StackUnowned`, `HandsApart` and `NoneLost` are
the places an entry can be in.

`DebugLockProofs` proves `Accounts` (`StackAccounts`: the one stack that the threads share
holds a lock once per guard on it and once per thread that waits for it) and `DeadlockFree`
(`NoUndetectedDeadlock`) for any finite set of threads, any locks and any nesting.
`DeadlockFree` assumes that no two locks share a name; without it the run
`profiler_one_class` is the counterexample. Neighbours on the profiler's one stack are
linked in the history, and as long as the process runs the history has no cycle
(`ProfilerInv`): so the stack never returns to a lock it has left, and the entries of one
lock are together. What a waiting thread holds therefore lies below what it waits for
(`OrderInv`), and in a circle of waiting threads the one whose wait is highest would wait
for a lock that lies lower. That a finite acyclic relation along a circle does not exist is
proved from the well-foundedness of the natural numbers (`LessWellFounded`).

`CheckCycleProofs` proves `Typing` (`TypeOK`), `Exact` (`ExactVerdict`) and `PrintsRight`
(`PrintsACycle`) for any number of locks and any history. The argument is that of
depth-first search: the nodes without `_finished` are those of the frames in the order of
discovery, each the `_parent` of the next (`StackInv`, `PathInv`); all successors of a
finished node are finished (`ClosedInv`), and no cycle is among the finished nodes
(`AcyclicInv`). So a node found again with a lower order and not finished is in a frame, and
the frames from there up are the cycle that `Trace` walks back (`TraceInv`); and when
`CheckCycle` returns all nodes are finished. The recursion is a stack of frames in the
model, so no induction over data is needed.

`MemoryProofs` proves of `MemoryPool`, for any finite sets of threads and blocks, any
request sizes, and every list of constructor loops that ascend and end with
`MAX_ALLOC_SIZE`:

| Theorem | States |
|---|---|
| `OneOwner` | `OnePlace` |
| `RightSizes` | `HomePool` |
| `CountersRight` | `CountersLag` |
| `AssertsHold` | `NoAssert`: the assertions on the header's mark never fail |
| `SmallestPool` | the table gives each size the smallest pool with room |
| `Implements` | `MemoryPool` implements `AllocatorSpec` |

`PlaceInv` lists the places of a block:
the heap, one list, one call, the program. `SizeInv` says that wherever it is, its capacity
is that of the pool its size leads to; `Allocate` and `Release` compute that pool from two
different numbers, the request and the mark in the header, and the table must give the same
for both. `CountersLag` is inductive together with these. The table's pools are a function
of the loops (`PoolsOf`); `PoolsAscend` proves from the bounds of the loops that the sizes
ascend, the equal sizes where two loops meet included, and reach `MAX_ALLOC_SIZE`. That
the while loop leaves the slots that `TableSlot` describes is by reading.

For `Implements` a call of `Allocate` is an asker of `AllocatorSpec` from its first step to
the header, and its block is given when the header is written; `AskInv` adds what `IInv` does
not say, that an asker's size is one that was asked for with the header on top. The steps on
lists and counters are stutters, and a `Release` takes the block back at once, although it
reaches its pool later.

It also proves `StompSound` and `MemoryStompSound` for every page size,
base, size and header: the block ends where its pages end, no page is spare, `Release`
finds the base. They say nothing of the page behind: the repository's README promises a
fault on an overrun, but `Alloc` reserves no guard page, and the address after the region
may be another allocation's.

`PointerProofs` proves of `RefCounting` `Safe` (`NoDangling`) and `Counts` (`CountExact`) for any finite
sets of threads, pointers and objects, so for chains of any length, under `ProperUse`: who
calls `new` gives up its count, and no program assigns to `p` from a member of `*p`. Section
3 names what TLC finds without either half. `CountInv` says that `_refCount` is the number
of references: the pointers that are counted, the creator, and the calls about to release.
What has a reference is alive and not being deleted (`Referred`). It is inductive only with
what the calls under way will still do, and `ShapeInv` reads that from their instructions:
which pointer will be cleared, and that `delete` ends with the memory. A reference that is
copied but not yet counted has a counted one beside it, which stays until the call is over
(`SetInv`, `AddInv`): a local of the same thread, or the member of an object that such a
local keeps. `FreeInv` says that an object whose count is 0 is deleted by exactly one call.
One lemma says that the calls of the other threads go on as before (`OthersKeep`), one that
the rest of the thread's own call does (`LeftKeeps`).

It also proves, of `TypeCast`, `CastsRight` (`CastCorrect`) for every number of classes, every
hierarchy, every list that has the root and any number of threads. `FilledInv` says that
the cells before the current one are right, and `GuardInv` that one thread fills the table
and whoever reads it comes after. What the read gives depends on the recursive functions.
That their equations have solutions is proved by taking the least class, or the shortest
rest of the list, up to which there is none (`Descends`, `IndexAre`); what they compute in
the same way: `IndexOf` finds the place of a listed class (`IndexMeans`), and the index an
object carries is that of a listed class it is of, its own if that is listed
(`TypeIdMeans`). `LeastOf` takes the place of induction.

What the theorems assume is what the modules assume of their constants, and the hypotheses
named above; each assumption is evaluated by TLC for the constants of the runs.

Every safety invariant, action property and refinement that a passing run checks is a
theorem. Only model-checked: liveness (`CallsEnd`, `Ends`, `Served`, `FailStop`,
`JoinReturns`, `CastReturns`), which needs fairness and `ENABLED` and is out of this
prover's reach. Neither proved nor checked is what section 3 says by reading.

## 5. Not modelled

* `ObjectPool`: never instantiated, and it cannot be, since it calls `DetachHeader`, which
  MemoryPool.h spells `DetechHeader`.
* `BaseAllocator`, `PoolAllocator`, `StlAllocator` and `Container.h`: they forward a call
  or are aliases; `StlAllocator` narrows a `size_t` to `int32`, so containers of 2^31 bytes
  are outside every model.
* `Service::AddSession` and `ReleaseSession`, `BindAnyAddress` and the socket options that
  nothing calls; `ClientService::Start`, `CloseService` and `Session::Dispatch`, which are
  empty.
* `~Listener`, `CloseSocket` and `~IocpCore`: the workers never return, so these are not
  reached. The destructors of `Memory` and `MemoryPool` run at exit only.
* `NetAddress`: conversions by system calls, without state.
* The commented-out first two versions of the stack are not code.

## 6. Plan

Done: `Lock` with its specification; the profiler; the stack with its specification; the
accept loop with its clients; threads inside the life of the process; memory with its
specification, and the `_STOMP` addresses; reference counts; casts. All of it is checked,
and all of it but liveness is proved.

Next, once the code calls them: `AddSession` and `ReleaseSession` in `AcceptLoop`, which
should turn `accept_session` into a passing run, and `ObjectPool` on top of `MemoryPool`.
