----------------------------- MODULE MemoryPool -----------------------------
(***************************************************************************)
(* Memory::Allocate and Release (ServerCore/Memory.cpp) and the MemoryPools *)
(* they use (ServerCore/MemoryPool.cpp), in the build without _STOMP.       *)
(*                                                                          *)
(* A pool is named by its place in _pools.  The constructor of Memory has   *)
(* three loops that differ in their bounds only, the constant Loops.  The   *)
(* interlocked list operations of the system, the two atomic counters and   *)
(* the header are accessed one after the other, a step each.  Blocks may be *)
(* released by a thread other than the one that allocated them, once each.  *)
(***************************************************************************)
EXTENDS Integers, Sequences, FiniteSets

CONSTANTS
  Threads,         \* the threads
  Blocks,          \* the blocks _aligned_malloc can return
  None,            \* nullptr
  Loops,           \* the loops of Memory::Memory, a sequence of [first, last, step]
  MAX_ALLOC_SIZE,  \* the last index of _poolTable
  HeaderSize,      \* sizeof(MemoryHeader)
  Sizes            \* the sizes asked for

\* The sizes a loop makes pools of, and the _allocSize of every pool.
SizesOf(l) ==
  [i \in 1..((l.last - l.first) \div l.step + 1) |-> l.first + (i - 1) * l.step]
PoolsOf(loops) ==
  LET done[k \in 0..Len(loops)] ==
        IF k = 0 THEN <<>> ELSE done[k - 1] \o SizesOf(loops[k])
  IN  done[Len(loops)]

\* _poolTable[n]: the while loop of the first pool that is large enough sets it,
\* and no later one does.  Len(pools) + 1 stands for a slot that is not set.
TableSlot(pools, n) ==
  CHOOSE i \in 1..(Len(pools) + 1) :
    /\ i > Len(pools) \/ n <= pools[i]
    /\ \A k \in 1..(i - 1) : n > pools[k]

poolSizes == PoolsOf(Loops)
Pools     == 1..Len(poolSizes)

ASSUME PoolAssumption ==
  /\ None \notin Blocks
  /\ HeaderSize \in Nat \ {0} /\ Sizes \subseteq Nat
  /\ IsFiniteSet(Threads) /\ IsFiniteSet(Blocks)

\* The loops ascend, and the last one ends with n exactly.
Ascend(loops, n) ==
  /\ loops \in Seq([first : Nat, last : Nat, step : Nat \ {0}])
  /\ loops # <<>>
  /\ \A k \in 1..Len(loops) : loops[k].first <= loops[k].last
  /\ \A k \in 2..Len(loops) : loops[k - 1].last <= loops[k].first
  /\ LET l == loops[Len(loops)] IN l.last = n /\ (l.last - l.first) % l.step = 0

ASSUME LoopAssumption == Ascend(Loops, MAX_ALLOC_SIZE)

VARIABLES
  heap,          \* the blocks that are not allocated
  capacity,      \* capacity[b]: the bytes block b has been allocated with
  allocSize,     \* allocSize[b]: MemoryHeader::allocSize
  list,          \* list[p]: MemoryPool::_header, top first
  useCount,      \* useCount[p]: MemoryPool::_useCount
  reserveCount,  \* reserveCount[p]: MemoryPool::_reserveCount
  used,          \* the blocks the program has
  pc,            \* pc[t]: where thread t is
  block,         \* block[t]: the block of its call
  size,          \* size[t]: the local allocSize of its call
  crash          \* "none", or what ended the process

blockVars == <<heap, capacity, allocSize, used>>
poolVars  == <<list, useCount, reserveCount>>
callVars  == <<pc, block, size>>
vars      == <<blockVars, poolVars, callVars, crash>>

Pool(t) == TableSlot(poolSizes, size[t])

\* The program sees who is in Allocate, and the blocks it has with their headers.
Asking == {t \in Threads : pc[t] \in {"pop", "popped", "use", "attach"}}
Asked  == [t \in Asking |-> size[t] - HeaderSize]
Given  == [b \in used |-> [size |-> allocSize[b] - HeaderSize, room |-> capacity[b]]]
Rooms  == {poolSizes[p] : p \in Pools} \cup {n + HeaderSize : n \in Sizes}

Abs == INSTANCE AllocatorSpec WITH asked <- Asked, given <- Given

Init ==
  /\ heap = Blocks
  /\ capacity = [b \in Blocks |-> 0]
  /\ allocSize = [b \in Blocks |-> 0]
  /\ list = [p \in Pools |-> <<>>]
  /\ useCount = [p \in Pools |-> 0]
  /\ reserveCount = [p \in Pools |-> 0]
  /\ used = {}
  /\ pc = [t \in Threads |-> "idle"]
  /\ block = [t \in Threads |-> None]
  /\ size = [t \in Threads |-> 0]
  /\ crash = "none"

Running == crash = "none"
Goto(t, label) == pc' = [pc EXCEPT ![t] = label]

\* _aligned_malloc(n), and on to label; AttachHeader will use a nullptr.
Malloc(t, n, label) ==
  \/ /\ heap = {}
     /\ crash' = "null header"
     /\ UNCHANGED <<heap, capacity, pc, block>>
  \/ \E b \in heap :
       /\ heap' = heap \ {b}
       /\ capacity' = [capacity EXCEPT ![b] = n]
       /\ block' = [block EXCEPT ![t] = b]
       /\ Goto(t, label)
       /\ UNCHANGED crash

-----------------------------------------------------------------------------
(* Memory::Allocate                                                         *)

Allocate(t, n) ==
  /\ Running
  /\ pc[t] = "idle"
  /\ size' = [size EXCEPT ![t] = n + HeaderSize]
  /\ IF n + HeaderSize > MAX_ALLOC_SIZE
       THEN Malloc(t, n + HeaderSize, "attach")
       ELSE Goto(t, "pop") /\ UNCHANGED <<heap, capacity, block, crash>>
  /\ UNCHANGED <<allocSize, used, poolVars>>

\* A block that has just been allocated counted as one of the reserve.
PopNew_Reserved(t) ==
  /\ Running
  /\ pc[t] = "pop" /\ list[Pool(t)] = <<>>
  /\ Malloc(t, poolSizes[Pool(t)], "popped")
  /\ UNCHANGED <<allocSize, used, size, poolVars>>

\* MemoryPool::Pop finds the list empty ...
PopNew(t) ==
  /\ Running
  /\ pc[t] = "pop" /\ list[Pool(t)] = <<>>
  /\ Malloc(t, poolSizes[Pool(t)], "use")
  /\ UNCHANGED <<allocSize, used, size, poolVars>>

\* The head of the list read and not taken off.
PopEntry_Peek(t) ==
  /\ Running
  /\ pc[t] = "pop" /\ list[Pool(t)] # <<>>
  /\ block' = [block EXCEPT ![t] = Head(list[Pool(t)])]
  /\ Goto(t, "popped")
  /\ UNCHANGED <<blockVars, poolVars, size, crash>>

\* ... or takes its head, which must bear the mark of a free block.
PopEntry(t) ==
  /\ Running
  /\ pc[t] = "pop" /\ list[Pool(t)] # <<>>
  /\ block' = [block EXCEPT ![t] = Head(list[Pool(t)])]
  /\ list' = [list EXCEPT ![Pool(t)] = Tail(@)]
  /\ Goto(t, "popped")
  /\ crash' = IF allocSize[block'[t]] = 0 THEN "none" ELSE "ASSERT_CRASH"
  /\ UNCHANGED <<blockVars, useCount, reserveCount, size>>

DecReserve(t) ==
  /\ Running
  /\ pc[t] = "popped"
  /\ reserveCount' = [reserveCount EXCEPT ![Pool(t)] = @ - 1]
  /\ Goto(t, "use")
  /\ UNCHANGED <<blockVars, list, useCount, block, size, crash>>

IncUse(t) ==
  /\ Running
  /\ pc[t] = "use"
  /\ useCount' = [useCount EXCEPT ![Pool(t)] = @ + 1]
  /\ Goto(t, "attach")
  /\ UNCHANGED <<blockVars, list, reserveCount, block, size, crash>>

\* The header records the size without the header.
AttachHeader_DataSize(t) ==
  /\ Running
  /\ pc[t] = "attach"
  /\ allocSize' = [allocSize EXCEPT ![block[t]] = size[t] - HeaderSize]
  /\ used' = used \cup {block[t]}
  /\ block' = [block EXCEPT ![t] = None]
  /\ Goto(t, "idle")
  /\ UNCHANGED <<heap, capacity, poolVars, size, crash>>

\* MemoryHeader::AttachHeader, and Allocate returns.
AttachHeader(t) ==
  /\ Running
  /\ pc[t] = "attach"
  /\ allocSize' = [allocSize EXCEPT ![block[t]] = size[t]]
  /\ used' = used \cup {block[t]}
  /\ block' = [block EXCEPT ![t] = None]
  /\ Goto(t, "idle")
  /\ UNCHANGED <<heap, capacity, poolVars, size, crash>>

-----------------------------------------------------------------------------
(* Memory::Release                                                          *)

\* The block is not marked as free.
Release_NoMark(t, b) ==
  /\ Running
  /\ pc[t] = "idle" /\ b \in used
  /\ used' = used \ {b}
  /\ size' = [size EXCEPT ![t] = allocSize[b]]
  /\ block' = [block EXCEPT ![t] = b]
  /\ Goto(t, "push")
  /\ UNCHANGED <<heap, capacity, allocSize, poolVars, crash>>

\* The header is read; a block of a pool is marked as free in MemoryPool::Push.
Release(t, b) ==
  /\ Running
  /\ pc[t] = "idle" /\ b \in used
  /\ used' = used \ {b}
  /\ size' = [size EXCEPT ![t] = allocSize[b]]
  /\ CASE allocSize[b] <= 0 ->
            crash' = "ASSERT_CRASH" /\ UNCHANGED <<heap, allocSize, pc, block>>
       [] allocSize[b] > MAX_ALLOC_SIZE ->
            heap' = heap \cup {b} /\ UNCHANGED <<allocSize, pc, block, crash>>
       [] OTHER ->
            /\ allocSize' = [allocSize EXCEPT ![b] = 0]
            /\ block' = [block EXCEPT ![t] = b]
            /\ Goto(t, "push")
            /\ UNCHANGED <<heap, crash>>
  /\ UNCHANGED <<capacity, poolVars>>

PushEntry(t) ==
  /\ Running
  /\ pc[t] = "push"
  /\ list' = [list EXCEPT ![Pool(t)] = <<block[t]>> \o @]
  /\ block' = [block EXCEPT ![t] = None]
  /\ Goto(t, "pushed")
  /\ UNCHANGED <<blockVars, useCount, reserveCount, size, crash>>

DecUse(t) ==
  /\ Running
  /\ pc[t] = "pushed"
  /\ useCount' = [useCount EXCEPT ![Pool(t)] = @ - 1]
  /\ Goto(t, "reserve")
  /\ UNCHANGED <<blockVars, list, reserveCount, block, size, crash>>

IncReserve(t) ==
  /\ Running
  /\ pc[t] = "reserve"
  /\ reserveCount' = [reserveCount EXCEPT ![Pool(t)] = @ + 1]
  /\ Goto(t, "idle")
  /\ UNCHANGED <<blockVars, list, useCount, block, size, crash>>

Crashed == ~Running /\ UNCHANGED vars

Next ==
  \/ \E t \in Threads :
       \/ \E n \in Sizes : Allocate(t, n)
       \/ \E b \in used : Release(t, b)
       \/ PopNew(t) \/ PopEntry(t) \/ DecReserve(t) \/ IncUse(t) \/ AttachHeader(t)
       \/ PushEntry(t) \/ DecUse(t) \/ IncReserve(t)
  \/ Crashed

Spec == Init /\ [][Next]_vars

-----------------------------------------------------------------------------
\* A block is free memory, in one pool, in one call, or given to the program, and
\* only one of these: no two Allocates return the same block.
OnePlace ==
  \A b \in Blocks :
    (IF b \in heap THEN 1 ELSE 0) + (IF b \in used THEN 1 ELSE 0)
      + Cardinality({t \in Threads : block[t] = b})
      + Cardinality(UNION {{p} \X {i \in 1..Len(list[p]) : list[p][i] = b} : p \in Pools}) = 1

\* A block returns to the pool it came from, whatever the size it was used for,
\* and a block given out has room for what was asked for, of the smallest pool
\* that has.
HomePool ==
  /\ \A p \in Pools : \A i \in 1..Len(list[p]) : capacity[list[p][i]] = poolSizes[p]
  /\ \A b \in used :
       /\ allocSize[b] \in (HeaderSize..capacity[b])
       /\ \A p \in Pools : allocSize[b] <= poolSizes[p] => capacity[b] <= poolSizes[p]

\* The assertions on the mark in the header hold as long as no block is released
\* twice.
NoAssert == crash # "ASSERT_CRASH"

\* The threads in calls on pool p that are at one of these labels.
At(p, labels) ==
  Cardinality({t \in Threads : pc[t] \in labels /\ size[t] <= MAX_ALLOC_SIZE /\ Pool(t) = p})

\* Whatever the interleaving, the counters are what their names say, but for the
\* calls between their list operation and their counter: then _useCount may be
\* above the number of blocks in use, and _reserveCount below zero.  Between calls
\* both are exact.
CountersLag ==
  Running => \A p \in Pools :
    /\ useCount[p] = Cardinality({b \in used : TableSlot(poolSizes, allocSize[b]) = p})
                       + At(p, {"attach", "push", "pushed"})
    /\ reserveCount[p] = Len(list[p]) + At(p, {"popped"}) - At(p, {"pushed", "reserve"})

\* Memory implements AllocatorSpec: a thread gets the size it asked for, of a block that
\* nobody has; while the program has a block, no call of another thread touches its
\* header; and no crash but for want of memory.
Refines == Abs!Spec
=============================================================================
