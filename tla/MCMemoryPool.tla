---------------------------- MODULE MCMemoryPool ----------------------------
EXTENDS MemoryPool, StompAllocator, TLC

Sym == Permutations(Threads) \cup Permutations(Blocks)

\* Four pools, of sizes 1, 2, 2 and 4: the last size of a loop is the first of the
\* next, as in Memory.cpp.
SmallLoops == << [first |-> 1, last |-> 2, step |-> 1],
                 [first |-> 2, last |-> 4, step |-> 2] >>

\* The bounds in Memory.cpp:16, 29 and 42.
MemoryLoops == << [first |-> 32,   last |-> 1024, step |-> 32],
                  [first |-> 1024, last |-> 2048, step |-> 128],
                  [first |-> 2048, last |-> 4096, step |-> 256] >>

\* They ascend, and with them every slot of _poolTable is set, to the smallest pool
\* that fits.
ASSUME TableComplete ==
  LET pools == PoolsOf(MemoryLoops)
  IN  Ascend(MemoryLoops, 4096) /\ \A n \in 0..4096 : LET i == TableSlot(pools, n) IN
        i <= Len(pools) /\ \A k \in 1..Len(pools) : n <= pools[k] => pools[i] <= pools[k]

\* The addresses of the _STOMP build, on the first pages.
ASSUME StompSmall ==
  \A n \in 0..2, bytes \in 1..(3 * PAGE_SIZE) :
    /\ BlockFits(n * PAGE_SIZE, bytes) /\ NoSparePage(bytes)
    /\ \A h \in 1..PAGE_SIZE : MemoryFits(n * PAGE_SIZE, bytes, h)
=============================================================================
