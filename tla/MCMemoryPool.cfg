\* With the header, sizes 2 and 3 share the pool of 4, and 4 is beyond the pools.
SPECIFICATION Spec
CONSTANTS
  Threads = {t1, t2, t3}
  Blocks = {b1, b2, b3}
  None = None
  Loops <- SmallLoops
  MAX_ALLOC_SIZE = 4
  HeaderSize = 1
  PAGE_SIZE = 8
  Sizes = {1, 2, 3, 4}
SYMMETRY Sym
INVARIANTS OnePlace HomePool CountersLag
PROPERTY Refines
