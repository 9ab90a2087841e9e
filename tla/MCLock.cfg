\* Two threads, three guards each (a read guard inside a recursive write guard, and
\* write guards inside read guards), half words of three bits.
SPECIFICATION FairSpec
CONSTANTS
  Threads = {1, 2}
  Span16 = 8
  MAX_SPIN_COUNT = 2
  MaxNest = 3
  ReadThenWrite = TRUE
INVARIANTS TypeOK MutualExclusion WriteCountUnshared NoUnlockCrash OwnerNeverWaits FreeWhenUnused
PROPERTIES Refines CallsEnd
