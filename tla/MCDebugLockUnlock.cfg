\* Two threads, one guard each, on different locks.
SPECIFICATION Spec
CONSTANTS
  Threads = {t1, t2}
  Locks = {A, B}
  Names = {A, B}
  Name <- OneClassEach
  MaxNest = 1
INVARIANT NoUnlockCrash
