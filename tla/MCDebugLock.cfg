\* Three threads and three locks of different classes: the shortest circles that
\* no two threads or two locks close alone.
SPECIFICATION Spec
CONSTANTS
  Threads = {t1, t2, t3}
  Locks = {A, B, C}
  Names = {A, B, C}
  Name <- OneClassEach
  MaxNest = 2
SYMMETRY Sym
INVARIANTS NoUndetectedDeadlock StackAccounts
