\* Two locks that are members of the same class.
SPECIFICATION Spec
CONSTANTS
  Threads = {t1, t2}
  Locks = {A, B}
  Names = {A, B}
  Name <- OneClass
  MaxNest = 2
INVARIANT NoUndetectedDeadlock
