\* Three entries, calls enough to pop two of them and push one again under a Pop
\* that has read both, and a depth field of one bit that wraps.
SPECIFICATION Spec
CONSTANTS
  Threads = {t1, t2}
  Entries = {e1, e2, e3}
  Null = Null
  DepthSpan = 2
  SeqSpan = 8
  MaxCalls = 7
SYMMETRY Sym
INVARIANTS TypeOK ListIsStack OneOwner RetryMeansProgress
PROPERTY Refines
