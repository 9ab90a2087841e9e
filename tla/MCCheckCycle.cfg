\* Every history of four locks that gains an edge: all shapes of tree, forward,
\* cross and back edge.  CheckCycle stops when it has returned or crashed.
SPECIFICATION FairSpec
CONSTANT LockCount = 4
INVARIANTS TypeOK ExactVerdict PrintsACycle
PROPERTY Ends
CHECK_DEADLOCK FALSE
