---------------------------- MODULE MCDebugLock -----------------------------
(* Instances of DebugLock for TLC.                                           *)
EXTENDS DebugLock, TLC

\* Every lock is a member of a class of its own, or all of one class:
\* typeid(this).name() tells classes apart, not objects.
OneClassEach == [l \in Locks |-> l]
OneClass     == [l \in Locks |-> CHOOSE n \in Names : TRUE]

Sym == Permutations(Threads) \cup Permutations(Locks)
=============================================================================
