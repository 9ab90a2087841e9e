-------------------------- MODULE MCLockFreeStack ---------------------------
(* Instances of LockFreeStack for TLC.                                       *)
EXTENDS LockFreeStack, TLC

Sym == Permutations(Threads) \cup Permutations(Entries)
=============================================================================
