--------------------------- MODULE MCRefCounting ----------------------------
EXTENDS RefCounting, TLC

Sym == Permutations(Threads) \cup Permutations(Objects) \cup Permutations(Slots)
=============================================================================
