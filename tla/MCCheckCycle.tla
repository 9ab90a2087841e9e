---------------------------- MODULE MCCheckCycle ----------------------------
(* Instances of CheckCycle for TLC; the constants are given in the .cfg files. *)
EXTENDS CheckCycle
=============================================================================
