------------------------------- MODULE MCLock -------------------------------
(* Instances of Lock for TLC; the constants are given in the .cfg files.     *)
EXTENDS Lock
=============================================================================
