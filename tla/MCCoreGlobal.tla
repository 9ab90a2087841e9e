---------------------------- MODULE MCCoreGlobal ----------------------------
EXTENDS CoreGlobal, TLC
=============================================================================
