---------------------------- MODULE MCAcceptLoop ----------------------------
EXTENDS AcceptLoop
=============================================================================
