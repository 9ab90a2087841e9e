----------------------------- MODULE MCTypeCast -----------------------------
EXTENDS TypeCast
=============================================================================
