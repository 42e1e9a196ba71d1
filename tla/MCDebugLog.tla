----------------------------- MODULE MCDebugLog -----------------------------
EXTENDS DebugLog
=============================================================================
