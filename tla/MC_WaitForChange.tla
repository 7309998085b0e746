-------------------------- MODULE MC_WaitForChange --------------------------
EXTENDS WaitForChange
=============================================================================
