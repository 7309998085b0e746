---------------------------- MODULE MC_PaneBuffer ----------------------------
EXTENDS PaneBuffer
=============================================================================
