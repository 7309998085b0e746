--------------------------- MODULE MC_StreamOutput ---------------------------
EXTENDS StreamOutput
=============================================================================
