------------------------- MODULE MC_SessionRestart -------------------------
(* Model-checking instance of SessionRestart.                              *)
EXTENDS SessionRestart, TLC

CONSTANTS a, b, c

MCNames == {a, b, c}
MCSymmetry == Permutations(MCNames)
\* No name starts with another: restarts alone are under test.
MCPrefixOf == {}
=============================================================================
