-------------------------- MODULE MC_WaitForPattern --------------------------
EXTENDS WaitForPattern

\* The pattern matches the third printed line.
MCMatchLate == {3}
\* The pattern matches the first printed line.
MCMatchFirst == {1}
=============================================================================
