------------------------------- MODULE MCArena -------------------------------
EXTENDS Arena

\* a block of one byte, one that crosses the alignment, and the largest one
MCSizes == {1, 5, 11}
=============================================================================
