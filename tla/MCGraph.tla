------------------------------- MODULE MCGraph -------------------------------
EXTENDS Graph

MCWeights == {1, 2}
MCOneWeight == {1}
=============================================================================
