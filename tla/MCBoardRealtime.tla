-------------------------- MODULE MCBoardRealtime --------------------------
EXTENDS BoardRealtime, TLC
MCSymmetry == Permutations(Sockets)
=============================================================================
