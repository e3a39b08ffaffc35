------------------------------ MODULE MCRequests ------------------------------
EXTENDS Requests, TLC

CONSTANTS n1, n2

MCNodes == {n1, n2}
MCSymmetry == Permutations(MCNodes)
MCTextScores == {500}
=============================================================================
