---------------------------- MODULE MCBuildFlow ----------------------------
EXTENDS BuildFlow, TLC

Symmetry == Permutations(Requests) \cup Permutations(Names)
=============================================================================
