----------------------------- MODULE MCAccounts -----------------------------
EXTENDS Accounts, TLC

Symmetry == Permutations(Persons) \cup Permutations(Names)
=============================================================================
