----------------------------- MODULE MCAccounts -----------------------------
EXTENDS Accounts, TLC
CONSTANTS r1, r2
MCRequests == {r1, r2}
Symmetry   == Permutations(MCRequests)
=============================================================================
