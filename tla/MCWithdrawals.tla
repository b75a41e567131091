--------------------------- MODULE MCWithdrawals ---------------------------
EXTENDS Withdrawals, TLC

CONSTANTS w1, h1, h2

Symmetry == Permutations({h1, h2})
============================================================================
