-------------------------- MODULE MCVaultLifecycle --------------------------
EXTENDS VaultLifecycle, TLC

CONSTANTS r1, r2, source, copy, p1, k1, t1

\* Slots are alike.
Alike == Permutations(Slot)
=============================================================================
