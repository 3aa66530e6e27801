--------------------------- MODULE MCAttemptLedger ---------------------------
\* Small instances of AttemptLedger for TLC.
EXTENDS AttemptLedgerProofs, TLC

Symmetry == Permutations(Workers) \cup Permutations(Sigs)
=============================================================================
