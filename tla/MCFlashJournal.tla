--------------------------- MODULE MCFlashJournal ---------------------------
\* Small instances of FlashJournal for TLC.
EXTENDS FlashJournal, TLC

Symmetry == Permutations(Procs) \cup Permutations(Keys) \cup Permutations(Plans)
=============================================================================
