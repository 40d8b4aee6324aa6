--------------------------- MODULE MCTaskScheduler --------------------------
EXTENDS TaskScheduler, TLC

Symmetry == Permutations(Tasks) \cup Permutations(Pods)
=============================================================================
