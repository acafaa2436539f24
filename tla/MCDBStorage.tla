---------------------------- MODULE MCDBStorage ----------------------------
EXTENDS DBStorage, TLC

Symmetry == Permutations(Tests)
=============================================================================
