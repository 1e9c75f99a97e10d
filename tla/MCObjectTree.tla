---------------------------- MODULE MCObjectTree ----------------------------
EXTENDS ObjectTree, TLC

Interchangeable == Permutations(Engines) \cup Permutations(Modules)
                      \cup Permutations(Domains) \cup Permutations(Programs)
=============================================================================
