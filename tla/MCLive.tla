------------------------------- MODULE MCLive -------------------------------
EXTENDS LiveSync, TLC
Symmetry == Permutations(Clients) \cup Permutations(Sessions) \cup Permutations(Keys)
=============================================================================
