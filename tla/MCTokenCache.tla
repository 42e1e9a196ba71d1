---------------------------- MODULE MCTokenCache ----------------------------
EXTENDS TokenCache, TLC

Symmetry == Permutations(Handles) \cup Permutations(Keys)
              \cup Permutations(Rests) \cup Permutations(Addresses)

=============================================================================
