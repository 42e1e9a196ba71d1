------------------------------ MODULE MCArcStr ------------------------------
EXTENDS ArcStr, TLC

Symmetry == Permutations(Handles) \cup Permutations(Contents) \cup Permutations(Addresses)

=============================================================================
