---------------------------- MODULE MCLogManager ----------------------------
EXTENDS LogManager, TLC

Symmetry == Permutations(Requests) \cup Permutations(Keys)

=============================================================================
