--------------------------- MODULE MCTokenManager ---------------------------
(* Small instances of TokenManager for TLC. *)
EXTENDS TokenManager

Symmetry == Permutations(Keys) \cup Permutations(Names) \cup Permutations(Readers)

=============================================================================
