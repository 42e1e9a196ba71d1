--------------------------- MODULE MCTokenService ---------------------------
(* A small instance of TokenService for TLC. *)
EXTENDS TokenService

Symmetry == Permutations(Keys) \cup Permutations(Names)
=============================================================================
