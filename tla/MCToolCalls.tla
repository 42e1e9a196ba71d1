---------------------------- MODULE MCToolCalls ----------------------------
EXTENDS ToolCalls, TLC

\* The requests are interchangeable.
Symmetry == Permutations(Requests)
=============================================================================
