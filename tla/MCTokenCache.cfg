SPECIFICATION Spec
INVARIANTS HandlesAreValid CleanUseIsSafe
CONSTANTS
  Handles = {h1, h2, h3}
  Keys = {k1, k2}
  Rests = {s1, s2}
  Addresses = {a1, a2, a3}
  None = None
  MaxWrap = 2
SYMMETRY Symmetry
CHECK_DEADLOCK FALSE
