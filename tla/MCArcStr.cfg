SPECIFICATION Spec
INVARIANTS HandlesAreValid EqualContentsShare NothingLeaks LateReadNeedsOverlap
CONSTANTS
  Handles = {h1, h2, h3, h4}
  Contents = {c1, c2}
  Addresses = {a1, a2, a3, a4}
  None = None
SYMMETRY Symmetry
