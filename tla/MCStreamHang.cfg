SPECIFICATION Spec
INVARIANT NeverHangs
CONSTANTS
  HEADER = 2
  BODY = 1
  MaxFrames = 3
  None = None
CHECK_DEADLOCK FALSE
