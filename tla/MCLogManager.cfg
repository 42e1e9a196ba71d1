SPECIFICATION Spec
INVARIANTS AssociationsMatchLogs ForeignUpdateNeedsOverlap WaitersAreQueued CountersAgree
PROPERTY ActorDiesOnlyByDisconnect
SYMMETRY Symmetry
CONSTANTS
  Requests = {r1, r2, r3}
  Keys = {k1, k2}
  Viewers = {v1}
  Main = main
  Limits = {1, 2}
  Capacity = 1
  None = None
CHECK_DEADLOCK FALSE
