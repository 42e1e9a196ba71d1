SPECIFICATION CallsSpec
INVARIANTS ArgumentsAreWhole BlocksFollowCalls CollectedCallsArrive FinishReasonTells OneModelCallId
SYMMETRY Symmetry
CONSTANTS
  Requests = {r1, r2, r3}
  MaxMessages = 6
  MaxShared = 2
  MaxCalls = 2
  MaxLen = 2
  Nil = Nil
CHECK_DEADLOCK FALSE
