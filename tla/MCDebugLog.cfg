SPECIFICATION FairSpec
INVARIANTS EveryMessageOnce OrderedUnlessLate FlushWritesAll
PROPERTY EveryMessageIsWritten
CONSTANTS
  MAX_PENDING_MESSAGES = 2
  OUT_OF_ORDER_THRESHOLD = 1
  BUFFER_CAPACITY = 2
  MaxSeq = 5
  MaxFails = 1
CHECK_DEADLOCK FALSE
