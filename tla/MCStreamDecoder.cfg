SPECIFICATION FairSpec
INVARIANTS ReadIsAnsweredOnce InOrderUnlessLate WholeAnswerIsSent
PROPERTY EveryResponseEnds
CONSTANTS
  HEADER = 2
  BODY = 1
  MaxFrames = 4
  None = None
CHECK_DEADLOCK FALSE
