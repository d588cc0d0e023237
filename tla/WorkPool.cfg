SPECIFICATION FairSpec
CONSTANTS
  MaxTasks = 5
  U32 = 7
  Garbage = {0, 1, 6}
INVARIANTS TypeOK InOrder NoLostWakeup CountedOrDead
PROPERTIES AllStarted
CHECK_DEADLOCK FALSE
