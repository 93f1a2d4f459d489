SPECIFICATION FairSpec
CONSTANTS
  Threads = {t1, t2}
  MaxMessages = 3
  Levels = {2, 3}
INVARIANTS
  NothingOutOfTurn
PROPERTY
  SleeperIsHeard
CHECK_DEADLOCK FALSE
