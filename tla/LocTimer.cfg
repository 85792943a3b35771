CONSTANTS
  Client = {c1, c2}
  Delay = {1, 2}
  NoClient = none
  MaxStarts = 3
  MaxTime = 3
SPECIFICATION FairSpec
INVARIANTS TimersAreKept StopOrCallback
PROPERTIES EveryTimerEnds
CHECK_DEADLOCK FALSE
