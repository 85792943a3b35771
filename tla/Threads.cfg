CONSTANTS
  Part = {"heap", "detached", "joined", "owned", "odcpi", "consent", "restart", "agps", "ipc"}
  emergency = emergency
  ordinary = ordinary
  none = none
  h1 = h1
  h2 = h2
  Item = {1, 2, 3, 4, 5}
  Rank <- Ranks
  Sender = {"p", "q"}
  MaxSent = 2
  Joinable = TRUE
  OwnerDestroys = TRUE
  Period = 2
  MaxTime = 6
  MaxRestarts = 1
SPECIFICATION ThreadsSpec
INVARIANTS ContainersAreWhole NothingStrays RequestsAreServed
PROPERTIES IsPriorityQueue IsFifo ThreadsEnd ShownIsDisposed EveryRequestAnswered
CHECK_DEADLOCK FALSE
