CONSTANTS
  a = a
  b = b
  none = none
  NoOptions = none
  Client <- Clients
  Session <- Two
  ClientOf <- ClientOfTwo
  Option <- Distances
  NoCallback = {b}
  StartInvalid = TRUE
  DistanceSupported = TRUE
  EngineMayFail = TRUE
  AllowRemove = TRUE
  AllowUpdate = TRUE
  MaxCommands = 3
  MaxRestarts = 1
SPECIFICATION FairSpec
INVARIANTS AnsweredAtMostOnce
PROPERTIES ComesToRest StopIsFinal
CHECK_DEADLOCK FALSE
