CONSTANTS
  a = a
  b = b
  none = none
  NoOptions = none
  Client <- Clients
  Session <- Three
  ClientOf <- ClientOfThree
  Option <- Intervals
  NoCallback = {}
  StartInvalid = FALSE
  DistanceSupported = TRUE
  EngineMayFail = FALSE
  AllowRemove = TRUE
  AllowUpdate = FALSE
  MaxCommands = 4
  MaxRestarts = 0
SPECIFICATION Spec
INVARIANTS EngineOffWhenIdle
CHECK_DEADLOCK FALSE
