CONSTANTS
  Part = {"positions"}
  Reported <- AnyTwo
  none = none
  keep = keep
  MaxTrips = 1
  MaxFences = 1
  MaxCalls = 1
  MaxLocks = 1
  MaxLists = 1
  MaxListed = 1
SPECIFICATION Spec
INVARIANTS ValidIsTheEngines
CHECK_DEADLOCK FALSE
