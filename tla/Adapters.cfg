CONSTANTS
  Part = {"routine", "trips", "fences", "breaches", "modem", "lock", "satellites", "answers", "lists", "reports", "hub", "views", "sentences", "positions",
          "processes"}
  Reported <- Together
  none = none
  keep = keep
  MaxTrips = 3
  MaxFences = 3
  MaxCalls = 2
  MaxLocks = 3
  MaxLists = 3
  MaxListed = 3
SPECIFICATION Spec
INVARIANTS BatchingIsServed FencesAreServed ModemIsFollowed ConfigurationHolds ReportsAreRight SentencesTellTheReport ProcessesAsConfigured
CHECK_DEADLOCK FALSE
