CONSTANTS
  Part = {"requests", "fences", "instances", "hal 2.0", "hal 1.1", "debug 2.0", "debug 1.0",
          "measurements", "batches", "geofences", "control"}
  none = none
  MaxCalls = 4
  MaxHeard = 5
SPECIFICATION Spec
INVARIANTS AnswersAreTheirOwn SessionsAreKnown FencesAgree DestroyIsComplete ReportsReachTheLast ServesTheLiving ReportTellsTheLatest
CHECK_DEADLOCK FALSE
