CONSTANTS
  Part = {"time", "mixed", "ni"}
  a = a
  b = b
  none = none
  e1 = e1
  s1 = s1
  MaxCommands = 4
  MaxMixed = 3
  Request <- TwoRequests
  TypeOf <- Types
  NoRequest = none
  SuplEsNo = FALSE
  CpMtlrEs = FALSE
  ClientsChange = TRUE
  AllowRestart = TRUE
SPECIFICATION SessionsSpec
INVARIANTS EveryCommandAnswered EngineServesSessions SessionsAreWhole AcceptIsTheUsers
CHECK_DEADLOCK FALSE
