CONSTANTS
  Part = {"ni"}
  a = a
  b = b
  none = none
  e1 = e1
  s1 = s1
  MaxCommands = 0
  MaxMixed = 0
  Request <- TwoRequests
  TypeOf <- BothSupl
  NoRequest = none
  SuplEsNo = FALSE
  CpMtlrEs = FALSE
  ClientsChange = FALSE
  AllowRestart = FALSE
SPECIFICATION SessionsSpec
INVARIANTS AcceptIsTheUsers
CHECK_DEADLOCK FALSE
