CONSTANTS
  Handle = {h1, h2}
  WaitForClose = {}
  BadApn = TRUE
  AllowRestart = TRUE
  MaxInFlight = 3
SPECIFICATION Spec
INVARIANTS ReleasedIsEmpty OpenIsAcquired WaitingIsServed
