CONSTANTS
  Client = {c1, c2}
  Delay = {1, 2}
  NoClient = none
  MaxStarts = 3
  MaxTime = 4
SPECIFICATION Spec
INVARIANTS NeverEarly
CHECK_DEADLOCK FALSE
