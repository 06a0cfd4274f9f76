\* Commands in any order.
CONSTANTS
  c1 = c1  c2 = c2
  Clients = {c1, c2}
  Host = Host
  Free = Free
  KeysAtFirst = TRUE
  MaxStarts = 2
  MaxFaults = 0
SPECIFICATION Spec
INVARIANTS
  DeafWhenStopped
CHECK_DEADLOCK FALSE
