\* Commands in any order; a stopped service may rest.
CONSTANTS
  c1 = c1  c2 = c2
  Clients = {c1, c2}
  Host = Host
  Free = Free
  KeysAtFirst = FALSE
  MaxStarts = 2
  MaxFaults = 2
SPECIFICATION FairSpec
INVARIANTS
  TypeOK
  RunningIsStoppable
  StoppedIsDeaf
  OnlineWhenListening
  NoPanic
  KeysOfOneSetup
PROPERTIES
  PairKept
  StopTakesEffect
  ConnectionServed
  StartAnswered
CHECK_DEADLOCK FALSE
