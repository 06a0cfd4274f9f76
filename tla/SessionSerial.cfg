\* One request or stop at a time.
CONSTANTS
  r1 = r1  r2 = r2  r3 = r3
  Requests = {r1, r2, r3}
  Nobody = Nobody
  X <- MCX
  Y <- MCY
  MaxFaults = 2
SPECIFICATION SerialSpec
INVARIANTS
  TypeOK
  AnswerIsOwn
  RestingPairVerifies
  StoppedIsClear
PROPERTIES
  Answered
  ImplementsRelay
