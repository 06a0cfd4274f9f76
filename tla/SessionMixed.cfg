\* Two requests at the same time.
CONSTANTS
  r1 = r1  r2 = r2  r3 = r3
  Requests = {r1, r2}
  Nobody = Nobody
  X <- MCX
  Y <- MCY
  MaxFaults = 0
SPECIFICATION Spec
INVARIANTS
  AnswerIsOwn
