\* Requests and stops in any order.
CONSTANTS
  r1 = r1  r2 = r2  r3 = r3
  Requests = {r1, r2, r3}
  Nobody = Nobody
  X <- MCX
  Y <- MCY
  MaxFaults = 0
SPECIFICATION Spec
INVARIANTS
  OnlySolvable
  ValidSucceeds
