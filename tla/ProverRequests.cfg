\* Many batches, well formed or not; the v0 engine keeps its keys in memory.
CONSTANTS
  v0a = v0a  v1a = v1a  v1b = v1b  odd = odd
  k1 = k1  k2 = k2
  Procs = {v0a, v1a, odd}
  Persistent = {v1a}
  Keys = {k1}
  NoKey = NoKey
  HashModeEnv <- MCHashModeEnv
  Requests <- MCRequests
  Modulus = 5
  MaxIssued = 1
  MaxExported = 1
  MaxAccepted = 1
SPECIFICATION Spec
INVARIANTS
  BundleVerifies
  AcceptedWasProved
  ChecksMatchCircuit
