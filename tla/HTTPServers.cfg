\* Two v1 processes on one key directory.
CONSTANTS
  v0a = v0a  v1a = v1a  v1b = v1b  odd = odd
  k1 = k1  k2 = k2
  Procs = {v1a, v1b}
  Persistent = {v1a, v1b}
  Keys = {k1, k2}
  NoKey = NoKey
  HashModeEnv <- MCHashModeEnv
  Requests <- HTTPRequests
  Modulus = 5
  MaxIssued = 2
  MaxExported = 2
  MaxAccepted = 1
  MaxAnswers = 2
SYMMETRY Symmetry
SPECIFICATION ServerSpec
INVARIANTS
  TypeOK
  BundleVerifies
  ArtifactFits
  AcceptedWasProved
  RepeatedAnswersAgree
  HealthAnnounces
  OutputFits
