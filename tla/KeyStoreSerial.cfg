\* One start at a time on the directory; p3 keeps its keys in memory.
CONSTANTS
  p1 = p1  p2 = p2  p3 = p3
  k1 = k1  k2 = k2  k3 = k3
  Procs = {p1, p2, p3}
  Persistent = {p1, p2}
  Keys = {k1, k2, k3}
  NoKey = NoKey
  Mangled = Mangled
  MaxFaults = 2
SPECIFICATION SerialSpec
INVARIANTS
  TypeOK
  InstalledWhole
  EnginesAgree
  NoInheritedFailure
PROPERTIES
  InstalledKeysKept
  ImplementsDirectory
  StartCompletes
