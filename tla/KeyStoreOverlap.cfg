\* Starts overlap; a crash or an I/O error strikes any of them.
CONSTANTS
  p1 = p1  p2 = p2  p3 = p3
  k1 = k1  k2 = k2  k3 = k3
  Procs = {p1, p2}
  Persistent = {p1, p2}
  Keys = {k1, k2, k3}
  NoKey = NoKey
  Mangled = Mangled
  MaxFaults = 1
SPECIFICATION Spec
INVARIANTS
  InstallOrder
PROPERTY
  DirectoryFills
