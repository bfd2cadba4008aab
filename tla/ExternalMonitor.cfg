CONSTANTS
  f1 = f1
  f2 = f2
  o1 = o1
  o2 = o2
  o3 = o3
  c1 = c1
  c2 = c2
  NoPath = NoPath
  NoObject = NoObject
  Paths = {f1, f2}
  Objects = {o1, o2}
  Contents = {c1, c2}
  MaxStamp = 2
  MaxGeneration = 6
  Faults = {"monitor"}
SPECIFICATION Spec
INVARIANTS OneObservation AlertWasTrue
PROPERTIES AlertCatchesUp
CHECK_DEADLOCK FALSE
