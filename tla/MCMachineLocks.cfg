CONSTANTS
  o1 = o1
  o2 = o2
  o3 = o3
  p1 = p1
  p2 = p2
  f1 = f1
  f2 = f2
  Objects = {o1, o2, o3}
  Mutexes = {o3}
  Processes = {p1, p2}
  ProcessOf <- MCProcessOf
  Files = {f1, f2}
  NamesOf <- MCNamesOf
  Nobody = Nobody
  NoName = NoName
SPECIFICATION Spec
INVARIANTS
  MutualExclusion
  LevelsAgree
  WriterIsAlone
PROPERTIES
  NobodyWaitsForNobody
