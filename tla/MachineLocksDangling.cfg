CONSTANTS
  o1 = o1
  o2 = o2
  o3 = o3
  p1 = p1
  p2 = p2
  f1 = f1
  f2 = f2
  Objects = {o1}
  Mutexes = {o1}
  Processes = {p1}
  ProcessOf <- OneProcess
  Files = {f1}
  NamesOf <- OneName
  Nobody = Nobody
  NoName = NoName
SPECIFICATION Spec
INVARIANT LocksAreLive
