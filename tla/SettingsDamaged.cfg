\* One client is enough to load a damaged file.
CONSTANTS
  Clients = {c1}
  Keys = {k1}
  Values = {v1}
  Absent = Absent
  Garbled = Garbled
SPECIFICATION Spec
INVARIANT OnlyValidDataIsCached
