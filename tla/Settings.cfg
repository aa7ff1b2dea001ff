\* Two clients, so that one can sleep while the other posts a command; two values, so that
\* a change can be told from what is on disk.
CONSTANTS
  Clients = {c1, c2}
  Keys = {k1}
  Values = {v1, v2}
  Absent = Absent
  Garbled = Garbled
SPECIFICATION DSpec
INVARIANTS
  NoLostWakeup
  CleanCacheIsOnDisk
  DestructorSaves
PROPERTIES
  CommandsAreCarriedOut
  CommandsComplete
