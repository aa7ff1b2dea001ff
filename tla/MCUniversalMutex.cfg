CONSTANTS
  a1 = a1
  a2 = a2
  a3 = a3
  m1 = m1
  m2 = m2
  i1 = i1
  i2 = i2
  i3 = i3
  Agents = {a1, a2, a3}
  Machines = {m1, m2}
  MachineOf <- MCMachineOf
  Ids = {i1, i2, i3}
  NoId = NoId
  Absent = Absent
  IdOf <- MCIdOf
  Accepted <- MCAccepted
  Listening = {a1}
  Nobody = Nobody
SPECIFICATION Spec
INVARIANTS
  OneOwnerPerMachine
  MutexFollowsFlag
  IntrudersAreForeign
PROPERTIES
  LossIsNoticed
