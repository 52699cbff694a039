SPECIFICATION Spec
CONSTANTS
  m1 = m1
  m2 = m2
  label = label
  limit = limit
  None = None
  Fields = {field}
  Self = self
  Machines = {m1, m2}
  MachineOf <- TwoMachines
  Entries = {e1, e2}
  Settings = {limit}
  Immediate = {}
  Wants <- AllSettings
  Jobs = {j1}
INVARIANTS
  MadeOnce
  NothingLost
  GoneIsForgotten
PROPERTIES
  UserWins
