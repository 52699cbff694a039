SPECIFICATION FairSpec
CONSTANTS
  m1 = m1
  m2 = m2
  label = label
  limit = limit
  None = None
  Fields = {field}
  Self = self
  Machines = {m1}
  MachineOf <- OneMachine
  Entries = {e1}
  Settings = {label, limit}
  Immediate = {label}
  Wants <- AllSettings
  Jobs = {j1}
PROPERTY WaitingIsFilled
