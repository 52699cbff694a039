SPECIFICATION Spec
CONSTANTS
  None = None
  nas = nas
  copy = copy
  i1 = i1
  i2 = i2
  t = t
  d = d
  h1 = h1
  h2 = h2
  s1 = s1
  Agents = {nas, copy}
  NamesOf <- MCNames
  FirstName <- MCFirstName
  Ids = {i1, i2}
  Drives <- MCDrives
  Wants <- MCWants
  AppNames = {"copy"}
  Hosts = {h1, h2}
  NetOf <- MCNets
  AddressOf <- MCAddresses
  Tokens = {t}
  Slots = {s1, s2}
  Flows = {f1, f2}
  MaxChanges = 1
  MaxBegun = 2
  Starts <- MCStarts
SYMMETRY Symmetry
INVARIANTS
  UidsDiffer
  NoTwin
PROPERTIES
  IdentityStays
  MovedToItsAgent
CHECK_DEADLOCK FALSE
