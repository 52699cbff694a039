SPECIFICATION Spec
CONSTANTS
  sda = sda
  sdb = sdb
  NoDisk = NoDisk
  NoSerial = NoSerial
  Disks = {d1}
  Serials = {d1}
  SerialOf <- Itself
  Paths <- MCPaths
  Ids <- MCIds
  Slug <- MCSlug
  ScanProtocol <- AllATA
  DeviceOverrides <- OverrideB
  Excluded = {}
  UsesStandby = TRUE
  DevstatEnabled = FALSE
  MaxStrikes = 2
  MaxPolls = 2
INVARIANT UnreadableWasNotRead
