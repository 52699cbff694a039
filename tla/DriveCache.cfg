SPECIFICATION Spec
CONSTANTS
  sda = sda
  sdb = sdb
  NoDisk = NoDisk
  NoSerial = NoSerial
  Disks = {d1, d2}
  Serials = {d1, d2}
  SerialOf <- Itself
  Paths <- MCPaths
  Ids <- MCIds
  Slug <- MCSlug
  ScanProtocol <- MixedScan
  DeviceOverrides <- OverrideB
  Excluded = {}
  UsesStandby = TRUE
  DevstatEnabled = FALSE
  MaxStrikes = 2
  MaxPolls = 2
SYMMETRY Symmetry
INVARIANTS
  OneDrivePerPath
  StaleIsMarked
  NeverFabricated
  LostSerialGaveSmart
PROPERTY KeepsScannedDrive
