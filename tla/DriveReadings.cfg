SPECIFICATION Spec
CONSTANTS
    None = None
    Unit <- UnitDef
    Sectors = "Total_LBAs_Written"
    NotHostBytes = {"Host_Writes_GiB"}
    PreferredId = 241
    Max48 = 4000
    Max64 = 100000000
    NvmeUnit = 500
    MinHours = 10
    BytesPerHour = 5000
    Word = 256
    HoursWord = 1000
    MaxHours = 2000
    MaxTemperature = 100
    PECycles = 10
    Values = {0, 96}
    Edited <- EditedDef
    MaxLimits = 1
    Drives = {"disk", "ssd", "nvme", "slot"}
    Answers <- AnswersDef
INVARIANTS
    FailureIsShown
    ReadingCanBeAccepted
    SensorsAgree
    UnhealthyNeedsAttention
    NothingInherited
    ReasonsAreOnTheCard
    EveryRowIsShown
PROPERTIES
    FailedReadsChangeNothing
    AcceptSettles
