\* Two writers and a backup over the two files of a ticker.
SPECIFICATION Spec
CONSTANTS
    Writers <- TwoWriters
    Service = "service"
    Files <- TwoFiles
    StaleAge = 1
    MaxWrite = 0
    MayForce = TRUE
    MaxCycles = 2
    MaxDeaths = 1
    MaxBackups = 2
CHECK_DEADLOCK FALSE
INVARIANTS
    BackupIsRecent
    AcknowledgedStays
    WriterUndisturbed
    BackupFaithful
