\* Copy rule, one file that is replaced, a concurrent "Scan now"; listings,
\* transfers and leases may fail, the gateway stays up.
SPECIFICATION LiveSpec
CONSTANTS
    Path = {"p"}
    Gen <- Resized
    None = None
    Manual = {"manual"}
    Modes = {"copy"}
    InitialBehavior = "process_existing"
    RetryCount = 1
    MaxScans = 3
    Reserved = 1
    MaxCrashes = 0
    MaxLapses = 1
    MaxEdits = 0
PROPERTIES
    StableFilesSettle
