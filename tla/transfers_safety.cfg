\* Both modes: one file and its replacement, a concurrent "Scan now", a
\* crash and an edit of the rule.
SPECIFICATION Spec
CONSTANTS
    Path = {"p"}
    Gen <- Resized
    None = None
    Manual = {"manual"}
    Modes = {"copy", "move"}
    InitialBehavior = "process_existing"
    RetryCount = 1
    MaxScans = 2
    Reserved = 0
    MaxCrashes = 1
    MaxLapses = 0
    MaxEdits = 1
INVARIANTS
    DoneMeansDelivered
    QueuedMeansSettled
    IInv
PROPERTIES
    SettledStaysSettled
