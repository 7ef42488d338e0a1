\* Two generations of one path and a file of its own; one change by others,
\* one fault and one retry.
SPECIFICATION FairSpec
CONSTANTS
    Path = {"p", "q"}
    Obj <- ThreeObjects
    SubMs <- FineStamped
    Nothing = Nothing
    Other = Other
    RetryCount = 1
    MaxTouches = 1
    MaxFaults = 1
INVARIANTS IInv
PROPERTIES OnlyOwnRemoved RefusalIsFinal DueSettles
