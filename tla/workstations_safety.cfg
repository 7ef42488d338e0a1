\* Two requested runs and a scheduled one, one edit of the policy, one fault.
SPECIFICATION Spec
CONSTANTS
    r1 = r1
    r2 = r2
    r3 = r3
    None = None
    Run = {r1, r2, r3}
    Operations = {"source-scan", "restore"}
    PolicyBound = FALSE
    Budget <- SafetyBudget
    MaxUnderWay = 1
SYMMETRY RunSymmetry
INVARIANTS
    IInv
    SlotRunsOnce
    RestoreNeverRetried
    ShownScanIsStored
PROPERTIES
    NoSlotSkipped
    ResultIsTheHolders
