\* One fault of any kind, a live agent, a policy with a repository.
SPECIFICATION LiveSpec
CONSTANTS
    r1 = r1
    r2 = r2
    None = None
    Run = {r1, r2}
    Operations = {"source-scan"}
    PolicyBound = TRUE
    Budget <- LiveBudget
    MaxUnderWay = 1
PROPERTIES
    RunsEnd
    DueSlotIsTaken
    StatusSettles
