\* The gateway's own executor: groups are persisted before the scan is
\* linked to its rule.
SPECIFICATION Spec
CONSTANTS
    Path = {"p", "q"}
    Gen = {1, 2}
    Obj <- OneReplaced
    Mode = "copy"
    Remote = FALSE
    Answers = {"complete"}
    RetryCount = 1
    MaxScans = 2
    MaxFaults = 0
CHECK_DEADLOCK FALSE
PROPERTIES TorrentsStayTogether
