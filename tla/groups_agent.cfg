\* A torrent of two files, one of which may be replaced or come back; a scan may find the
\* torrent complete, incomplete or rTorrent down, and there is one crash,
\* refused call or failed scan.
SPECIFICATION FairSpec
CONSTANTS
    Path = {"p", "q"}
    Gen = {1, 2}
    Obj <- OneReplaced
    Mode = "copy"
    Remote = TRUE
    Answers = {"complete", "incomplete", "down"}
    RetryCount = 1
    MaxScans = 2
    MaxFaults = 1
CHECK_DEADLOCK FALSE
INVARIANTS IInv
PROPERTIES TorrentsStayTogether PendingMovesOn
