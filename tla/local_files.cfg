\* Four requests, two at a time, to the files of the gateway, with two failed
\* calls or restarts.
CONSTANTS
    Request = {r1, r2}
    Entry = {e1, e2}
    Password = {p1, p2}
    None = None
    Half = Half
    MaxActs = 4
    MaxFaults = 2

SPECIFICATION Spec

\* The process may be unable to start, and the requests end.
CHECK_DEADLOCK FALSE

SYMMETRY RequestSymmetry

INVARIANTS IInv ConfigKept
