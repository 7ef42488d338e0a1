\* Two enrolments, under one name or two, two machines, and two acts of the
\* operator, two faults, or one of each.
SPECIFICATION Spec
CONSTANTS
    Device = {d1, d2}
    Machine = {m1, m2}
    Editor = {e1}
    Name = {n1, n2}
    Folder = {f1, f2}
    None = None
    MaxTokens = 3
    MaxEvents = 2
CHECK_DEADLOCK FALSE
SYMMETRY Symmetry
INVARIANTS IInv ShownIsWhole
PROPERTIES IdentityKept
