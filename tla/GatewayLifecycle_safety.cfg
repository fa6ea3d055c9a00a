CONSTANTS
    Callers = {c1, c2}
    Processes = {p1, p2, p3, p4}
    MaxFaults = 2
SPECIFICATION Spec
CHECK_DEADLOCK FALSE
CONSTRAINT NothingForgotten
SYMMETRY Symmetry
INVARIANTS
    TypeOK
    OneCorePerRun
    NoStrayCore
    StatusTellsCore
