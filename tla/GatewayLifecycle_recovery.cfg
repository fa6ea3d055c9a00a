CONSTANTS
    Callers = {c1}
    Processes = {p1, p2, p3}
    MaxFaults = 2
SPECIFICATION FairSpec
CHECK_DEADLOCK FALSE
PROPERTIES
    OrphanReclaimed
    OneAtATime
