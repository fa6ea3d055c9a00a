\* Two concurrent requests, the reset command and a hot configuration update.
CONSTANTS
    t1 = t1
    t2 = t2
    Tasks = {t1, t2}
    Bypassing = {t1, t2}
    Disconnecting = {t1, t2}
    a1 = a1
    Admins = {a1}
    Configs <- TwoConfigs
    Word = 4
SPECIFICATION Spec
SYMMETRY Symmetric
INVARIANTS
    TypeOK
    PermitsCounted
    OneProbePerHalfOpen
    EveryOpeningStamped
PROPERTY ClosedNeverHalfOpens
