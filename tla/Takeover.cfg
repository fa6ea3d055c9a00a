\* One application, Claude, whose file a hot switch takes over; two commands at
\* once beside the start-up task (the commands of the server alone beside it),
\* every fault, a crash at any step.
CONSTANTS
    claude = claude
    codex = codex
    gemini = gemini
    Order <- OneClaude
    Kind <- KindOf
    x1 = x1
    x2 = x2
    Providers = {x1, x2}
    Official = {x1}
    n1 = n1
    n2 = n2
    Ports = {n1, n2}
    p1 = p1
    p2 = p2
    Callers = {p1, p2}
    Boot = boot
    Commands <- AllCommands
    Faults <- EveryFault
    User = user
    Clean = clean
    None = none
SPECIFICATION Spec
CONSTRAINT OthersAlone
SYMMETRY Symmetric
INVARIANTS
    TypeOK
    BackupNeverTakenOver
    UserConfigKept
PROPERTIES
    NeverDisabledWhileTakenOver
    KeepsCustody
