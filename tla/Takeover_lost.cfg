\* The user's file, as the comments state it, when a takeover meets a stop.
CONSTANTS
    claude = claude
    codex = codex
    gemini = gemini
    Order <- OneClaude
    Kind <- KindOf
    x1 = x1
    x2 = x2
    Providers = {x1, x2}
    Official = {x1}
    n1 = n1
    n2 = n2
    Ports = {n1}
    p1 = p1
    p2 = p2
    Callers = {p1, p2}
    Boot = boot
    Commands <- EnableOrStop
    Faults <- NoFault
    User = user
    Clean = clean
    None = none
SPECIFICATION Spec
INVARIANT UserConfigNeverLost
