CONSTANTS
    r1 = r1
    r2 = r2
    p1 = p1
    p2 = p2
    p3 = p3
    Requests = {r1, r2}
    Providers = {p1, p2}
    Queue <- MCQueue
    Anthropic = {p1}
    MaxRetries = 1
    Errors <- MCErrors
SPECIFICATION Spec
INVARIANTS
    TypeOK
    PermitsReturned
    AttemptsSettledOnce
    OnlyClientErrorsStopFailover
    ConnectionsCounted
    SwitchesNotDoubled
