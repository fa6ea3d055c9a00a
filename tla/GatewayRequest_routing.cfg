CONSTANTS
    r1 = r1
    r2 = r2
    m1 = m1
    m2 = m2
    m3 = m3
    k1 = k1
    k2 = k2
    Credentials <- MCCredentials
    Priority <- MCPriority
    Limit <- MCLimit
    Rules <- MCRules
    KeyLimit <- MCKeyLimit
    MaxRetryCount = 2
    RouterEnabled = TRUE
    MaxWindow = 1
    Requests = {r1}
    Models = {m1, m2, m3}
    Candidates = {m1, m2}
    Costs <- MCOneCost
    Kinds <- Kind
    CustomRouter = TRUE
    Outcomes <- Outcome
    Fallbacks <- MCFallbacks
SPECIFICATION FairSpec
CHECK_DEADLOCK FALSE
INVARIANTS
    TypeOK
    RouterFailureKeepsRoute
    FallbackAsEntitled
PROPERTIES
    EveryRequestAnswered
