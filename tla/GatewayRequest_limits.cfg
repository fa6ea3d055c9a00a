CONSTANTS
    r1 = r1
    r2 = r2
    m1 = m1
    m2 = m2
    m3 = m3
    k1 = k1
    k2 = k2
    Credentials <- MCCredentials
    Priority <- MCPriority
    Limit <- MCLimit
    Rules <- MCRules
    KeyLimit <- MCKeyLimit
    MaxRetryCount = 2
    RouterEnabled = TRUE
    MaxWindow = 1
    Requests = {r1, r2}
    Models = {m1}
    Candidates = {m1}
    Costs <- MCCosts
    Kinds = {"message"}
    CustomRouter = FALSE
    Outcomes <- MCFewOutcomes
    Fallbacks <- MCOnce
SPECIFICATION Spec
CHECK_DEADLOCK FALSE
SYMMETRY SymmetricRequests
INVARIANTS
    KeyLimitsHold
    AnswersCountedOnce
    OvershootBounded
