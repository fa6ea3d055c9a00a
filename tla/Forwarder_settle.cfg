CONSTANTS
    r1 = r1
    r2 = r2
    p1 = p1
    p2 = p2
    p3 = p3
    Requests = {r1}
    Providers <- MCProviders
    Queue <- MCLongQueue
    Anthropic = {p1}
    MaxRetries = 1
    Errors <- MCAllErrors
SPECIFICATION FairSpec
PROPERTY
    FailoverRequestsSettle
