CONSTANTS
    fast = fast
    balanced = balanced
    strong = strong
    code = code
    bugs = bugs
    Dimensions = {code, bugs}
    Models = {fast, balanced, strong}
    CandidateModels = {fast, balanced, strong}
    CheapChain <- MCCheapChain
    EscalateTo = strong
    K = 1
    DimensionMap <- MCDimensionMap
    DefaultModel = fast
    Scores = {0, 1, 2}
    One = 2
    None = none
    MaxObservations = 3
SPECIFICATION Spec
INVARIANTS
    TypeOK
    ChosenIsBest
    AttemptsRemembered
PROPERTIES
    MemoryOutranksConfiguration
