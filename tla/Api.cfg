SPECIFICATION Spec
CONSTANTS
    c1 = c1
    c2 = c2
    Clients <- MCClients
    MAX_PARALLEL = 1
    Version = "v2"
    VersionInUrl = FALSE
    Pages = 2
    MaxCalls <- MCMaxCalls
    MaxFailures = 1
    MaxExpiries = 2
INVARIANTS
    NoPlaceLost
PROPERTIES
    ExpiryIsInvisible
    AllAnswered
CHECK_DEADLOCK FALSE
