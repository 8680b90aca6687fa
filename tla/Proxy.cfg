SPECIFICATION FairSpec
CONSTANTS
    a = a
    b = b
    c = c
    alpha = alpha
    beta = beta
    north = north
    south = south
    Hosts = {a, b, c}
    Devices = {alpha, beta}
    Endpoints = {north, south}
    EndpointOf <- MCEndpointOf
    SuggestedName <- MCSuggested
    Rank <- MCRank
    Uncreatable = {beta}
    MaxGuid = 8
INVARIANTS
    LinksAreMutual
PROPERTIES
    NotStolen
    DissolvedOnBothSides
    MaintainedAreServed
    FinallyServed
CHECK_DEADLOCK FALSE
