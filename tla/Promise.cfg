SPECIFICATION HSpec
CONSTANTS
    c1 = c1
    c2 = c2
    p = p
    r = r
    v1 = v1
    v2 = v2
    Components = {c1, c2}
    Props = {p}
    Rels = {r}
    Values = {v1, v2}
    Payloads <- MixedPayloads
    Settings <- OneSetting
    MaxTime = 5
    MaxPending = 2
    Never = Never
INVARIANTS
    CreationsAreIndependent
    HeldIsAggregate
PROPERTIES
    SplitIsLossless
    NoResurrection
    NothingLost
    ImplementsPromise
