SPECIFICATION Spec
CONSTANTS
    d1 = d1
    d2 = d2
    c1 = c1
    c2 = c2
    i1 = i1
    i2 = i2
    v1 = v1
    v2 = v2
    mapped = mapped
    other = other
    s0 = s0
    s1 = s1
    s2 = s2
    Malformed = Malformed
    None = None
    Devices = {d1}
    Components = {c1}
    Instances = {i1, i2}
    Vnics = {v1, v2}
    EventTypes = {mapped, other}
    Mapped = {mapped}
    Settings = {s0, s1, s2}
    DefaultSettings = s0
    Configs <- LiveConfigs
    EventPayloads = {}
    SamplePayloads <- LiveSamples
    Parent <- VnicParents
    Lifetime = 3
    Stride = 3
    MaxTime = 0
    MaxPosts = 2
    MaxConfigs = 2
    MaxFailures = 0
CHECK_DEADLOCK FALSE
INVARIANTS
    ParentIsKnown
