SPECIFICATION Spec
CONSTANTS
    Region = "RegionOne"
    HostId <- MCHostId
    IgnoredHosts = {"ceph@ceph"}
    NovaApiHosts = {"nodeA"}
    CinderApiHosts = {"nodeB"}
    ExtraHosts = {}
    ExtraApiEndpoints = {}
    Clouds <- MCClouds
    Edits <- MCEdits
    OwnTenant = "t1"
    NovaUrl = {"nodeA.example.com"}
    CinderUrl = {"nodeA"}
    MaxEdits = 1
    MaxFailures = 1
PROPERTIES
    EventsKeepUp
    ComponentsReported
    ReferencesReported
    FinallyTrue
CHECK_DEADLOCK FALSE
