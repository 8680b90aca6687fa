SPECIFICATION SSpec
CONSTANTS
    short = short
    full = full
    suffixed = suffixed
    address = address
    other = other
    forced = forced
    unprefixed = unprefixed
    h1 = h1
    h2 = h2
    None = None
    Loopback = Loopback
    Refs <- AllRefs
    Names <- MCNames
    Ids <- MCIds
    ValidIds <- MCValid
    Clean <- MCClean
    Length <- MCLength
    HostOf <- MCHostOf
    Settings <- MCSettings
    Sightings <- MCSightings
    Answers <- MCAnswers
    ServiceAnswers <- MCServiceAnswers
    Collection = Collection
INVARIANTS
    NoConflation
    NewTogether
    ServicesAreModeled
PROPERTIES
    IdsAreStable
    StatusReachesService
