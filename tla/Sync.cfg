SPECIFICATION Spec
CONSTANTS
    Components = {"c1"}
    Versions = 2
    Durations <- QueueDurations
    MaxTime = 9
    LastChange = 4
    MaxDelay = 1
    DrainEvery = 2
    MaxRepeats = 2
    MaxLost = 1
    MaxReorders = 3
    Modeling = FALSE
    Absent = Absent
INVARIANTS
    SameVersions
    SameComponents
PROPERTIES
    DeletedStaysDeleted
CHECK_DEADLOCK FALSE
