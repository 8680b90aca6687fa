SPECIFICATION FairSpec
CONSTANTS
    Components = {"c1"}
    Versions = 1
    Durations <- QueueDurations
    MaxTime = 9
    LastChange = 4
    MaxDelay = 1
    DrainEvery = 2
    MaxRepeats = 0
    MaxLost = 2
    MaxReorders = 0
    Modeling = TRUE
    Absent = Absent
PROPERTIES
    FinallyInSync
CHECK_DEADLOCK FALSE
