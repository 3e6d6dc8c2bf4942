SPECIFICATION FairSpec
CONSTANTS
    Metrics = {m1, m2}
    Levels = {normal, danger}
    MaxTicks = 2
    MaxFaults = 3
INVARIANTS
    TypeOK
    PublishedIsDurable
    AlarmsAgree
PROPERTIES
    SnapshotAdvances
    AlarmReachesBroker
    StopEnds
CHECK_DEADLOCK FALSE
