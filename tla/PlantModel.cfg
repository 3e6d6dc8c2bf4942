SPECIFICATION FairSpec
CONSTANTS
    Resolution = 100
    Positions <- MCPositions
    MaxCommands = 2
INVARIANTS
    TypeOK
    QuietIsSteady
    DangerHasCode
    AlarmNeverTwoLevelsOff
PROPERTIES
    WarnsFirst
    Recovers
    StoppedPumpIsExcursion
