SPECIFICATION FairSpec
CONSTANTS
    Actuators = {rod,pump}
    Requests = {q1,q2}
    ConnectAttempts = 2
    MaxSetpoints = 2
    MaxOutages = 2
    MaxRestarts = 1
INVARIANTS
    TypeOK
    FollowsBroker
PROPERTIES
    ImplementsRegister
    EventuallyFollows
CHECK_DEADLOCK FALSE
