SPECIFICATION Spec
CONSTANTS
    Actuators = {rod}
    Requests = {q1}
    ConnectAttempts = 5
    MaxSetpoints = 1
    MaxOutages = 1
    MaxRestarts = 0
PROPERTIES
    AdmitsOnlyLive
CHECK_DEADLOCK FALSE
