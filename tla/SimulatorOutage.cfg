SPECIFICATION Spec
CONSTANTS
    Metrics = {m1}
    Levels = {normal, danger}
    MaxTicks = 1
    MaxFaults = 1
PROPERTIES
    HandlerReconnects
CHECK_DEADLOCK FALSE
