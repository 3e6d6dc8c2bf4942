SPECIFICATION FairSpec
CONSTANTS
    Metrics = {"coolant_pressure", "coolant_flow_rate"}
    Codes = {"steam_pressure_anomaly", "coolant_flow_reduction"}
    ExcursionCodeMap <- MCCodeMap
    DebounceTicks = 2
    Types = {t1, t2}
    Reports = {r1, r2, r3}
    Uids = {u1, u2}
    Staff = staff
    MaxFaults = 1
    MaxEdits = 1
INVARIANTS
    TypeOK
    AtMostOneOpenAuto
    OnlyDebouncedCodes
PROPERTIES
    SustainedDangerIsReported
CHECK_DEADLOCK FALSE
