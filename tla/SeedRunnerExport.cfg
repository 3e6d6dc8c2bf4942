SPECIFICATION Spec
CONSTANTS
    smithers = smithers
    system = system
    legacy = legacy
    UserIds = {u1, u2, u3}
    TypeIds = {t1, t2}
    ReportIds = {r1, r2, r3}
    Emails = {smithers, system, legacy}
    Codes = {"T", "U"}
    Names = {"seed", "own"}
    Texts = {"paragraphs", "auto"}
    Statuses = {"open", "closed"}
    System = system
    Legacy = legacy
    Automatic = "auto"
    Open = "open"
    SeedUsers <- MCSeedUsers
    SeedTypes <- MCSeedTypes
    SeedReports <- MCLongReports
    TextRead <- MCTextRead
    CodeRead <- MCCodeRead
    Nothing = Nothing
    MaxEdits = 0
    MaxExports = 1
CHECK_DEADLOCK FALSE
INVARIANTS ExportCanBeSeeded
