SPECIFICATION FairSpec
CONSTANTS
    Users = {root, alice}
    Reports = {r1, r2}
    Root = root
    NoReporter = noReporter
    Unset = unset
    Late = late
    MaxTokens = 2
    MaxRestores = 1
INVARIANTS
    TypeOK
PROPERTIES
    NoForeignKeyErrors
    RefusalsChangeNothing
    AuthorityIsGranted
    DemotionTakesHold
