SPECIFICATION UpkeepSpec
CONSTANTS
    MaxTrouble = 3
    MaxTime = 3
    Paths = {"index", "scratch"}
    Rebuildable = {"index"}
    Contents = {"c1"}
    Retention = 1
    Grace = 1
    MaxGcs = 2
    Texts = {"text"}
    Binaries = {"image"}
    MaxRecords = 4
    Configs = {"config"}
    LegacyTurns <- Turns
    Budget <- Budgets
    MaxPlans = 3
INVARIANTS
    UpkeepTypeOK
PROPERTIES
    GcLosesNothing
    EvidenceSealed
    MigrationHonest
CHECK_DEADLOCK FALSE
