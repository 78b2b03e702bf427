\* Crashes anywhere, no failed write: the journal implements the ledger.
SPECIFICATION Spec
CONSTANTS
    NoSession = NoSession
    NoTurn = NoTurn
    NoFragment = NoFragment
    SessionIds = {s1, s2}
    TurnIds = {t1, t2}
    CallIds = {c1}
    ShellCalls = {c1}
    Fragments = {f1, g1}
    Garbled = {g1}
    IOErrors = FALSE
    MaxLines = 6
    MaxCrashes = 2
SYMMETRY Symmetry
INVARIANTS
    TypeOK
    JournalIsTruth
PROPERTIES
    ImplementsLedger
    StartedStaysUnknown
    FinalizedFrozen
CHECK_DEADLOCK FALSE
