\* Crashes and failed writes: what still holds, and that the store reopens.
SPECIFICATION FairSpec
CONSTANTS
    NoSession = NoSession
    NoTurn = NoTurn
    NoFragment = NoFragment
    SessionIds = {s1}
    TurnIds = {t1, t2}
    CallIds = {c1}
    ShellCalls = {}
    Fragments = {f1, f2, g1}
    Garbled = {g1}
    IOErrors = TRUE
    MaxLines = 4
    MaxCrashes = 2
INVARIANTS
    MemorySound
PROPERTIES
    ReopensRecovered
CHECK_DEADLOCK FALSE
