\* Two crashes inside the same append position.
SPECIFICATION Spec
CONSTANTS
    NoSession = NoSession
    NoTurn = NoTurn
    NoFragment = NoFragment
    SessionIds = {s1}
    TurnIds = {t1, t2}
    CallIds = {c1}
    ShellCalls = {}
    Fragments = {f1, f2, g1}
    Garbled = {g1}
    IOErrors = FALSE
    MaxLines = 4
    MaxCrashes = 2
INVARIANTS
    TornTailIsRepairable
CHECK_DEADLOCK FALSE
