\* The ledger on its own, two sessions and two turns of one ordinary call.
SPECIFICATION LedgerSpec
CONSTANTS
    NoSession = NoSession
    NoTurn = NoTurn
    SessionIds = {s1, s2}
    TurnIds = {t1, t2}
    CallIds = {c1}
    ShellCalls = {}
SYMMETRY Symmetry
INVARIANTS
    LedgerTypeOK
    Sound
    OneRunningTurn
PROPERTIES
    TerminalTurnsFrozen
