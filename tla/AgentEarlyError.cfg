\* No crash, no failing append: does every run leave a durable outcome?
SPECIFICATION Spec
CONSTANTS
    NoSession = NoSession
    NoTurn = NoTurn
    SessionIds = {s1}
    TurnIds = {t1}
    CallIds = {read}
    ShellCalls = {}
    MaxRounds = 2
    MaxToolCalls = 1
    StoreErrors = FALSE
    MaxCrashes = 0
INVARIANTS
    EveryRunEndsDurably
