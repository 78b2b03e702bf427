\* One turn with a file tool and a shell tool over two rounds, killed anywhere.
SPECIFICATION FairSpec
CONSTANTS
    NoSession = NoSession
    NoTurn = NoTurn
    SessionIds = {s1, s2}
    TurnIds = {t1}
    CallIds = {read, shell}
    ShellCalls = {shell}
    MaxRounds = 2
    MaxToolCalls = 1
    StoreErrors = TRUE
    MaxCrashes = 2
INVARIANTS
    TypeOK
    StoreAgrees
    EffectsRecorded
    ResultsTruthful
    RunDiscipline
PROPERTIES
    ConsentGate
    ImplementsLedger
    RunEnds
