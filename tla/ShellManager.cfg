\* Two start calls with a slot each or one between them, any polls, stops and
\* toggles.
SPECIFICATION MCSpec
CONSTANTS
    NoSession = NoSession
    Sessions = {s1, s2}
    MaxRunning = 2
    MaxTerminal = 1
SYMMETRY Symmetry
INVARIANTS
    TypeOK
    GoneWhenSaid
    OwnedUntilGone
    
    NoLostWakeup
CHECK_DEADLOCK FALSE
