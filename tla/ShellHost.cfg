\* Two pids for three births, so that a pid comes back during a scan; one fault.
SPECIFICATION FairSpec
CONSTANTS
    MaxPid = 2
    MaxBirths = 3
    MaxErrors = 1
INVARIANTS
    TypeOK
    EndedMeansGone
    NeverStrays
PROPERTIES
    TreeEnds
CHECK_DEADLOCK FALSE
