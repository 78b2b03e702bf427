SPECIFICATION Spec
CONSTANTS
    j1 = j1
    j2 = j2
    p1 = p1
    Pages = {p1}
    Jobs = {j1, j2}
    Bindings = {"session", "other"}
    Original = "session"
    MaxCalls = 2
    MaxPlans = 1
    MaxTrouble = 2
SYMMETRY Symmetry
INVARIANTS
    TypeOK
    JobsTruthful
PROPERTIES
    CommitsWhole
    ForgetIsThorough
CHECK_DEADLOCK FALSE
