SPECIFICATION Spec
CONSTANTS
    Descriptors <- Nodes
    Cmds = {c1, c2}
    Loads <- MCLoads
    MaxAttempts = 2
    BaseDelay = 1
    MaxDelay = 2
    JitterRange = 1
    VersionModulus = 8
INVARIANTS
    NoCachedFresh
    AttemptsWithinBudget
    
PROPERTY
    ReportsAdvance
CHECK_DEADLOCK FALSE
SYMMETRY Symmetry
