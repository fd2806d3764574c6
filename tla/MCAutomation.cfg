SPECIFICATION FairSpec
CONSTANTS
    Limits <- MCLimits
    Words <- MCWords
    Fields <- MCFields
    Day = 8
    Plans <- MCPlans
    Documents <- MCDocuments
    Governed <- MCGoverned
    Simulation <- simulate
    Evaluate <- evaluate_automation_condition
    Registries <- MCRegistries
    Inputs <- MCInputs
    Callers = {k1, k2}
    Loads <- MCLoads
    InitialObservations <- MCObservations
    Observable <- MCObservable
INVARIANTS
    ActiveIsGoverned
    SimulationPredictsRun
    OnlyFailuresAreRetried
    TimersMatchRun
    EvaluatorIsSound
PROPERTY
    RunEnds
CHECK_DEADLOCK FALSE
