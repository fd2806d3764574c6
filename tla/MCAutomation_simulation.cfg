SPECIFICATION Spec
CONSTANTS
    Limits <- MCLimits
    Words <- MCWords
    Fields <- MCFields
    Day = 8
    Plans <- MCPlans
    Documents <- MCDocuments
    Governed <- MCGoverned
    Simulation <- simulate
    Evaluate <- evaluate_automation_condition
    Registries <- MCRegistries
    Inputs <- MCInputs
    Callers = {k1, k2}
    Loads <- Passing
    InitialObservations <- MCObservations
    Observable <- MCObservable
INVARIANTS
    SimulationPredictsRun
CHECK_DEADLOCK FALSE
