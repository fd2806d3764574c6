SPECIFICATION Spec
CONSTANTS
    Actors = {a1}
    Keys = {k1, k2, k3}
    Nodes = {n1, n2}
    Callers = {c1, c2}
    Workloads <- MCWorkloads
    Refs = 3
    MaxOps = 3
    QueueCapacity = 1
    EventPage = 8
    MaxDisruptions = 1
INVARIANTS
    DispatchedOnce
    CancellationSettlesBoth
    EnrolledIsBacked
    StrayNodeIsUnfinished
    AttachedFabricHasSecrets
CHECK_DEADLOCK FALSE
SYMMETRY Symmetry
