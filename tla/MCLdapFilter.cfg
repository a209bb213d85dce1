SPECIFICATION Spec
CONSTANTS
    Workloads <- NestedStars
    Cuts = {}
    MaxCuts = 0
INVARIANT
    RequestsIntact
CHECK_DEADLOCK FALSE
