SPECIFICATION Spec
CONSTANTS
    Workloads <- MCWorkloads
    Cuts = {1, 4, 6}
    MaxCuts = 3
INVARIANTS
    RequestsIntact
    ControlsArrive
    ResponsesIntact
    EntriesIntact
    NothingLeftBehind
    FramingInStep
PROPERTY RequestStream
CHECK_DEADLOCK FALSE
