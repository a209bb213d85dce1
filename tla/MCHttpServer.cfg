SPECIFICATION Spec
CONSTANTS
    HTTP_MAX_SESSION = 3
    INIT_SESSION = 2
    HTTP_DATA_BUFFER = 4
    HTTP_MAX_HEADER_SIZE = 3
    MIN_HEADER = 2
    max_w_len = 2
    TimeoutSettings <- MCTimeouts
    SessionLimits <- MCLimits
    Workloads <- MCWorkloads
    Response = {3}
    Hosts <- MCHosts
    Files <- MCFiles
INVARIANTS TypeOK TableSound RequestsFramed WaitingHasRoom ResponsesInOrder
    StalledIoIsTimed 
