SPECIFICATION Spec
CONSTANTS
    MAX_FD = 3
    MAX_SESSION = 2
    MAX_EVENT = 2
    MAX_CONN = 4
INVARIANTS TypeOK CallsAreRegistered WatchedUnlessRefused
PROPERTY HangUpCloses
CHECK_DEADLOCK FALSE
