SPECIFICATION Spec
CONSTANTS
    max_session = 2
    max_concurrent = 1
    Timeouts = {"read", "write", "idle"}
    MSG_LEN = 2
    READ_BUFFER = 4
    WRITE_BUFFER = 3
    MAX_VERSION = 3
    MAX_REQUESTS = 2
    MAX_ENTRIES = 1
INVARIANTS TypeOK LastSessionIsLast SessionCountIsUsed RequestsAccounted
    ConcurrencyAccounted PendingIoIsTimed
PROPERTY IdleCloseLosesNothing
