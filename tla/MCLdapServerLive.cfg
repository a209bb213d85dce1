SPECIFICATION FairSpec
CONSTANTS
    max_session = 1
    max_concurrent = 1
    Timeouts = {"read", "write", "idle"}
    MSG_LEN = 2
    READ_BUFFER = 4
    WRITE_BUFFER = 3
    MAX_VERSION = 2
    MAX_REQUESTS = 2
    MAX_ENTRIES = 1
PROPERTY EveryRequestAnswered
