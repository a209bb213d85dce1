SPECIFICATION Spec
CONSTANTS
    LDAP_MAX_CLIENT = 2
    MaxClientValues = {1, 2}
    MaxConcurrentValues = {1, 2}
    max_wbuffer = 3
    r_size = 5
    heartbeat_type = "NONE"
    Timeouts = {"read", "write", "connect"}
    DirectSend = FALSE
    MAX_NO_MEMORY = 0
    MSG_LEN = 2
    MAX_TID = 3
    MAX_ENTRIES = 1
INVARIANTS TypeOK QueueDiscipline
    ConcurrentCountIsOutstanding WaitingHasOutstanding ConcurrencyLimited
    NoRequestTwice PendingIoIsTimed
