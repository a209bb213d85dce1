SPECIFICATION Spec
CONSTANTS
    LDAP_MAX_CLIENT = 1
    MaxClientValues = {1}
    MaxConcurrentValues = {1}
    max_wbuffer = 3
    r_size = 5
    heartbeat_type = "SEARCH"
    Timeouts = {"read", "write", "connect"}
    DirectSend = FALSE
    MAX_NO_MEMORY = 0
    MSG_LEN = 1
    MAX_TID = 2
    MAX_ENTRIES = 0
INVARIANT ResetKeepsQueues
