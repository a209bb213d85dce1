SPECIFICATION FairSpec
CONSTANTS
    LDAP_MAX_CLIENT = 1
    MaxClientValues = {1}
    MaxConcurrentValues = {1}
    max_wbuffer = 0
    r_size = 5
    heartbeat_type = "NONE"
    Timeouts = {"read", "write", "connect"}
    DirectSend = FALSE
    MAX_NO_MEMORY = 0
    MSG_LEN = 2
    MAX_TID = 3
    MAX_ENTRIES = 1
PROPERTIES EntriesOfOneSearch RequestsLeaveQueue
