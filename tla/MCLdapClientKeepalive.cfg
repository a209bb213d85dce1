SPECIFICATION Spec
CONSTANTS
    LDAP_MAX_CLIENT = 2
    MaxClientValues = {2}
    MaxConcurrentValues = {1}
    max_wbuffer = 3
    r_size = 5
    heartbeat_type = "SEARCH"
    Timeouts = {"read", "write", "connect"}
    DirectSend = TRUE
    MAX_NO_MEMORY = 1
    MSG_LEN = 2
    MAX_TID = 3
    MAX_ENTRIES = 0
INVARIANTS QueueDiscipline WaitingHasOutstanding ClientCountIsOpen
CHECK_DEADLOCK FALSE
