SPECIFICATION AuthoritySpec
CONSTANTS
    Conversations = {"c1"}
    Advisors = {"a1"}
    Nobody = "nobody"
    Requests = {1, 2}
    MAX_ALERT_ATTEMPTS = 1
    MaxInterruptions = 1
INVARIANTS
    WaitingPausesMaia
PROPERTIES
    NobodyWaitsUnnoticed
CHECK_DEADLOCK FALSE
