SPECIFICATION Spec
CONSTANTS
    v1 = v1
    v2 = v2
    v3 = v3
    h1 = h1
    h2 = h2
    Visits = {v1}
    LeadOf <- TwoLeads
    SlotOf <- TwoSlots
    NoVisit = NoVisit
    Handlers = {h1}
    NoHandler = NoHandler
    Followed = {v1}
    MaxEvents = 1
INVARIANTS
    EveryConfirmationIsAnnounced
CHECK_DEADLOCK FALSE
