SPECIFICATION Spec
CONSTANTS
    v1 = v1
    v2 = v2
    v3 = v3
    h1 = h1
    h2 = h2
    Visits = {v1, v2, v3}
    LeadOf <- TwoLeads
    SlotOf <- TwoSlots
    NoVisit = NoVisit
    Handlers = {h1, h2}
    NoHandler = NoHandler
    Followed = {v2}
    MaxEvents = 1
SYMMETRY Symmetry
CONSTRAINT FirstLeadOrdinary
INVARIANTS
    EventsAreAccountedFor
    CalendarIsNotDoubleBooked
    ConfirmedIsOnTheCalendar
    ConfirmationIsAnnounced

    
CHECK_DEADLOCK FALSE
