SPECIFICATION VisitSpec
CONSTANTS
    Advisors = {"a1", "a2"}
    NoAdvisor = "-"
    Starts = {"s1", "s2"}
    Calls = {"k1", "k2"}
    NoCall = "-"
    StartOf <- AskedFor
    Moves <- BookThenMove
    MaxTurns = 2
INVARIANT OriginalStaysAsItWas
CHECK_DEADLOCK FALSE
