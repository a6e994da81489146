SPECIFICATION FairSpec
CONSTANTS
    m1 = m1
    m2 = m2
    g1 = g1
    g2 = g2
    g3 = g3
    g4 = g4
    Messages = {m1, m2}
    Groups = {g1, g2, g3, g4}
    NoGroup = NoGroup
    MaxAttempts = 2
    InitialHandling = {"Maia"}
    MayCrash = TRUE
    Notices = {}
PROPERTIES
    EventuallyResolved
