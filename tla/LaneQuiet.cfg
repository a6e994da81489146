SPECIFICATION Spec
CONSTANTS
    m1 = m1
    m2 = m2
    g1 = g1
    g2 = g2
    g3 = g3
    g4 = g4
    g5 = g5
    g6 = g6
    Messages = {m1, m2}
    Groups = {g1, g2, g3, g4, g5, g6}
    NoGroup = NoGroup
    MaxAttempts = 3
    InitialHandling = {"Maia"}
    MayCrash = FALSE
    Notices = {"owed"}
SYMMETRY Symmetry
INVARIANTS
    ReplyCoversWhatWasHeard
    AnsweredAtMostOnce
PROPERTIES
    HumanWins
