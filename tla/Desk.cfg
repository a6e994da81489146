SPECIFICATION DeskSpec
CONSTANTS
    Parts = {"Journey", "Support", "Lifecycle", "Import", "Plan", "Setup", "Schedule", "Measurement",
             "Ingestion", "Needs", "Visits"}
    Journeys = {"j1"}
    Milestones = {"m1"}
    Conclusions = {"c1"}
    MaxTemplates = 2
    MaxVersions = 3
    Grants = {"g1", "g2", "g3"}
    Deletions = {"d1", "d2"}
    ScopeOf <- TwoScopes
    Exports = {"e1"}
    Holds = {"h1", "h2"}
    MaxCopies = 2
    Keys = {"k1", "k2"}
    Sources = {"s1", "s2"}
    RecordsOf <- TwoFiles
    Applies = {"a1", "a2"}
    SourceOf <- ReadBy
    Grantings = {"p1", "p2", "p3"}
    LimitOf <- ThreeLimits
    Seats = {"l1", "l2"}
    Refreshes = {"u1", "u2"}
    None = None
    Settings = {"c1", "c2"}
    DocumentOf <- TwoDocuments
    References = {"r1", "r2"}
    IsBootstrap = TRUE
    Nothing = Nothing
    Cycles = {"y1"}
    LastDay = 2
    Workers = {"w1", "w2"}
    Visits = {"v1"}
    MaxFacts = 3
    ScanLimit = 3
    BatchSize = 2
    DayOf <- TwoDays
    Definitions = {"n1", "n2"}
    Current = "n1"
    Passes = {"q1", "q2"}
    Uploads = {"o1", "o2", "o3", "o4"}
    DocumentKey <- OneKeyOften
    CreateOnly = {"o1"}
    Malformed = {"o3"}
    MaxProperties = 1
    NoFile = NoFile
    Messages = {"m1"}
    Profiled = {"m1"}
    Statements = {"n1", "n2", "n3"}
    KindOf <- ThreeKinds
    NameOf <- OneName
    ValueOf <- TwoValues
    ExcerptOf <- OneExcerpt
    IntentName = "intent"
    NoValue = NoValue
    StaleDays = 2
    KeepDays = 1
    MaxDay = 3
    Advisors = {"a1", "a2"}
    NoAdvisor = "-"
    Starts = {"s1", "s2"}
    Calls = {"k1", "k2", "k3"}
    NoCall = "-"
    StartOf <- AskedFor
    Moves <- BookThenMove
    MaxTurns = 2
INVARIANTS
    DatasetCatchesUp
    AccessFollowsTheGrant
    RefusedRequestsRemoveNothing
    RollbackKnowsItsRecords
    HistoryIsALine
    SetupHasOneAnswer
    AttemptsAreWhole
    CellsAreRecomputed
    DocumentsAreKept
    ConfirmedIsEvidenced
    VisitsAreAnswerable
CHECK_DEADLOCK FALSE
