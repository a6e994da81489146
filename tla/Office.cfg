SPECIFICATION OfficeSpec
CONSTANTS
    Parts = {"Work", "Sponsorship", "Provisioning", "Inventory", "Catalog", "Reviews", "Website", "Saved", "Notices", "Channel", "Media"}
    Opportunities = {"o1"}
    Members = {"a1", "a2", "s1"}
    Administrators = {"a1", "a2"}
    Advising = {"a2", "s1"}
    NoMember = "nobody"
    MaxTeamCommands = 2
    SponsoredCampaigns = {"p1", "p2"}
    Surfaces = {"Search"}
    PackageSurfaces <- OnePackage
    InitialLimit <- OnePlace
    MaxLimit = 1
    Quotes = {"q1", "q2"}
    QuoteOf <- QuotedCampaign
    DurationDays <- QuotedDays
    LastDay = 1
    Organizations = {"b1"}
    Runs = {"r1"}
    RunOf <- RunsOfOne
    Channels = {"n1"}
    ChannelOf <- ChannelOfOne
    NoOrganization = "none"
    NoRun = "none"
    Calls = {1, 2}
    Listings = {"l1"}
    MaxTerms = 2
    CatalogListings = {"own", "shared"}
    Visits = {"v1"}
    Handlers = {1, 2}
    Moves = {1, 2}
    MAX_CATALOG_COMMANDS = 3
    MaxTurns = 3
    References = {"r1"}
    Senders = {"x", "y"}
    Anonymous = "nobody"
    MaxCrashes = 1
    Cookies = {"a", "b", "c"}
    SavedListings = {"l"}
    Owners = {"x", "y"}
    Unowned = "nobody"
    Bookings = {"a", "b"}
    MaxLosses = 1
    MaxUpdates = 3
    MaxChannelCrashes = 2
    Photos = {"a", "b"}
    Submissions = {1, 2}
INVARIANTS
    WorkIsAccountedFor
    ReservationsFit
    CompletedReviewsAreCancelled
    NoticesAreNotRepeated
    OrdersAreCarriedOutOnce
    DeletedObjectsAreGone
PROPERTIES
    EligibleIsStillOffered
    CompletedRunsAreWhole
    TurnsEndOnce
    ProtectionLosesNothing
CHECK_DEADLOCK FALSE
