SPECIFICATION FairSpec
CONSTANTS
    p1 = p1
    p2 = p2
    c1 = c1
    Contacts = {p1, p2}
    Candidates = {c1}
    Campaigns = {1, 2}
    Members = {1, 2, 3, 4, 5}
    ContactOf <- OneListing
    CampaignOf <- TwoCampaigns
    Cap <- TwoCaps
    Window <- TwoWindows
    REACTIVATION_WINDOW = 2
    LongestWindow = 2
    MaxRecipients <- TwoLimits
    Hours = 2
    QuietHours <- TwoQuiet
    ReactivationQuiet = {1}
INVARIANTS
    ContactOncePerCampaign
    CampaignsRespectTheCap
    WaitingIsBounded
PROPERTIES
    EveryoneIsDecided
