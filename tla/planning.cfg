SPECIFICATION FairSpec
CONSTANTS
    c1 = c1
    c2 = c2
    None = None
    Signals = 2
    Campaign = {c1, c2}
    Queries = 3
    Routes <- AllRoutes
    Window <- Windows
    Cron = {"cron"}
    Caller = {"caller"}
    SignalLimit = 2
    CampaignLimit = 1
    MaxQueries = 2
    Listing <- Listings
    Offered <- Offers
    Score = {70}
    Heat = {"yes"}
    MaxMoves = 2
    MaxReports = 2
INVARIANTS
    TypeOK
    PlansAreExact
    BurstIsRaised
PROPERTIES
    EveryPairIsPlanned
    NewestIsAnnounced
CHECK_DEADLOCK FALSE
