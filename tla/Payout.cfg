CONSTANTS
    Entrants = {"me", "ai", "syn"}
    Bankrolled = {"me", "ai"}
    Prize <- MCPrize
    Curve <- MCCurve
    MaxField = 24
    MaxPool = 60
    Rake = 1
    Routes = {"advance", "play-out"}
    Boundaries = {"table"}
    Tickers = {"tick"}
    Watchdogs = {"sweep"}
    SandboxLocked = TRUE
    NotOver = NotOver
    NoCaller = "-"
    MaxCrashes = 2
    MaxRaises = 1
    MaxDrops = 0
SPECIFICATION MCSpec
CHECK_DEADLOCK FALSE
INVARIANTS
    TypeOK
    NoneOrAll
    ScheduleIsFair
PROPERTIES
    BooksStayClosed
    ImplementsPrizes
    ClaimedIsPaid
