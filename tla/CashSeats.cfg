CONSTANTS
    MinBuyIn = 2
    MaxBuyIn = 3
    CutPercent = 50
    Purse = 3
    LenderPurse = 3
    Others = 3
    Payoffs = {"payoff"}
    Resolvers = {"plea"}
    MaxSessions = 2
    MaxBet = 2
    MaxCrashes = 0
    MaxRaises = 0
SPECIFICATION SeatsSpec
CHECK_DEADLOCK FALSE
INVARIANTS
    SeatNeverNegative
