CONSTANTS
    MinBuyIn = 2
    MaxBuyIn = 3
    CutPercent = 50
    Purse = 3
    LenderPurse = 3
    Others = 3
    Payoffs = {"payoff", "payoff again"}
    Resolvers = {"plea"}
    MaxSessions = 2
    MaxBet = 2
    MaxCrashes = 1
    MaxRaises = 1
SPECIFICATION MCSpec
CHECK_DEADLOCK FALSE
INVARIANTS
    TypeOK
    ChipsConserved
    StakerGetsItsDue
    ProfitIsTrue
    DebtIsCarry
