CONSTANTS
    Players <- MCPlayers
    Ring <- MCRing
    Humans <- MCHumans
    InitStacks <- MCUneven
    InitAnte = 2
    GrowthNum = 2
    GrowthDen = 1
    HandsPerLevel = 1
    MaxBlind = 0
    MaxRaises = 4
    MaxHands = 0
SPECIFICATION HSpec
INVARIANT
    ShortAllInDoesNotReopen
