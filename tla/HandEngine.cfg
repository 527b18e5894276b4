CONSTANTS
    Players <- MCPlayers
    Ring <- MCRing
    Humans <- MCHumans
    InitStacks <- MCStacks
    InitAnte = 2
    GrowthNum = 2
    GrowthDen = 1
    HandsPerLevel = 1
    MaxBlind = 0
    MaxRaises = 1
    MaxHands = 2
SPECIFICATION LSpec
INVARIANTS
    TypeOK
    ChipsConserved
    TurnIsOwed
    BetsMatchedAtClose
    RunOutOnlyWhenSettled
PROPERTIES
    NobodySkipped
    FullRaise
    OneHandCompletes
