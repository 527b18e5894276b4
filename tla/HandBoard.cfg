CONSTANTS
    Players <- MCPlayers
    Ring <- MCRing
    Humans <- MCHumans
    InitStacks <- MCUneven
    InitAnte = 2
    GrowthNum = 2
    GrowthDen = 1
    HandsPerLevel = 1
    MaxBlind = 0
    MaxRaises = 1
    MaxHands = 2
SPECIFICATION Spec
INVARIANT
    ContestedShowdownHasBoard
