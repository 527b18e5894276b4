CONSTANTS
    Players <- MCPlayers
    dist <- MCDist
    MaxBet = 4
    Scale = 6
SPECIFICATION FairSpec
INVARIANTS
    ChipsConserved
    MatchesLayers
    OddChipsLeftOfDealer
PROPERTY
    Terminates
\* A finished call takes no further step.
CHECK_DEADLOCK FALSE
