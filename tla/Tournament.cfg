CONSTANTS
    Players <- MCSeven
    NoOne = "-"
    TableSize = 3
    Human = "me"
    Entry <- MCEntry
    StartingStack = 1
    MaxRounds = 2
SPECIFICATION FairSpec
INVARIANTS
    TypeOK
    ChipsConserved
    EveryoneSeated
    TablesBalanced
PROPERTIES
    RoundEnds
    KeepsStandings
