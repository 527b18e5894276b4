CONSTANTS
    Players <- MCFour
    NoOne = "-"
    TableSize = 3
    Human = "me"
    Entry <- MCPlace
    StartingStack = 1
    MaxRounds = 2
    PersonaFields = {TRUE, FALSE}
    LiveAdvances = FALSE
    TornHands = 1
SPECIFICATION LiveSpec
INVARIANTS
    CountedOnce
