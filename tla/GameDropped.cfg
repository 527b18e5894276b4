CONSTANTS
    None = None
    s1 = s1
    t1 = t1
    t2 = t2
    f1 = f1
    g1 = g1
    g2 = g2
    r1 = r1
    d1 = d1
    l1 = l1
    l2 = l2
    Submits = {s1}
    Triggers = {t1}
    Forwards = {}
    Gets = {}
    Retries = {}
    Deletes = {}
    Leaves = {}
    Moves = {"fold", "call"}
    Turn <- MCTurn
    Starts <- MCStarts
    MaxLosses = 0
    Identities = 4
SPECIFICATION MCSpec
CHECK_DEADLOCK FALSE
PROPERTY AiTurnTaken
