CONSTANTS
    s1 = s1
    t1 = t1
    t2 = t2
    f1 = f1
    g1 = g1
    g2 = g2
    r1 = r1
    d1 = d1
    l1 = l1
    l2 = l2
    None = None
    Submits = {s1}
    Triggers = {t1, t2}
    Forwards = {f1}
    Gets = {g1, g2}
    Retries = {r1}
    Deletes = {d1}
    Leaves = {l1, l2}
    Moves = {"fold", "call"}
    Turn <- MCTurn
    Starts <- MCStarts
    MaxLosses = 1
    Identities = 7
SPECIFICATION MCSpec
CHECK_DEADLOCK FALSE
INVARIANTS
    TypeOK
    OneLoop
    ToldStands
    OwnTurns
    LeaveStopsTheLoop
    SettledOnce
PROPERTIES
    LeaveEnds
