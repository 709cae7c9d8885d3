SPECIFICATION FairSpec
CONSTANTS
    Nothing = Nothing
    Torn = Torn
    Closed = Closed
    NoRole = NoRole
    NoItem = NoItem
    Calls = {c1, c2}
    Threads = {t1, t2}
    Items = {i1, i2}
    Labels = {"l1", "l2"}
    Decls <- MCDecls
    MaxMoves = 4
    MaxFaults = 1
    MaxExits = 1
INVARIANTS OneTakenThread NoThreadOnGoingDirectory
PROPERTIES ItemsSurvive EveryCallEnds
CHECK_DEADLOCK FALSE
