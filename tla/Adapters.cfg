\* Adapters: the three vendors, one after the other, and what two of them stream.
SPECIFICATION Spec
CONSTANTS
    w1 = w1
    w2 = w2
    Workers = {w1, w2}
    MaxTurns = 2
    MaxProcs = 2
    MaxAsks = 1
    MaxWire = 1
    MaxGens = 2
    NoWorker = NoWorker
    NoBase = NoBase
    Chunks = {c1, c2}
    MaxMessages = 3
    MaxBlocks = 2
    MaxRounds = 2
INVARIANTS NothingMisread AnswersReachAsker ProcessesKept SaidIsShown
PROPERTIES ImplementsContract EverythingEnds
CHECK_DEADLOCK FALSE
