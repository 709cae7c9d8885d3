SPECIFICATION Spec
CONSTANTS
    NoWorker = NoWorker
    NoBase = NoBase
    NoThread = NoThread
    NoText = NoText
    Threads = {"a", "b"}
    Script <- MCScript
    Texts = {x1, x2}
    Clicks = {k1}
    MaxMoves = 3
INVARIANTS TranscriptIsLog GateNotBehind
PROPERTIES NotesStay
CHECK_DEADLOCK FALSE
