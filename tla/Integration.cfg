CONSTANTS
    NoTree = NoTree
    NoSet = NoSet
    FreshId = FreshId
    AnswerIds = {x}
    Words = {yes, no}
    Calls = {i1}
    Baseline = t0
    Trees = {t1, t2}
    Commits = {c1}
    Policies <- MCPolicies
    MaxLog = 5
    MaxApplied = 1
    MaxEvidence = 2
    MaxMoves = 1
SPECIFICATION Spec
INVARIANTS VerdictIsEarned LandedWasJudged NeverStuck
CHECK_DEADLOCK FALSE
SYMMETRY Symmetry
