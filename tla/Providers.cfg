SPECIFICATION Spec
CONSTANTS
    sa = sa
    sb = sb
    sx = sx
    h1 = h1
    h2 = h2
    t1 = t1
    p1 = p1
    p2 = p2
    p3 = p3
    t2 = t2
    t3 = t3
    None = None
    Claude <- TwoClaude
    Codex <- OneCodex
    Stamped <- OneCodex
    Pids = {p1, p2, p3}
    Scenes <- AllScenes
    Texts <- AllTexts
    Alike <- TwoTexts
    Hooks <- TwoHooks
    FirstLines <- Talked
    NewLines <- Answers
    MaxRanges = 1
    MaxRecords = 2
    MaxScan = 2
    MaxLate = 1
    MaxIndexes = 2
    HistoryLimit = 2
    MaxRow = 2
    MaxLines = 3
    MaxEvents = 2
    MaxHooks = 2
    MaxAsked = 2
INVARIANTS
    TypeOK
    IndexExact
    DecisionSound
PROPERTIES
    BindingsAdvance
SYMMETRY Alikes
CHECK_DEADLOCK FALSE
