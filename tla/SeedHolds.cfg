SPECIFICATION Spec
CONSTANTS
    s1 = s1
    s2 = s2
    p1 = p1
    p2 = p2
    p3 = p3
    NoPane = NoPane
    NoSession = NoSession
    Sessions <- OneSession
    Panes <- TwoPanes
    SessionOf <- TwoPaneSessions
    MaxBytes = 2
    MaxDisturbances = 3
    Disturbances = {"resize", "history-reseed", "selection", "busy", "pane", "speech", "stall", "activity", "failure"}
INVARIANTS
    TypeOK
    ReplayComplete
    NothingOvertaken
    PipelineGapless
    SelectionOnScreen
    HoldInvariant
    SelectionInvariant
PROPERTIES
    ResultBeforeHeldOutput
CHECK_DEADLOCK FALSE
