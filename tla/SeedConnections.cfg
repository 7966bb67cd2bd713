SPECIFICATION FairSpec
CONSTANTS
    s1 = s1
    s2 = s2
    p1 = p1
    p2 = p2
    p3 = p3
    NoPane = NoPane
    NoSession = NoSession
    Sessions <- TwoSessions
    Panes <- ThreePanes
    SessionOf <- PaneSessions
    MaxBytes = 1
    MaxDisturbances = 3
    Disturbances = {"pane", "switch", "drop", "backlog", "failure", "busy", "resize", "history-reseed", "selection"}
INVARIANTS
    ScreenExact
    ScreenInvariant
    PipelineInvariant
PROPERTIES
    EventuallyConverged
    EventuallyFollowed
    ImplementsLiveScreen
CHECK_DEADLOCK FALSE
