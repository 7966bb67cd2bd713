SPECIFICATION Spec
CONSTANTS
    s1 = s1
    s2 = s2
    p1 = p1
    p2 = p2
    p3 = p3
    NoPane = NoPane
    NoSession = NoSession
    Sessions <- TwoSessions
    Panes <- ThreePanes
    SessionOf <- PaneSessions
    MaxBytes = 1
    MaxDisturbances = 1
    Disturbances = {"switch"}
INVARIANTS
    PaintOnly
CHECK_DEADLOCK FALSE
