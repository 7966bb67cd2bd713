SPECIFICATION Spec
CONSTANTS
    s1 = s1
    s2 = s2
    p1 = p1
    p2 = p2
    p3 = p3
    NoPane = NoPane
    NoSession = NoSession
    Sessions <- OneSession
    Panes <- OnePane
    SessionOf <- OnePaneSession
    MaxBytes = 1
    MaxDisturbances = 2
    Disturbances = {"speech", "history-reseed"}
INVARIANTS
    ScreenExact
CHECK_DEADLOCK FALSE
