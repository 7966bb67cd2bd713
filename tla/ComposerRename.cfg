SPECIFICATION Spec
CONSTANTS
    c1 = c1
    c2 = c2
    r1 = r1
    r2 = r2
    Tmux = Tmux
    Conns <- TwoConns
    Drafts <- DraftTexts
    Requests <- TwoRequests
    TextOf <- RequestTexts
    MaxRemembered = 1
    Events = {"rename"}
    MaxCommands = 3
    MaxEvents = 0
INVARIANTS
    SubmittedVerbatimRenamed
CHECK_DEADLOCK FALSE
