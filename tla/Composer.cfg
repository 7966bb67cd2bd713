SPECIFICATION FairSpec
CONSTANTS
    c1 = c1
    c2 = c2
    r1 = r1
    r2 = r2
    Tmux = Tmux
    Conns <- TwoConns
    Drafts <- DraftTexts
    Requests <- TwoRequests
    TextOf <- RequestTexts
    MaxRemembered = 1
    Events = {"input", "clear", "reset", "rename", "reject", "failure", "foreign", "layout", "drop"}
    MaxCommands = 3
    MaxEvents = 1
INVARIANTS
    TypeOK
    EnteredOnce
    AckedEntered
    SubmittedVerbatim
    AcceptedIsTyped
    NobodyBlocked
PROPERTIES
    CommandsFinish
CHECK_DEADLOCK FALSE
