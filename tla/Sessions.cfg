SPECIFICATION Spec
CONSTANTS
    c1 = c1
    c2 = c2
    u1 = u1
    u2 = u2
    None = None
    Conns <- TwoConns
    Users <- TwoUsers
    Owner = u1
    UserOf <- ConnUser
    Numbers <- TwoNumbers
    MaxBorn = 3
    MaxCommands = 5
    MaxEvents = 1
    MaxPerCall = 1
    Deltas <- WheelUp
    Longer <- BeginsWith
    Kept <- KeptAs
    Typed <- TypedNames
    Windows <- WindowNames
INVARIANTS
    TypeOK
    OneWriter
    NameFollows
    
    InputAfterScroll
CHECK_DEADLOCK FALSE
