SPECIFICATION FairSpec
CONSTANTS
    Sizes <- LayoutSizes
    DeskSizes <- OrdinarySizes
    Default = 4
    MaxEvents = 3
INVARIANTS
    TypeOK
    NothingForgotten
PROPERTIES
    SizeSettles
CHECK_DEADLOCK FALSE
