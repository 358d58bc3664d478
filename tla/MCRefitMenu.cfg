CONSTANTS
    Screens = {"main", "odd", "even", "about"}
    Main = "main"
    Entries <- MCEntries
    Count <- MCCount
    About = "about"
    Space <- MCSpace
    Timeout = 2
    TicksPerSecond = 2
    Characters = {"1", "M", "R", "x"}
    Default = "M"
    NULL = NULL
SPECIFICATION FairSpec
CHECK_DEADLOCK FALSE
INVARIANTS
    SelectionIsVisible
    DisplayIsCurrent
    TimeoutStartsTheDefault
PROPERTIES
    UnattendedBoot
