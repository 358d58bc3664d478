CONSTANTS
    Disks <- MCDisks
    Handles <- MCHandles
    WholeOf <- MCWholeOf
    StartOf <- MCStartOf
    MbrDisk = "hd"
    Self = "hd1"
    Optical = {}
    MaxVolumes = 4
    NULL = NULL
SPECIFICATION Spec
INVARIANTS
    HandlesAreHeld
    ClosedWhileRunning
    DisksFollowTheFirmware
    ActiveLeadsToChosen
PROPERTIES
    WalksEnd
CHECK_DEADLOCK FALSE
