CONSTANTS
    Disks <- MCDisks
    Handles <- MCHandles
    WholeOf <- MCWholeOf
    StartOf <- MCStartOf
    MbrDisk = "hd"
    Self = "hd1"
    Optical = {}
    MaxVolumes = 4
    NULL = NULL
SPECIFICATION Spec
INVARIANTS
    ClosesWhatIsOpen
CHECK_DEADLOCK FALSE
