CONSTANTS
    Disk <- MCDisk
    Pointers <- MCPointers
    Nodes <- MCNodes
    RootBlock = 301
    TreeHeight = 4
    NDir = 2
    IndCount = 2
    BlockSize = 8
    W = 7
    Lengths = {3, 8, 21}
    Seeks = {0, 7, 30, 57, 100}
    NULL = NULL
SPECIFICATION FairSpec
INVARIANTS
    ReadsTheFile
    ExtentIsTheMap
    NothingStaysOnLoan
    FindsTheItem
PROPERTIES
    ReadsReturn
