CONSTANTS
    Disk <- MCDiskHoles
    Pointers <- MCPointers
    Nodes <- MCNodes
    RootBlock = 301
    TreeHeight = 4
    NDir = 2
    IndCount = 2
    BlockSize = 8
    W = 7
    Lengths = {21}
    Seeks = {0}
    NULL = NULL
SPECIFICATION Spec
INVARIANTS
    ExtentIsTheMap
