CONSTANTS
    Ids <- MCIds
    Root = "root"
    Kind <- MCKind
    Dir <- MCDir
    Target <- MCTarget
    Paths <- MCPaths
    Addr = {1, 2, 3, 4, 5, 6}
    Files = {1, 2, 3}
    MaxLeaks = 1
    NamesMayFail = TRUE
    FsTypes = {"ext2", "reiserfs", "iso9660"}
    Media <- MCMedia
    IoErrors = {"DEVICE_ERROR", "NO_MEDIA"}
    DescsPerKiB = 2
    InodesPerKiB = 4
    NULL = NULL
SPECIFICATION FairVolumeSpec
INVARIANTS
    RefcountsAreExact
    OneDnodePerId
    UnmountFreesUnlessLost
    OpensWhatThePathNames
    StartedOrClean
    RecognisesItsOwn
    MountedAgreesWithDisk
PROPERTIES
    CallsReturn
