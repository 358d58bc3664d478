CONSTANTS
    Dirs <- MCDirs
    Nodes <- MCNodes
    RootBlock = 301
    TreeHeight = 4
    Names <- MCNames
    Filters = {0, 1, 2}
    Patterns <- MCPatterns
    FirstBuffer = 256
    MaxTries = 1
    NULL = NULL
SPECIFICATION FairSpec
INVARIANTS
    ListingIsComplete
    LookupIsRight
PROPERTIES
    ListingsEnd
