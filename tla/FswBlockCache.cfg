CONSTANTS
    Blocks = {b1, b2, b3}
    INVALID = INVALID
    Sizes = {s512, s1024}
    DefaultSize = s512
    NoData = NoData
    GARBAGE = GARBAGE
    MaxLevel = 2
    MinTable = 1
    MaxTable = 4
    MaxLoans = 2
SPECIFICATION CacheSpec
INVARIANTS CacheInv
PROPERTIES ImplementsStore
