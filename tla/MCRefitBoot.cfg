CONSTANTS
    NULL = NULL
    Side <- MCSide
    Machines <- MCMachines
    BannerImage <- MCBannerImage
    SmallImage <- MCSmallImage
    MaxPaths = 4
    Places <- MCPlaces
    Hardcoded <- MCHardcoded
SPECIFICATION Spec
INVARIANTS
    ConfigIsWhatTheFileSays
    ErrorsAreSeen
    MenuIsShown
    TilesShowTheirIcons
    EveryEntryHasItsImage
    MenuOffersWhatIsThere
    BootableDiskIsOffered
    LegacyLoaderIsFound
CHECK_DEADLOCK FALSE
