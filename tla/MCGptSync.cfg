CONSTANTS
    Tables <- MCTables
    Mbrs <- MCMbrs
    MaxLba = 40
    NULL = NULL
SPECIFICATION Spec
INVARIANTS
    OneIsActive
    AcceptsItsOwn
    Settles
PROPERTIES
    KeepsTheActive
