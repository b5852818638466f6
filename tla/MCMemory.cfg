SPECIFICATION Spec
CHECK_DEADLOCK FALSE
CONSTANTS
    Inputs         <- MCInputs
    PointerSpan    = 32
    Layouts        <- MCLayouts
    Slots          = {12, 16}
    Arrays         <- MCArrays
    Junk           = 3
    SmallSize      = 1
    HugeSize       = 2
    Loads          <- MCLoads
    Stores         <- MCStores
    Allocs         <- MCAllocs
    Reallocs       <- MCReallocs
    Frees          <- MCFrees
    Objects        <- MCObjects
    Branches       <- MCBranches
    Symbolics      <- MCSymbolics
    ErrnoAddress   = 1
    ExternalWrites <- MCExternalWrites
INVARIANTS
    MemoryExact
    OwnersExclusive
    AccessVerdicts
    MapsOrdered
