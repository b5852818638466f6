SPECIFICATION Spec
CHECK_DEADLOCK FALSE
CONSTANTS
    MAX_FDS    = 5
    StdoutSize = 2
    DirentSize = 2
    Gap        = 8
    Directory  = 10
    OSNames    = {10, 11}
    OSEntries  <- MCOSEntries
    Programs   <- MCPrograms
INVARIANTS
    ListingExact
    SelectSound
PROPERTIES
    OpenFilesImplemented
