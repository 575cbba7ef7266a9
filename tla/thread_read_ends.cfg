SPECIFICATION FairSpec
CONSTANTS
    kNrRetriesInitialization = 10
    Faults = {}
PROPERTIES
    ReadEnds
CHECK_DEADLOCK FALSE
