SPECIFICATION Spec
CONSTANTS
    kNrRetriesInitialization = 10
    Faults = {}
INVARIANTS
    StartedByFirstRead
CHECK_DEADLOCK FALSE
