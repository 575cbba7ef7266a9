SPECIFICATION Spec
CONSTANTS
    kNrRetriesInitialization = 1
    Faults = {}
    DumpInterval = 1
    MaxFiles = 2
    MaxMarks = 1
    MaxTime = 5
INVARIANTS
    WritesToOpenFile
CHECK_DEADLOCK FALSE
