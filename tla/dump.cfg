SPECIFICATION FairSpec
CONSTANTS
    kNrRetriesInitialization = 1
    Faults = {"pmt::Exception"}
    DumpInterval = 1
    MaxFiles = 2
    MaxMarks = 1
    MaxTime = 5
INVARIANTS
    LinesNotMixed
    RowsSpaced
    HeaderFirst
PROPERTIES
    DestructorEnds
\* The owner may leave the object alone, and the process may end.
CHECK_DEADLOCK FALSE
