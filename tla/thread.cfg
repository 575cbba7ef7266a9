SPECIFICATION FairSpec
CONSTANTS
    kNrRetriesInitialization = 10
    Faults = {"pmt::Exception", "std::exception", "system_error"}
INVARIANTS
    TypeOK
    Handover
    UnlockIsMatched
    ThreadEndsBeforeObject
PROPERTIES
    ReadIsMeasured
    WaitEnds
    DestructorEnds
    ThreadStarts
\* The process ends after the destructor, or with std::terminate().
CHECK_DEADLOCK FALSE
