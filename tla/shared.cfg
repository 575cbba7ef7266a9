SPECIFICATION Spec
CONSTANTS
    kNrRetriesInitialization = 1
    Faults = {"pmt::Exception", "std::exception", "system_error"}
    MaxTime = 6
INVARIANTS
    TypeOK
    EnergyNeverAhead
    LagBounded
PROPERTIES
    NeverBackInTime
    ImplementsMeter
\* The clock stops at MaxTime, and the process ends.
CHECK_DEADLOCK FALSE
