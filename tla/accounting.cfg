SPECIFICATION Spec
CONSTANTS
    MinPower = 0
    MaxPower = 2
    MaxTime = 6
INVARIANTS
    LatestWithinPower
    ReturnedWithinPower
PROPERTIES
    ReadAdvances
    ImplementsMeter
\* The clock stops at MaxTime.
CHECK_DEADLOCK FALSE
