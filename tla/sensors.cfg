SPECIFICATION Spec
CONSTANTS
    NrSensors = 2
    Powers = {0, 1}
    Scale = 6
    MaxTime = 3
INVARIANTS
    LatestTotal
    ReturnedTotal
\* The clock stops at MaxTime.
CHECK_DEADLOCK FALSE
