SPECIFICATION Spec
CONSTANTS
    max_energy_range_uj = 4
    MaxTotal = 13
    MaxOffset = 12
INVARIANTS
    NoUnderflow
    ExactBeforeWrap
\* The hardware stops at MaxTotal and the offset at MaxOffset.
CHECK_DEADLOCK FALSE
