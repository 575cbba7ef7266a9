SPECIFICATION Spec
CONSTANTS
    max_energy_range_uj = 4
    MaxTotal = 13
    MaxOffset = 12
PROPERTIES
    WrapCountedOnce
CHECK_DEADLOCK FALSE
