SPECIFICATION Spec
CONSTANTS
    Backends = {"nvml", "likwid", "cray", "rapl", "factory"}
    MaxThreads = 4
    Accelerators = 2
    MaxFilenames = 6
INVARIANTS
    NVMLReportsEachField
    
    CrayOrderedByKind
    RaplTotalIsUsedPackages
    CreateGivesDevice
\* An object is created once.
CHECK_DEADLOCK FALSE
