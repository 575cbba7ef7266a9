SPECIFICATION Spec
CONSTANTS
    Interval = 1
    MaxSleep = 2
    MaxLatency = 1
    MaxFailures = 2
    kNrRetriesInitialization = 3
    Backends = {"cray", "amdsmi", "nvml", "tegra", "rapl", "xilinx", "rocm"}
    Horizon = 14
PROPERTIES
    RecentTime
    RecentPower
\* The process may end, and so may the first Read().
CHECK_DEADLOCK FALSE
