-------------------------------- MODULE Factory --------------------------------
(***************************************************************************)
(* pmt::Create() (common/PMT.cpp): which PMT a name and an argument give,  *)
(* depending on the backends that were built; NVIDIA::Create(), which goes *)
(* on to another backend; and the constructor of NVMLImpl, where the       *)
(* variable PMT_DEVICE takes the place of the device number. An argument   *)
(* is <<"none">>, <<"number", n>> or <<"string", length>>.                 *)
(***************************************************************************)
EXTENDS Integers

WithoutArgument == {"cray", "likwid", "rapl", "tegra", "nvml", "nvidia", "amdsmi", "rocm"}
WithNumber      == {"nvml", "nvidia", "amdsmi", "rocm"}
WithString      == {"powersensor2", "powersensor3", "xilinx"}
Names           == WithoutArgument \cup WithString

NoDevice == -1

\* A PMT, with the number of its device if it has one.
PMT(backend, device) == [backend |-> backend, device |-> device]
Dummy   == PMT("dummy", NoDevice)
Failure == PMT("runtime_error", NoDevice)

\* NVMLImpl(device_number); pmt_device is PMT_DEVICE, or NoDevice if it is not set.
NVML(device, pmt_device) == PMT("nvml", IF pmt_device # NoDevice THEN pmt_device ELSE device)

\* An integrated device is read through Tegra; NVML reads the others.
NVIDIA(device, pmt_device, built, integrated) ==
    IF "tegra" \in built /\ device \in integrated THEN PMT("tegra", NoDevice)
    ELSE IF "nvml" \in built THEN NVML(device, pmt_device)
    ELSE Failure

\* Create() of a backend that takes a device number, 0 by default.
WithDevice(name, device, pmt_device, built, integrated) ==
    CASE name = "nvml"   -> NVML(device, pmt_device)
      [] name = "nvidia" -> NVIDIA(device, pmt_device, built, integrated)
      [] OTHER           -> PMT(name, device)

\* Variant: the number is not passed on.
CreateDefault(name, argument, pmt_device, built, integrated) ==
    IF name \in built \cap WithNumber
    THEN WithDevice(name, 0, pmt_device, built, integrated) ELSE Dummy

Create(name, argument, pmt_device, built, integrated) ==
    IF name \notin built THEN Dummy
    ELSE CASE argument[1] = "none" /\ name \in WithNumber ->
                  WithDevice(name, 0, pmt_device, built, integrated)
           [] argument[1] = "none" /\ name \in WithoutArgument \ WithNumber ->
                  PMT(name, NoDevice)
           [] argument[1] = "number" /\ name \in WithNumber ->
                  WithDevice(name, argument[2], pmt_device, built, integrated)
           [] argument[1] = "string" /\ argument[2] > 1 /\ name \in WithString ->
                  PMT(name, NoDevice)
           [] OTHER -> Dummy

\* What C++ passes for a device number, and what measure() of the Python module does:
\* it takes 0 for no argument.
CxxArgument(device)    == <<"number", device>>
PythonArgument(device) == IF device > 0 THEN <<"number", device>> ELSE <<"none">>

-----------------------------------------------------------------------------
\* Asked for a device of a backend that was built, from C++ or from Python, Create()
\* gives that device, or the one that PMT_DEVICE names: never another one, and never
\* the dummy (PMT.cpp:220-285, NVIDIA.cpp:32-45, python/__init__.py:21-26).
GivesDevice(pmt, name, device, pmt_device, built, integrated) ==
    CASE pmt.backend = "tegra" -> name = "nvidia" /\ device \in integrated
      [] pmt.backend = "nvml"  ->
             /\ name \in {"nvml", "nvidia"}
             /\ pmt.device = IF pmt_device # NoDevice THEN pmt_device ELSE device
      [] pmt.backend = "runtime_error" -> name = "nvidia" /\ "nvml" \notin built
      [] OTHER -> pmt = PMT(name, device)

=============================================================================
