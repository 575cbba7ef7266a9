------------------------------- MODULE RaplZones -------------------------------
(***************************************************************************)
(* The RAPL counters that RaplImpl (rapl/RaplImpl.cpp) opens and adds up,  *)
(* for the CPUs that the process may run on (common/cpu.h). A zone is one  *)
(* directory intel-rapl:<package> or intel-rapl:<package>:<part>.          *)
(***************************************************************************)
EXTENDS FiniteSetsExt, Integers

Zone(package, name) == [package |-> package, name |-> name]

\* A server with two packages, and a client with one package and the zone of the
\* whole platform, which has a number like a package's.
Machines ==
    [server |-> {Zone(0, "package"), Zone(0, "dram"), Zone(1, "package"), Zone(1, "dram")},
     client |-> {Zone(0, "package"), Zone(0, "core"), Zone(0, "uncore"), Zone(1, "psys")}]

\* /sys/devices/system/cpu/cpu<n>/topology/physical_package_id
Topology == [server |-> <<0, 0, 1, 1>>, client |-> <<0, 0, 0, 0>>]
Cpus     == 0 .. 3

Package(machine, cpu) == Topology[machine][cpu + 1]

\* get_active_cpus(): the CPUs of the affinity mask, among as many as are online.
ActiveCpus(affinity, online) == affinity \cap (0 .. (Cardinality(online) - 1))

\* Variant: the packages of all CPUs.
AllPackages(machine, cpus) == {Package(machine, cpu) : cpu \in Cpus}

ActivePackages(machine, cpus) == {Package(machine, cpu) : cpu \in cpus}

\* The zones for which Init() makes a counter.
Counters(machine, affinity, online) ==
    {z \in Machines[machine] : z.package \in ActivePackages(machine, ActiveCpus(affinity, online))}

\* The zones that GetState() adds up for the first entry of the State.
Total(counters) == {z \in counters : z.name = "package"}

-----------------------------------------------------------------------------
\* The total holds no package that the process may not run on, nor a part of one or
\* the platform in addition; while all CPUs are online it holds every package that
\* the process may run on (RaplImpl.cpp:60-76, 118-125; cpu.h:26-33).
TotalIsUsedPackages(counters, machine, affinity, online) ==
    LET total == Total(counters)
        used  == {Zone(Package(machine, cpu), "package") : cpu \in affinity}
    IN  /\ total \subseteq used
        /\ online = Cpus => total = used

=============================================================================
